----------------------------- MODULE Accountability -----------------------------
(***************************************************************************)
(* The accountability log that the connections of a server share, and what *)
(* the path of a call writes to it: the filter chain, the seam to local    *)
(* handlers, an attestation, the backend's answer, an outcome.  Each       *)
(* connection has its own router, which serves one routed call at a time.  *)
(* The log is signed and hash-chained; a hash is the sequence of what went *)
(* into it, a signature is the pair of its secret and its record.          *)
(***************************************************************************)
EXTENDS FilterChain, FiniteSets

CONSTANTS
  Conns,       \* connections
  Requests,    \* calls their clients may make
  Local,       \* tools that a local handler has
  Unknown,     \* tools nobody has
  Chains,      \* filter chains
  Secret, Forged,     \* the log's secret and another one
  MaxCalls     \* bound of the instance: calls of all connections

ASSUME AccountabilityAssumption ==
  /\ MaxCalls \in Nat /\ Secret # Forged /\ Local \cap Unknown = {}
  /\ \A chain \in Chains : chain \in Seq({chain[i] : i \in DOMAIN chain})

\* A request has its four fields.
ASSUME RequestsAssumption ==
  \A request \in Requests :
    request = [method |-> request.method, tool |-> request.tool,
               arguments |-> request.arguments, meta |-> request.meta]

VARIABLES
  handlers,    \* the chain, <<>> if none is set
  resilient,   \* breakers are configured
  log,         \* records of the AuditLog
  pc,          \* each connection: "idle", "awaiting" its backend or "ended"
  routed,      \* the request it sent to the backend
  calls,       \* history: every call, with what became of it
  mine         \* the number of the call each connection serves

auditVars == <<handlers, resilient, log, pc, routed, calls, mine>>

-------------------------------------------------------------------------------
\* The log.  The ghost field call of a record is not part of what is signed.
Genesis == <<>>
\* A hash of the record alone.
chain_unlinked(prev, record) == <<record>>

chain(prev, record) == Append(prev, record)
sign(secret, record) == <<secret, record>>
Head_(entries) == IF entries = <<>> THEN Genesis ELSE entries[Len(entries)].hash

Entry(prev, record, call) ==
  [record |-> record, prev |-> prev, signature |-> sign(Secret, record),
   hash |-> chain(prev, record), call |-> call]
Appended(entries, record, call) == Append(entries, Entry(Head_(entries), record, call))

verify(entries) ==
  \A i \in DOMAIN entries :
    LET head == Head_(SubSeq(entries, 1, i - 1))
    IN  /\ entries[i].signature = sign(Secret, entries[i].record)
        /\ entries[i].prev = head
        /\ entries[i].hash = chain(head, entries[i].record)

attestation_record(name) == [type |-> "attestation", name |-> name, ok |-> None]
outcome_record(name, ok) == [type |-> "outcome", name |-> name, ok |-> ok]

record_audit(record, call) == log' = Appended(log, record, call)

-------------------------------------------------------------------------------
AuditInit ==
  /\ handlers \in Chains /\ resilient \in BOOLEAN
  /\ log = <<>>
  /\ pc = [c \in Conns |-> "idle"]
  /\ routed = [c \in Conns |-> None]
  /\ calls = <<>>
  /\ mine = [c \in Conns |-> 0]

Call(request, fate) == [request |-> request, fate |-> fate]
NewCall(request, fate) == calls' = Append(calls, Call(request, fate))
This == Len(calls) + 1

\* route_call up to its first await: a blocked call leaves a failed outcome, an unknown
\* or local tool and an unavailable backend leave nothing.
Filtered(request) == run(handlers, request)

Blocked(c, request) ==
  /\ Filtered(request).action = "block"
  /\ record_audit(outcome_record(request.tool, FALSE), This)
  /\ NewCall(request, "blocked")
  /\ UNCHANGED <<pc, routed, mine>>

AnsweredHere(c, request) ==
  /\ Filtered(request).action = "forward"
  /\ LET tool == Filtered(request).message.tool
     IN  tool \in Local \cup Unknown \/ resilient
  /\ NewCall(request, "answered here")
  /\ UNCHANGED <<log, pc, routed, mine>>

Dispatched(c, request) ==
  /\ Filtered(request).action = "forward"
  /\ LET message == Filtered(request).message
     IN  /\ message.tool \notin Local \cup Unknown
         /\ record_audit(attestation_record(message.tool), This)
         /\ routed' = [routed EXCEPT ![c] = message]
  /\ NewCall(request, "awaiting")
  /\ pc' = [pc EXCEPT ![c] = "awaiting"] /\ mine' = [mine EXCEPT ![c] = This]

route_call(c, request) ==
  /\ pc[c] = "idle" /\ Len(calls) < MaxCalls
  /\ Blocked(c, request) \/ AnsweredHere(c, request) \/ Dispatched(c, request)
  /\ UNCHANGED <<handlers, resilient>>

\* A pooled call or a task runs beside the router's loop, whatever that waits for.
Pooled(c, request) ==
  /\ pc[c] # "ended" /\ Len(calls) < MaxCalls /\ request.tool \in Local
  /\ \/ Blocked(c, request)
     \/ /\ Filtered(request).action = "forward"
        /\ NewCall(request, "answered here") /\ UNCHANGED <<log, pc, routed, mine>>
  /\ UNCHANGED <<handlers, resilient>>

Settle(c, fate) ==
  /\ calls' = [calls EXCEPT ![mine[c]].fate = fate]
  /\ routed' = [routed EXCEPT ![c] = None] /\ mine' = [mine EXCEPT ![c] = 0]
  /\ UNCHANGED <<handlers, resilient>>

\* The backend's response, with a result or an error.
Answered(c, ok) ==
  /\ pc[c] = "awaiting"
  /\ record_audit(outcome_record(routed[c].tool, ok), mine[c])
  /\ pc' = [pc EXCEPT ![c] = "idle"]
  /\ Settle(c, "answered")

\* An error that is answered but not recorded.
Failed_unrecorded(c) ==
  /\ pc[c] = "awaiting" /\ UNCHANGED log
  /\ IF resilient THEN pc' = [pc EXCEPT ![c] = "idle"] /\ Settle(c, "answered")
                  ELSE pc' = [pc EXCEPT ![c] = "ended"] /\ Settle(c, "lost")

\* The request fails: an error for the client if breakers are configured; otherwise the
\* error leaves serve and ends the connection, before the outcome is recorded.
Failed(c) ==
  /\ pc[c] = "awaiting"
  /\ IF resilient
     THEN /\ record_audit(outcome_record(routed[c].tool, FALSE), mine[c])
          /\ pc' = [pc EXCEPT ![c] = "idle"] /\ Settle(c, "answered")
     ELSE /\ UNCHANGED log
          /\ pc' = [pc EXCEPT ![c] = "ended"] /\ Settle(c, "lost")

AuditNext ==
  \E c \in Conns :
    \/ \E request \in Requests : route_call(c, request) \/ Pooled(c, request)
    \/ \E ok \in BOOLEAN : Answered(c, ok)
    \/ Failed(c)

AuditSpec == AuditInit /\ [][AuditNext]_auditVars

-------------------------------------------------------------------------------
\* Properties.

Records(type, n) == {i \in DOMAIN log : log[i].call = n /\ log[i].record.type = type}

\* Every variable stays in its range, and a connection that waits serves a call.
TypeOK ==
  /\ handlers \in Chains /\ resilient \in BOOLEAN
  /\ pc \in [Conns -> {"idle", "awaiting", "ended"}]
  /\ \A c \in Conns : pc[c] = "awaiting" <=> mine[c] \in DOMAIN calls
  /\ \A i \in DOMAIN calls : calls[i].fate \in {"blocked", "answered here", "awaiting",
                                                "answered", "lost"}
  /\ \A i \in DOMAIN log : log[i].call \in DOMAIN calls

\* The log verifies after any interleaving of the connections' appends, and no longer
\* does when an entry is taken out that is not the last, two change places, or one is
\* made to name another tool or signed with another secret.
Without(i) == SubSeq(log, 1, i - 1) \o SubSeq(log, i + 1, Len(log))
Swapped(i) == [log EXCEPT ![i] = log[i + 1], ![i + 1] = log[i]]
TamperEvident ==
  /\ verify(log)
  /\ \A i \in 1..(Len(log) - 1) :
       ~verify(Without(i)) /\ ~verify(Swapped(i))
  /\ \A i \in DOMAIN log : \A request \in Requests :
       LET other == [log[i].record EXCEPT !.name = request.tool]
       IN  /\ request.tool # log[i].record.name => ~verify([log EXCEPT ![i].record = other])
           /\ ~verify([log EXCEPT ![i].record = other, ![i].signature = sign(Forged, other),
                                  ![i].hash = chain(log[i].prev, other)])

\* A call has an attestation exactly if it was sent to a backend, and an outcome after
\* it exactly if that resolved; a call that failed without breakers, and with it its
\* connection, keeps an attestation that nothing pairs with.
RoutedCallsPaired ==
  \A n \in DOMAIN calls :
    LET attested == Records("attestation", n)
        outcomes == Records("outcome", n)
        fate == calls[n].fate
    IN  /\ Cardinality(attested) = (IF fate \in {"awaiting", "answered", "lost"} THEN 1 ELSE 0)
        /\ Cardinality(outcomes) = (IF fate \in {"blocked", "answered"} THEN 1 ELSE 0)
        /\ \A a \in attested, o \in outcomes : a < o /\ log[a].record.name = log[o].record.name
        /\ fate = "lost" => ~resilient

\* The request as it comes to each filter of a chain and, at the end, to the backend: those
\* that look at it change it one after the other.
Looks(handler, request) == interested(handler.interest, Context(request, "c2u"))
Stages(filters, request) ==
  LET stage[i \in 0..Len(filters)] ==
        IF i = 0 THEN request
        ELSE IF Looks(filters[i], request)
        THEN apply_one(Evaluate(filters[i], stage[i - 1]), stage[i - 1])
        ELSE stage[i - 1]
  IN  stage

\* What a backend is sent is the request with the arguments of the last rewriting filter
\* and the last note on every key, over the filters that looked at it; each of them
\* looked at what the ones before it had made of the request, and none of them objected.
ShapedByAll ==
  \A c \in Conns : pc[c] = "awaiting" =>
    LET request == calls[mine[c]].request
        looked == {i \in DOMAIN handlers : Looks(handlers[i], request)}
        verdict(i) == Evaluate(handlers[i], Stages(handlers, request)[i - 1])
        rewriters == {i \in looked : verdict(i).kind = "mutate"}
        noters(k) == {i \in looked : verdict(i).kind = "annotate"
                                      /\ verdict(i).provenance[k] # None}
        Last(S) == CHOOSE i \in S : \A j \in S : j <= i
    IN  /\ routed[c].arguments = IF rewriters = {} THEN request.arguments
                                 ELSE verdict(Last(rewriters)).arguments
        /\ \A k \in Keys : routed[c].meta[k] = IF noters(k) = {} THEN request.meta[k]
                                               ELSE verdict(Last(noters(k))).provenance[k]
        /\ routed[c] = Stages(handlers, request)[Len(handlers)]
        /\ \A i \in looked : ~Blocking(verdict(i))
===============================================================================
