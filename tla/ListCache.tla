------------------------------ MODULE ListCache -------------------------------
(***************************************************************************)
(* The list cache that yamp-serve shares between its client connections    *)
(* (cache.rs), the list fan-out that reads and fills it (collect in        *)
(* router.rs) and the reader tasks that invalidate it.  Every connection   *)
(* has its own connection to each backend and its own reader on it.        *)
(*                                                                         *)
(* A list is abstracted to the version of the backend's surface it shows.  *)
(* An entry keeps the time left until expires_at, so that time itself      *)
(* needs no bound.                                                         *)
(***************************************************************************)
EXTENDS Naturals, Sequences, Functions

CONSTANTS
  Conns,          \* client connections, each with a route loop
  Principal(_),   \* the principal a connection's router was given (set_cache)
  Backends, Lists,  \* backend ids and list methods: the cache's key
  DefaultTtl,     \* freshness of a result without ttlMs
  MaxTtl,         \* the longest ttlMs a backend sends
  MaxVersion      \* bound of the instance: changes of a backend's surface

ASSUME CacheAssumption ==
  /\ DefaultTtl \in Nat /\ MaxTtl \in Nat /\ MaxVersion \in Nat

VARIABLES
  entries,     \* key -> entry, a partial function
  version,     \* the version of each backend's surface
  seen,        \* history: newest version whose list_changed some reader processed
  pc,          \* "idle", "fetching" while collect awaits, "ended"
  asked,       \* the list method and whether it is a plain listing, per connection
  awaiting,    \* backends asked by the connection that have not answered
  got,         \* backend -> result of the current listing, a partial function
  fetched,     \* of those, the ones fetched rather than found in the cache
  overlapped,  \* history: backends with a fetch in flight at their last list_changed
  stream       \* what each backend has sent on each connection, in order

vars == <<entries, version, seen, overlapped, pc, asked, awaiting, got, fetched, stream>>

Keys == Backends \X Lists
Principals == {Principal(c) : c \in Conns}
NoTtl == MaxTtl + 1         \* ttlMs is absent

\* What a backend answers a list request with: a list, with its directives, or a
\* JSON-RPC error, which has neither; for is the principal that asked.
Results == [kind: {"list", "error"}, version: Nat, ttl: Nat,
            scope: {"public", "private"}, for: Principals, plain: BOOLEAN]
Longest == IF DefaultTtl > MaxTtl THEN DefaultTtl ELSE MaxTtl
Entries == [result: Results, left: 0..Longest, principal: Principals]

Messages == [kind: {"answer"}, result: Results] \cup [kind: {"changed"}, version: Nat]

Plain == [method: Lists, plain: BOOLEAN]

Without(f, S) == Restrict(f, DOMAIN f \ S)

Init ==
  /\ entries = [k \in {} |-> 0]
  /\ version = [b \in Backends |-> 0] /\ seen = [b \in Backends |-> 0]
  /\ overlapped = {}
  /\ pc = [c \in Conns |-> "idle"]
  /\ asked \in [Conns -> {a \in Plain : a.plain}]
  /\ awaiting = [c \in Conns |-> {}]
  /\ got = [c \in Conns |-> [b \in {} |-> 0]]
  /\ fetched = [c \in Conns |-> {}]
  /\ stream = [c \in Conns |-> [b \in Backends |-> <<>>]]

-------------------------------------------------------------------------------
\* The cache itself.

Expired(k) == k \in DOMAIN entries /\ entries[k].left = 0

\* A get that forgets whose a private entry is.
Serves_anyone(k, p) == k \in DOMAIN entries /\ ~Expired(k)

\* Whether get returns an entry: fresh, and public or this principal's own.
Serves(k, p) ==
  /\ k \in DOMAIN entries /\ ~Expired(k)
  /\ entries[k].result.scope = "private" => entries[k].principal = p

Ttl(r) == IF r.ttl = NoTtl THEN DefaultTtl ELSE r.ttl

Entry(r, p) == [result |-> r, left |-> Ttl(r), principal |-> p]

Invalidate(b) == Without(entries, {b} \X Lists)

-------------------------------------------------------------------------------
\* A listing on connection c (collect, up to its await and after it).

KeysOf(m) == {<<b, m>> : b \in Backends}

AfterLookup(a, hits) ==
  Without(entries, {k \in KeysOf(a.method) : Expired(k)})

\* Expired entries that are looked up are removed; hits are taken, misses asked for.
\* A listing with a filter, a cursor or a variant leaves the cache alone.
List(c) ==
  /\ pc[c] = "idle"
  /\ \E a \in Plain :
       LET hits == IF a.plain
                   THEN {b \in Backends : Serves(<<b, a.method>>, Principal(c))} ELSE {}
       IN
       /\ asked' = [asked EXCEPT ![c] = a]
       /\ entries' = IF a.plain THEN AfterLookup(a, hits) ELSE entries
       /\ got' = [got EXCEPT ![c] = [b \in hits |-> entries[<<b, a.method>>].result]]
       /\ awaiting' = [awaiting EXCEPT ![c] = Backends \ hits]
       /\ fetched' = [fetched EXCEPT ![c] = {}]
  /\ pc' = [pc EXCEPT ![c] = "fetching"]
  /\ UNCHANGED <<version, seen, overlapped, stream>>

KeyOf(c, b) == <<b, asked[c].method>>

\* What the puts of a listing do, each to a key of its own: a result that is stale
\* at once removes what was there, any other takes its place.
Fill(c) ==
  LET keys == {KeyOf(c, b) : b \in fetched[c]}
      kept == {k \in keys : Ttl(got[c][k[1]]) > 0}
  IN IF ~asked[c].plain THEN entries
     ELSE [k \in (DOMAIN entries \ keys) \cup kept |->
             IF k \in kept THEN Entry(got[c][k[1]], Principal(c)) ELSE entries[k]]

\* All answers are in (join_all): fill the cache and answer the client.
Answer(c) ==
  /\ pc[c] = "fetching" /\ awaiting[c] = {}
  /\ entries' = Fill(c)
  /\ pc' = [pc EXCEPT ![c] = "idle"]
  /\ got' = [got EXCEPT ![c] = [b \in {} |-> 0]]
  /\ fetched' = [fetched EXCEPT ![c] = {}]
  /\ UNCHANGED <<version, seen, overlapped, asked, awaiting, stream>>

\* A transport failure, without circuit breakers, ends the connection's router.
End(c) ==
  /\ pc[c] = "fetching" /\ awaiting[c] # {}
  /\ pc' = [pc EXCEPT ![c] = "ended"]
  /\ awaiting' = [awaiting EXCEPT ![c] = {}]
  /\ got' = [got EXCEPT ![c] = [b \in {} |-> 0]]
  /\ fetched' = [fetched EXCEPT ![c] = {}]
  /\ stream' = [stream EXCEPT ![c] = [b \in Backends |-> <<>>]]
  /\ UNCHANGED <<entries, version, seen, overlapped, asked>>

-------------------------------------------------------------------------------
\* The reader of connection c's backend b: messages in the order they were sent.

HasAnswer(c, b) == \E i \in 1..Len(stream[c][b]) : stream[c][b][i].kind = "answer"

InFlight(b) == \E c \in Conns : b \in awaiting[c] \cup fetched[c]

TakeChanged(c, b) ==
  /\ stream[c][b] # <<>> /\ Head(stream[c][b]).kind = "changed"
  /\ stream' = [stream EXCEPT ![c][b] = Tail(@)]
  /\ LET v == Head(stream[c][b]).version IN
       seen' = [seen EXCEPT ![b] = IF @ < v THEN v ELSE @]
  /\ overlapped' = IF InFlight(b) THEN overlapped \cup {b} ELSE overlapped \ {b}

\* A list_changed that is relayed to the client and not applied to the cache.
ReadChanged_relayOnly(c, b) ==
  /\ TakeChanged(c, b)
  /\ UNCHANGED <<entries, version, pc, asked, awaiting, got, fetched>>

\* list_changed drops the backend's entries before it is relayed.
ReadChanged(c, b) ==
  /\ TakeChanged(c, b)
  /\ entries' = Invalidate(b)
  /\ UNCHANGED <<version, pc, asked, awaiting, got, fetched>>

\* An answer goes to the listing that awaits it.
ReadAnswer(c, b) ==
  /\ stream[c][b] # <<>> /\ Head(stream[c][b]).kind = "answer"
  /\ got' = [got EXCEPT ![c] = [x \in DOMAIN @ \cup {b} |->
                                   IF x = b THEN Head(stream[c][b]).result ELSE @[x]]]
  /\ fetched' = [fetched EXCEPT ![c] = @ \cup {b}]
  /\ awaiting' = [awaiting EXCEPT ![c] = @ \ {b}]
  /\ stream' = [stream EXCEPT ![c][b] = Tail(@)]
  /\ UNCHANGED <<entries, version, seen, overlapped, pc, asked>>

-------------------------------------------------------------------------------
\* The backends and time.

BackendAnswers(c, b) ==
  /\ b \in awaiting[c] /\ ~HasAnswer(c, b)
  /\ \E kind \in {"list", "error"}, ttl \in {0, MaxTtl, NoTtl}, scope \in {"public", "private"} :
       /\ kind = "error" => ttl = NoTtl /\ scope = "public"
       /\ stream' = [stream EXCEPT ![c][b] = Append(@,
            [kind |-> "answer",
             result |-> [kind |-> kind, version |-> version[b], ttl |-> ttl, scope |-> scope,
                         for |-> Principal(c), plain |-> asked[c].plain]])]
  /\ UNCHANGED <<entries, version, seen, overlapped, pc, asked, awaiting, got, fetched>>

\* A backend's surface changes and it says so on all its connections.
SurfaceChanges(b) ==
  /\ version[b] < MaxVersion
  /\ version' = [version EXCEPT ![b] = @ + 1]
  /\ stream' = [c \in Conns |-> IF pc[c] = "ended" THEN stream[c]
                  ELSE [stream[c] EXCEPT ![b] =
                          Append(@, [kind |-> "changed", version |-> version[b] + 1])]]
  /\ UNCHANGED <<entries, seen, overlapped, pc, asked, awaiting, got, fetched>>

Tick ==
  /\ \E k \in DOMAIN entries : entries[k].left > 0
  /\ entries' = [k \in DOMAIN entries |->
                   [entries[k] EXCEPT !.left = IF @ = 0 THEN 0 ELSE @ - 1]]
  /\ UNCHANGED <<version, seen, overlapped, pc, asked, awaiting, got, fetched, stream>>

-------------------------------------------------------------------------------
Reader(c, b) == ReadChanged(c, b) \/ ReadAnswer(c, b)

Next ==
  \/ \E c \in Conns : List(c) \/ Answer(c) \/ End(c)
  \/ \E c \in Conns, b \in Backends : Reader(c, b) \/ BackendAnswers(c, b)
  \/ \E b \in Backends : SurfaceChanges(b)
  \/ Tick

Spec == Init /\ [][Next]_vars

FairSpec == Spec /\ WF_vars(Tick)

-------------------------------------------------------------------------------
\* Properties.

TypeOK ==
  /\ DOMAIN entries \subseteq Keys /\ \A k \in DOMAIN entries : entries[k] \in Entries
  /\ version \in [Backends -> Nat] /\ seen \in [Backends -> Nat]
  /\ overlapped \subseteq Backends
  /\ pc \in [Conns -> {"idle", "fetching", "ended"}] /\ asked \in [Conns -> Plain]
  /\ awaiting \in [Conns -> SUBSET Backends] /\ fetched \in [Conns -> SUBSET Backends]
  /\ \A c \in Conns : /\ DOMAIN got[c] \subseteq Backends
                      /\ \A b \in DOMAIN got[c] : got[c][b] \in Results
  /\ stream \in [Conns -> [Backends -> Seq(Messages)]]

\* "A shared gateway never leaks one user's private list to another" (cache.rs): what a
\* listing holds, fetched or found in the cache, is public or was asked for by a
\* connection of the same principal.
PrivateStays ==
  \A c \in Conns : \A b \in DOMAIN got[c] :
    got[c][b].scope = "private" => got[c][b].for = Principal(c)

\* "Only reuse the cache for the plain unfiltered default surface" (collect): a listing
\* narrowed by a filter, a cursor or a variant never becomes the surface of others.
PlainOnly == \A k \in DOMAIN entries : entries[k].result.plain

\* list_changed invalidates: an entry that shows an older surface than a list_changed
\* some reader has processed can only come from a fetch that was in flight then.
OlderThanSeen(k) == entries[k].result.version < seen[k[1]]
StaleOnlyByOverlap == \A k \in DOMAIN entries : OlderThanSeen(k) => k[1] \in overlapped

\* The time to live bounds every staleness: an entry that shows an old surface, however
\* it came to be, is not served for ever, even to clients that keep asking for it.
Stale(k) == k \in DOMAIN entries /\ ~Expired(k) /\ entries[k].result.version < version[k[1]]
StaleExpires == \A k \in Keys : Stale(k) ~> ~Stale(k)

\* "A backend's own list_changed invalidates its cached lists" (Backend::start, SEP 6.2):
\* no cached list is older than a list_changed that has been processed.
ListChangedInvalidates == \A k \in DOMAIN entries : ~OlderThanSeen(k)
===============================================================================
