----------------------------- MODULE ListCacheProofs -----------------------------
(***************************************************************************)
(* What holds of ListCache for every set of connections, principals,       *)
(* backends and list methods, and any number of surface changes.           *)
(***************************************************************************)
EXTENDS ListCache, TLAPS

-------------------------------------------------------------------------------
\* Sequences.
IsSeq(s) == \E S : s \in Seq(S)

LEMMA EmptyIsSeq == IsSeq(<<>>) /\ Len(<<>>) = 0
<1>1. <<>> \in Seq({})
  OBVIOUS
<1> QED BY <1>1 DEF IsSeq

LEMMA AppendFacts ==
  ASSUME NEW s, NEW e, IsSeq(s)
  PROVE  /\ IsSeq(Append(s, e)) /\ Len(s) \in Nat /\ Len(Append(s, e)) = Len(s) + 1
         /\ Append(s, e)[Len(s) + 1] = e
         /\ \A i \in 1..Len(s) : Append(s, e)[i] = s[i]
<1>1. PICK S : s \in Seq(S)
  BY DEF IsSeq
<1>2. s \in Seq(S \cup {e}) /\ e \in S \cup {e}
  BY <1>1
<1>3. Append(s, e) \in Seq(S \cup {e})
  BY <1>2
<1> QED BY <1>2, <1>3 DEF IsSeq

LEMMA TailFacts ==
  ASSUME NEW s, IsSeq(s), s # <<>>
  PROVE  /\ IsSeq(Tail(s)) /\ Len(Tail(s)) = Len(s) - 1 /\ Head(s) = s[1]
         /\ Len(s) \in Nat \ {0}
         /\ \A i \in 1..Len(Tail(s)) : Tail(s)[i] = s[i + 1]
<1>1. PICK S : s \in Seq(S)
  BY DEF IsSeq
<1>2. Tail(s) \in Seq(S)
  BY <1>1
<1> QED BY <1>1, <1>2 DEF IsSeq

-------------------------------------------------------------------------------
\* The invariant.

\* A result that a listing of connection c will put in the cache: asked for by the
\* connection's principal with the listing under way, and as new as every list_changed
\* that was processed with no fetch from the backend in flight.
Timely(r, b) == r.version < seen[b] => b \in overlapped
Due(r, c, b) == r.for = Principal(c) /\ r.plain = asked[c].plain /\ Timely(r, b)

Own(r, p) == r.scope = "private" => r.for = p

\* One answer at most is on its way, to a listing that waits for it, and what the
\* backend announced is a version it has had.
OnTheWay(c, b) ==
  \A i \in 1..Len(stream[c][b]) :
    LET m == stream[c][b][i]
    IN  /\ m.kind = "answer" =>
             /\ b \in awaiting[c] /\ Due(m.result, c, b)
             /\ \A j \in 1..Len(stream[c][b]) : stream[c][b][j].kind = "answer" => j = i
        /\ m.kind = "changed" => m.version \in 0..version[b]

Held(k) ==
  /\ entries[k] = [result |-> entries[k].result, left |-> entries[k].left,
                   principal |-> entries[k].principal]
  /\ Own(entries[k].result, entries[k].principal)
  /\ entries[k].result.plain /\ Timely(entries[k].result, k[1])

\* What holds of one connection.
ConnInv(c) ==
  /\ DOMAIN got[c] \subseteq Backends
  /\ pc[c] # "fetching" => awaiting[c] = {} /\ fetched[c] = {}
  /\ \A b \in DOMAIN got[c] : Own(got[c][b], Principal(c))
  /\ \A b \in fetched[c] : b \in DOMAIN got[c] /\ Due(got[c][b], c, b)
  /\ \A b \in Backends : IsSeq(stream[c][b]) /\ OnTheWay(c, b)

Shapes ==
  /\ pc \in [Conns -> {"idle", "fetching", "ended"}] /\ asked \in [Conns -> Plain]
  /\ awaiting \in [Conns -> SUBSET Backends] /\ fetched \in [Conns -> SUBSET Backends]
  /\ got = [c \in Conns |-> got[c]]
  /\ stream = [c \in Conns |-> stream[c]]
  /\ \A c \in Conns : stream[c] = [b \in Backends |-> stream[c][b]]
  /\ version \in [Backends -> Nat] /\ seen \in [Backends -> Nat]
  /\ DOMAIN entries \subseteq Keys

CacheInv ==
  /\ Shapes
  /\ \A b \in Backends : seen[b] <= version[b]
  /\ \A k \in DOMAIN entries : Held(k)
  /\ \A c \in Conns : ConnInv(c)

LEMMA CacheSuffices == CacheInv => PrivateStays /\ PlainOnly /\ StaleOnlyByOverlap
  BY DEF CacheInv, ConnInv, Held, Own, Timely, PrivateStays, PlainOnly, StaleOnlyByOverlap,
         OlderThanSeen

LEMMA CacheInit == Init => CacheInv
<1> SUFFICES ASSUME Init PROVE CacheInv
  OBVIOUS
<1>1. /\ Shapes /\ DOMAIN entries = {}
      /\ \A b \in Backends : seen[b] <= version[b]
  BY DEF Init, Shapes, Plain
<1>2. ASSUME NEW c \in Conns
      PROVE  ConnInv(c)
  <2>1. /\ got[c] = [b \in {} |-> 0] /\ awaiting[c] = {} /\ fetched[c] = {}
        /\ \A b \in Backends : stream[c][b] = <<>>
    BY DEF Init
  <2>2. DOMAIN got[c] = {}
    BY <2>1
  <2>3. \A b \in Backends : IsSeq(stream[c][b]) /\ Len(stream[c][b]) = 0
    BY <2>1, EmptyIsSeq
  <2>4. \A b \in Backends : OnTheWay(c, b)
    BY <2>3 DEF OnTheWay
  <2> QED BY <2>1, <2>2, <2>3, <2>4 DEF ConnInv
<1> QED BY <1>1, <1>2 DEF CacheInv

\* The messages on the way after a step, one by one.
LEMMA OnTheWayAfter ==
  ASSUME NEW c, NEW b, NEW s, s = stream'[c][b],
         \A i \in 1..Len(s) : \A m : m = s[i] =>
           /\ m.kind = "answer" =>
                /\ b \in awaiting'[c] /\ Due(m.result, c, b)'
                /\ \A j \in 1..Len(s) : s[j].kind = "answer" => j = i
           /\ m.kind = "changed" => m.version \in 0..version'[b]
  PROVE  OnTheWay(c, b)'
BY DEF OnTheWay, Due, Timely

\* A connection that a step leaves alone.
LEMMA LeftAlone ==
  ASSUME NEW c \in Conns, ConnInv(c), Shapes,
         pc'[c] = pc[c], asked'[c] = asked[c], awaiting'[c] = awaiting[c],
         fetched'[c] = fetched[c], got'[c] = got[c], stream'[c] = stream[c],
         \A b \in Backends : version'[b] >= version[b] /\ version'[b] \in Nat,
         \A b \in Backends : (b \in awaiting[c] \/ b \in fetched[c]) =>
           (seen'[b] = seen[b] /\ (b \in overlapped => b \in overlapped')) \/ b \in overlapped'
  PROVE  ConnInv(c)'
<1>1. \A r : \A b \in awaiting[c] \cup fetched[c] : Due(r, c, b) => Due(r, c, b)'
  BY DEF Due, Timely, Shapes
<1>2. ASSUME NEW b \in Backends
      PROVE  IsSeq(stream'[c][b]) /\ OnTheWay(c, b)'
  <2> SUFFICES OnTheWay(c, b)'
    BY DEF ConnInv
  <2> SUFFICES ASSUME NEW i \in 1..Len(stream[c][b]), NEW m, m = stream[c][b][i]
               PROVE  /\ m.kind = "answer" =>
                           /\ b \in awaiting[c] /\ Due(m.result, c, b)'
                           /\ \A j \in 1..Len(stream[c][b]) :
                                stream[c][b][j].kind = "answer" => j = i
                      /\ m.kind = "changed" => m.version \in 0..version'[b]
    BY DEF OnTheWay, Due, Timely
  <2>1. m.kind = "changed" => m.version \in 0..version'[b]
    BY DEF OnTheWay, ConnInv, Shapes
  <2> QED BY <1>1, <2>1 DEF OnTheWay, ConnInv
<1> QED BY <1>1, <1>2 DEF ConnInv

-------------------------------------------------------------------------------
\* The steps of a listing.

LEMMA OthersAlone ==
  ASSUME CacheInv, NEW c \in Conns,
         \A d \in Conns : d # c =>
           /\ pc'[d] = pc[d] /\ asked'[d] = asked[d] /\ awaiting'[d] = awaiting[d]
           /\ fetched'[d] = fetched[d] /\ got'[d] = got[d] /\ stream'[d] = stream[d],
         UNCHANGED <<version, seen, overlapped>>
  PROVE  \A d \in Conns : d # c => ConnInv(d)'
BY LeftAlone DEF CacheInv, Shapes

LEMMA ListStep ==
  ASSUME CacheInv, NEW c \in Conns, List(c)
  PROVE  CacheInv'
<1>1. PICK a \in Plain :
        LET hits == IF a.plain
                    THEN {b \in Backends : Serves(<<b, a.method>>, Principal(c))} ELSE {}
        IN
        /\ asked' = [asked EXCEPT ![c] = a]
        /\ entries' = IF a.plain THEN AfterLookup(a, hits) ELSE entries
        /\ got' = [got EXCEPT ![c] = [b \in hits |-> entries[<<b, a.method>>].result]]
        /\ awaiting' = [awaiting EXCEPT ![c] = Backends \ hits]
        /\ fetched' = [fetched EXCEPT ![c] = {}]
  BY DEF List
<1> DEFINE hits == IF a.plain
                   THEN {b \in Backends : Serves(<<b, a.method>>, Principal(c))} ELSE {}
<1>2. /\ pc[c] = "idle" /\ pc' = [pc EXCEPT ![c] = "fetching"]
      /\ UNCHANGED <<version, seen, overlapped, stream>>
  BY DEF List
<1>3. hits \subseteq Backends
  OBVIOUS
<1>4. ASSUME NEW b \in hits
      PROVE  Own(entries[<<b, a.method>>].result, Principal(c))
  <2>1. /\ <<b, a.method>> \in DOMAIN entries
        /\ entries[<<b, a.method>>].result.scope = "private"
             => entries[<<b, a.method>>].principal = Principal(c)
    BY <1>4 DEF Serves
  <2> QED BY <2>1 DEF CacheInv, Held, Own
<1> HIDE DEF hits
<1>5. /\ asked'[c] = a /\ awaiting'[c] = Backends \ hits /\ fetched'[c] = {}
      /\ got'[c] = [b \in hits |-> entries[<<b, a.method>>].result] /\ pc'[c] = "fetching"
      /\ stream'[c] = stream[c]
  BY <1>1, <1>2 DEF hits, CacheInv, Shapes
<1>6. /\ \A k \in DOMAIN entries' : k \in DOMAIN entries /\ entries'[k] = entries[k]
  <2>1. CASE ~a.plain
    BY <1>1, <2>1
  <2>2. CASE a.plain
    <3>1. entries' = Restrict(entries, DOMAIN entries \ {k \in KeysOf(a.method) : Expired(k)})
      BY <1>1, <2>2 DEF AfterLookup, Without
    <3> QED BY <3>1 DEF Restrict
  <2> QED BY <2>1, <2>2
<1>7. Shapes'
  BY <1>1, <1>2, <1>3, <1>6 DEF hits, CacheInv, Shapes
<1>8. \A b \in Backends : seen'[b] <= version'[b]
  BY <1>2 DEF CacheInv
<1>9. \A k \in DOMAIN entries' : Held(k)'
  BY <1>2, <1>6 DEF CacheInv, Held, Timely
<1>10. \A d \in Conns : d # c => ConnInv(d)'
  BY <1>1, <1>2, OthersAlone DEF CacheInv, Shapes
<1>11. ConnInv(c)'
  <2>1. ConnInv(c) /\ awaiting[c] = {}
    BY <1>2 DEF CacheInv, ConnInv
  <2>2. \A b \in Backends : IsSeq(stream'[c][b]) /\ OnTheWay(c, b)'
    BY <1>2, <1>5, <2>1 DEF ConnInv, OnTheWay
  <2>3. \A b \in DOMAIN got'[c] : Own(got'[c][b], Principal(c))
    BY <1>4, <1>5
  <2> QED BY <1>3, <1>5, <2>2, <2>3 DEF ConnInv
<1> QED BY <1>7, <1>8, <1>9, <1>10, <1>11 DEF CacheInv

LEMMA AnswerStep ==
  ASSUME CacheInv, NEW c \in Conns, Answer(c)
  PROVE  CacheInv'
<1>1. /\ entries' = Fill(c) /\ pc' = [pc EXCEPT ![c] = "idle"]
      /\ got' = [got EXCEPT ![c] = [b \in {} |-> 0]] /\ fetched' = [fetched EXCEPT ![c] = {}]
      /\ UNCHANGED <<version, seen, overlapped, asked, awaiting, stream>>
      /\ awaiting[c] = {}
  BY DEF Answer
<1>2. ASSUME NEW k \in DOMAIN entries'
      PROVE  k \in Keys /\ Held(k)'
  <2> DEFINE keys == {KeyOf(c, b) : b \in fetched[c]}
             kept == {x \in keys : Ttl(got[c][x[1]]) > 0}
  <2>1. CASE ~asked[c].plain
    BY <1>1, <2>1 DEF Fill, CacheInv, Held, Timely, Shapes
  <2>2. CASE asked[c].plain
    <3>1. entries' = [x \in (DOMAIN entries \ keys) \cup kept |->
                        IF x \in kept THEN Entry(got[c][x[1]], Principal(c)) ELSE entries[x]]
      BY <1>1, <2>2 DEF Fill
    <3>2. CASE k \in kept
      <4>1. PICK b \in fetched[c] : k = <<b, asked[c].method>>
        BY <3>2 DEF KeyOf
      <4>2. /\ entries'[k] = Entry(got[c][b], Principal(c)) /\ k[1] = b
        BY <3>1, <3>2, <4>1
      <4>3. /\ b \in DOMAIN got[c] /\ Due(got[c][b], c, b) /\ Own(got[c][b], Principal(c))
            /\ b \in Backends /\ asked[c].method \in Lists
        BY DEF CacheInv, ConnInv, Shapes, Plain
      <4>4. /\ entries'[k].result = got[c][b] /\ entries'[k].principal = Principal(c)
            /\ entries'[k] = [result |-> entries'[k].result, left |-> entries'[k].left,
                              principal |-> entries'[k].principal]
        BY <4>2 DEF Entry
      <4>5. Held(k)'
        BY <1>1, <2>2, <4>2, <4>3, <4>4 DEF Held, Due, Timely, Own
      <4> QED BY <4>1, <4>3, <4>5 DEF Keys
    <3>3. CASE k \notin kept
      <4>1. k \in DOMAIN entries /\ entries'[k] = entries[k]
        BY <3>1, <3>3
      <4> QED BY <1>1, <4>1 DEF CacheInv, Held, Timely, Shapes
    <3> QED BY <3>2, <3>3
  <2> QED BY <2>1, <2>2
<1>3. Shapes'
  BY <1>1, <1>2 DEF CacheInv, Shapes
<1>4. \A d \in Conns : d # c => ConnInv(d)'
  BY <1>1, OthersAlone DEF CacheInv, Shapes
<1>5. ConnInv(c)'
  <2>1. /\ got'[c] = [b \in {} |-> 0] /\ fetched'[c] = {} /\ awaiting'[c] = {}
        /\ stream'[c] = stream[c]
    BY <1>1 DEF CacheInv, Shapes
  <2>2. \A b \in Backends : IsSeq(stream'[c][b]) /\ OnTheWay(c, b)'
    BY <1>1, <2>1 DEF CacheInv, ConnInv, OnTheWay
  <2>3. DOMAIN got'[c] = {}
    BY <2>1
  <2> QED BY <2>1, <2>2, <2>3 DEF ConnInv
<1> QED BY <1>1, <1>2, <1>3, <1>4, <1>5 DEF CacheInv

LEMMA EndStep ==
  ASSUME CacheInv, NEW c \in Conns, End(c)
  PROVE  CacheInv'
<1>1. /\ pc' = [pc EXCEPT ![c] = "ended"] /\ awaiting' = [awaiting EXCEPT ![c] = {}]
      /\ got' = [got EXCEPT ![c] = [b \in {} |-> 0]] /\ fetched' = [fetched EXCEPT ![c] = {}]
      /\ stream' = [stream EXCEPT ![c] = [b \in Backends |-> <<>>]]
      /\ UNCHANGED <<entries, version, seen, overlapped, asked>>
  BY DEF End
<1>2. Shapes' /\ \A k \in DOMAIN entries' : Held(k)'
  BY <1>1 DEF CacheInv, Shapes, Held, Timely
<1>3. \A d \in Conns : d # c => ConnInv(d)'
  BY <1>1, OthersAlone DEF CacheInv, Shapes
<1>4. ConnInv(c)'
  <2>1. /\ got'[c] = [b \in {} |-> 0] /\ fetched'[c] = {} /\ awaiting'[c] = {}
        /\ \A b \in Backends : stream'[c][b] = <<>>
    BY <1>1 DEF CacheInv, Shapes
  <2>2. \A b \in Backends : IsSeq(stream'[c][b]) /\ Len(stream'[c][b]) = 0
    BY <2>1, EmptyIsSeq
  <2>3. \A b \in Backends : OnTheWay(c, b)'
    BY <2>2 DEF OnTheWay
  <2>4. DOMAIN got'[c] = {}
    BY <2>1
  <2> QED BY <2>1, <2>2, <2>3, <2>4 DEF ConnInv
<1> QED BY <1>1, <1>2, <1>3, <1>4 DEF CacheInv

-------------------------------------------------------------------------------
\* The steps of the readers, the backends and time.

\* Without a fetch of the backend in flight nothing that is due can be older than the
\* version now seen; with one the overlap is noted.
LEMMA ReadChangedStep ==
  ASSUME CacheInv, NEW c \in Conns, NEW b \in Backends, ReadChanged(c, b)
  PROVE  CacheInv'
<1> DEFINE v == Head(stream[c][b]).version
<1>1. /\ stream[c][b] # <<>> /\ Head(stream[c][b]).kind = "changed"
      /\ stream' = [stream EXCEPT ![c][b] = Tail(@)]
      /\ seen' = [seen EXCEPT ![b] = IF @ < v THEN v ELSE @]
      /\ overlapped' = IF InFlight(b) THEN overlapped \cup {b} ELSE overlapped \ {b}
      /\ entries' = Restrict(entries, DOMAIN entries \ ({b} \X Lists))
      /\ UNCHANGED <<version, pc, asked, awaiting, got, fetched>>
  BY DEF ReadChanged, TakeChanged, Invalidate, Without
<1>2. /\ IsSeq(Tail(stream[c][b])) /\ Len(Tail(stream[c][b])) = Len(stream[c][b]) - 1
      /\ Head(stream[c][b]) = stream[c][b][1] /\ Len(stream[c][b]) \in Nat \ {0}
      /\ \A i \in 1..Len(Tail(stream[c][b])) : Tail(stream[c][b])[i] = stream[c][b][i + 1]
  BY <1>1, TailFacts DEF CacheInv, ConnInv
<1>3. v \in 0..version[b]
  BY <1>1, <1>2 DEF CacheInv, ConnInv, OnTheWay
<1>4. /\ seen' \in [Backends -> Nat] /\ seen'[b] <= version'[b]
      /\ \A x \in Backends : x # b => seen'[x] = seen[x] /\ (x \in overlapped' <=> x \in overlapped)
  BY <1>1, <1>3 DEF CacheInv, Shapes
<1>5. ASSUME NEW k \in DOMAIN entries'
      PROVE  k \in Keys /\ Held(k)'
  <2>1. k \in DOMAIN entries /\ k \notin {b} \X Lists /\ entries'[k] = entries[k]
    BY <1>1 DEF Restrict
  <2>2. k \in Keys /\ k[1] \in Backends /\ k[1] # b
    BY <2>1 DEF CacheInv, Shapes, Keys
  <2> QED BY <1>4, <2>1, <2>2 DEF CacheInv, Held, Timely
<1>6. Shapes'
  BY <1>1, <1>4, <1>5 DEF CacheInv, Shapes
<1>7. ASSUME NEW d \in Conns, NEW x \in Backends, x \in awaiting[d] \/ x \in fetched[d]
      PROVE  (seen'[x] = seen[x] /\ (x \in overlapped => x \in overlapped')) \/ x \in overlapped'
  <2>1. CASE x # b
    BY <1>4, <2>1
  <2>2. CASE x = b
    BY <1>1, <1>7, <2>2 DEF InFlight
  <2> QED BY <2>1, <2>2
<1>8. \A d \in Conns : d # c => ConnInv(d)'
  <2> TAKE d \in Conns
  <2> HAVE d # c
  <2>1. stream'[d] = stream[d]
    BY <1>1 DEF CacheInv, Shapes
  <2>2. \A x \in Backends : (x \in awaiting[d] \/ x \in fetched[d]) =>
          (seen'[x] = seen[x] /\ (x \in overlapped => x \in overlapped')) \/ x \in overlapped'
    BY <1>7
  <2>3. \A x \in Backends : version'[x] >= version[x] /\ version'[x] \in Nat
    BY <1>1 DEF CacheInv, Shapes
  <2>4. ConnInv(d) /\ Shapes
    BY DEF CacheInv
  <2> QED BY <1>1, <2>1, <2>2, <2>3, <2>4, LeftAlone
<1>9. ConnInv(c)'
  <2>1. ASSUME NEW r, NEW x \in Backends, x \in awaiting[c] \/ x \in fetched[c], Due(r, c, x)
        PROVE  Due(r, c, x)'
    BY <1>1, <1>7, <2>1 DEF Due, Timely
  <2>2. ASSUME NEW x \in Backends
        PROVE  IsSeq(stream'[c][x]) /\ OnTheWay(c, x)'
    <3>1. CASE x # b
      <4>1. stream'[c][x] = stream[c][x]
        BY <1>1, <3>1 DEF CacheInv, Shapes
      <4>2. IsSeq(stream[c][x]) /\ OnTheWay(c, x)
        BY DEF CacheInv, ConnInv
      <4>3. ASSUME NEW i \in 1..Len(stream[c][x]), NEW m, m = stream[c][x][i], m.kind = "answer"
            PROVE  Due(m.result, c, x)'
        BY <2>1, <4>2, <4>3 DEF OnTheWay
      <4>4. OnTheWay(c, x)'
        <5>1. PICK s : s = stream[c][x]
          OBVIOUS
        <5>2. ASSUME NEW i \in 1..Len(s), NEW m, m = s[i]
              PROVE  /\ m.kind = "answer" =>
                          /\ x \in awaiting'[c] /\ Due(m.result, c, x)'
                          /\ \A j \in 1..Len(s) : s[j].kind = "answer" => j = i
                     /\ m.kind = "changed" => m.version \in 0..version'[x]
          BY <1>1, <4>2, <4>3, <5>1, <5>2 DEF OnTheWay
        <5> QED BY <4>1, <5>1, <5>2, OnTheWayAfter
      <4> QED BY <4>1, <4>2, <4>4
    <3>2. CASE x = b
      <4>1. stream'[c][x] = Tail(stream[c][b])
        BY <1>1, <3>2 DEF CacheInv, Shapes
      <4>2. OnTheWay(c, b)
        BY DEF CacheInv, ConnInv
      <4>3. ASSUME NEW i \in 1..Len(Tail(stream[c][b])), NEW m, m = Tail(stream[c][b])[i]
            PROVE  /\ m.kind = "answer" =>
                        /\ b \in awaiting[c] /\ Due(m.result, c, b)'
                        /\ \A j \in 1..Len(Tail(stream[c][b])) :
                             Tail(stream[c][b])[j].kind = "answer" => j = i
                   /\ m.kind = "changed" => m.version \in 0..version[b]
        <5>1. i + 1 \in 1..Len(stream[c][b]) /\ m = stream[c][b][i + 1]
          BY <1>2, <4>3
        <5>2. /\ m.kind = "answer" =>
                   /\ b \in awaiting[c] /\ Due(m.result, c, b)
                   /\ \A j \in 1..Len(stream[c][b]) : stream[c][b][j].kind = "answer" => j = i + 1
              /\ m.kind = "changed" => m.version \in 0..version[b]
          BY <4>2, <5>1 DEF OnTheWay
        <5>3. ASSUME m.kind = "answer", NEW j \in 1..Len(Tail(stream[c][b])),
                     Tail(stream[c][b])[j].kind = "answer"
              PROVE  j = i
          <6>1. j + 1 \in 1..Len(stream[c][b]) /\ stream[c][b][j + 1].kind = "answer"
            BY <1>2, <5>3
          <6> QED BY <5>2, <5>3, <6>1
        <5>4. m.kind = "answer" => Due(m.result, c, b)'
          BY <2>1, <5>2
        <5> QED BY <5>2, <5>3, <5>4
      <4>4. OnTheWay(c, b)'
        <5>1. PICK s : s = Tail(stream[c][b])
          OBVIOUS
        <5>2. s = stream'[c][b] /\ awaiting' = awaiting /\ version' = version
          BY <1>1, <3>2, <4>1, <5>1
        <5>3. \A i \in 1..Len(s) : \A m : m = s[i] =>
                /\ m.kind = "answer" =>
                     /\ b \in awaiting'[c] /\ Due(m.result, c, b)'
                     /\ \A j \in 1..Len(s) : s[j].kind = "answer" => j = i
                /\ m.kind = "changed" => m.version \in 0..version'[b]
          BY <4>3, <5>1, <5>2
        <5> QED BY <5>2, <5>3, OnTheWayAfter
      <4> QED BY <1>2, <3>2, <4>1, <4>4
    <3> QED BY <3>1, <3>2
  <2>3. ASSUME NEW x \in fetched[c], NEW r, r = got[c][x]
        PROVE  x \in DOMAIN got[c] /\ Due(r, c, x)'
    <3>1. x \in DOMAIN got[c] /\ x \in Backends /\ Due(r, c, x)
      BY <2>3 DEF CacheInv, ConnInv, Shapes
    <3> QED BY <2>1, <3>1
  <2> QED BY <1>1, <2>2, <2>3 DEF CacheInv, ConnInv, Due, Timely
<1> QED BY <1>1, <1>4, <1>5, <1>6, <1>8, <1>9 DEF CacheInv

LEMMA ReadAnswerStep ==
  ASSUME CacheInv, NEW c \in Conns, NEW b \in Backends, ReadAnswer(c, b)
  PROVE  CacheInv'
<1> DEFINE r == Head(stream[c][b]).result
<1>1. /\ stream[c][b] # <<>> /\ Head(stream[c][b]).kind = "answer"
      /\ got' = [got EXCEPT ![c] = [x \in DOMAIN @ \cup {b} |-> IF x = b THEN r ELSE @[x]]]
      /\ fetched' = [fetched EXCEPT ![c] = @ \cup {b}]
      /\ awaiting' = [awaiting EXCEPT ![c] = @ \ {b}]
      /\ stream' = [stream EXCEPT ![c][b] = Tail(@)]
      /\ UNCHANGED <<entries, version, seen, overlapped, pc, asked>>
  BY DEF ReadAnswer
<1>2. /\ IsSeq(Tail(stream[c][b])) /\ Len(Tail(stream[c][b])) = Len(stream[c][b]) - 1
      /\ Head(stream[c][b]) = stream[c][b][1] /\ Len(stream[c][b]) \in Nat \ {0}
      /\ \A i \in 1..Len(Tail(stream[c][b])) : Tail(stream[c][b])[i] = stream[c][b][i + 1]
  BY <1>1, TailFacts DEF CacheInv, ConnInv
<1>3. /\ b \in awaiting[c] /\ Due(r, c, b) /\ OnTheWay(c, b)
      /\ \A j \in 1..Len(stream[c][b]) : stream[c][b][j].kind = "answer" => j = 1
  BY <1>1, <1>2 DEF CacheInv, ConnInv, OnTheWay
<1>4. Shapes' /\ \A k \in DOMAIN entries' : Held(k)'
  BY <1>1 DEF CacheInv, Shapes, Held, Timely
<1>5. \A d \in Conns : d # c => ConnInv(d)'
  BY <1>1, OthersAlone DEF CacheInv, Shapes
<1>6. ConnInv(c)'
  <2>1. /\ got'[c] = [x \in DOMAIN got[c] \cup {b} |-> IF x = b THEN r ELSE got[c][x]]
        /\ fetched'[c] = fetched[c] \cup {b} /\ awaiting'[c] = awaiting[c] \ {b}
        /\ stream'[c][b] = Tail(stream[c][b]) /\ pc[c] = "fetching" /\ pc'[c] = pc[c]
        /\ \A x \in Backends : x # b => stream'[c][x] = stream[c][x]
    BY <1>1, <1>3 DEF CacheInv, Shapes, ConnInv
  <2>2. ASSUME NEW x \in Backends
        PROVE  IsSeq(stream'[c][x]) /\ OnTheWay(c, x)'
    <3>1. CASE x # b
      BY <1>1, <2>1, <3>1 DEF CacheInv, ConnInv, OnTheWay, Due, Timely
    <3>2. CASE x = b
      <4>1. ASSUME NEW i \in 1..Len(Tail(stream[c][b])), NEW m, m = Tail(stream[c][b])[i]
            PROVE  m.kind # "answer" /\ (m.kind = "changed" => m.version \in 0..version[b])
        <5>1. i + 1 \in 1..Len(stream[c][b]) /\ m = stream[c][b][i + 1] /\ i + 1 # 1
          BY <1>2, <4>1
        <5>2. m.kind = "changed" => m.version \in 0..version[b]
          BY <1>3, <5>1 DEF OnTheWay
        <5> QED BY <1>3, <5>1, <5>2
      <4>2. IsSeq(stream'[c][b]) /\ OnTheWay(c, b)'
        BY <1>1, <1>2, <2>1, <4>1 DEF OnTheWay
      <4> QED BY <3>2, <4>2
    <3> QED BY <3>1, <3>2
  <2>3. DOMAIN got'[c] = DOMAIN got[c] \cup {b}
    BY <2>1
  <2>4. Own(r, Principal(c))
    BY <1>3 DEF Due, Own
  <2>5. \A x \in DOMAIN got'[c] : Own(got'[c][x], Principal(c))
    BY <2>1, <2>3, <2>4 DEF CacheInv, ConnInv
  <2>6. \A x : \A y : Due(x, c, y) => Due(x, c, y)'
    BY <1>1 DEF Due, Timely
  <2>7. ASSUME NEW x \in fetched'[c], NEW y, y = got'[c][x]
        PROVE  x \in DOMAIN got'[c] /\ Due(y, c, x)'
    <3>1. CASE x = b
      <4>1. y = r /\ b \in DOMAIN got'[c]
        BY <2>1, <2>3, <2>7, <3>1
      <4> QED BY <1>3, <2>6, <3>1, <4>1
    <3>2. CASE x # b
      <4>1. x \in DOMAIN got[c] /\ Due(y, c, x)
        BY <2>1, <2>7, <3>2 DEF CacheInv, ConnInv
      <4> QED BY <2>3, <2>6, <4>1
    <3> QED BY <3>1, <3>2
  <2>8. DOMAIN got'[c] \subseteq Backends
    BY <2>3 DEF CacheInv, ConnInv
  <2> QED BY <2>1, <2>2, <2>5, <2>7, <2>8 DEF ConnInv, Due, Timely
<1> QED BY <1>1, <1>4, <1>5, <1>6 DEF CacheInv

\* A backend answers with the version it has, which is as new as any seen.
LEMMA BackendAnswersStep ==
  ASSUME CacheInv, NEW c \in Conns, NEW b \in Backends, BackendAnswers(c, b)
  PROVE  CacheInv'
<1>1. PICK r : /\ r.for = Principal(c) /\ r.plain = asked[c].plain /\ r.version = version[b]
               /\ stream' = [stream EXCEPT ![c][b] = Append(@, [kind |-> "answer", result |-> r])]
  <2>1. PICK kind, ttl, scope :
          stream' = [stream EXCEPT ![c][b] = Append(@,
            [kind |-> "answer",
             result |-> [kind |-> kind, version |-> version[b], ttl |-> ttl, scope |-> scope,
                         for |-> Principal(c), plain |-> asked[c].plain]])]
    BY DEF BackendAnswers
  <2> DEFINE r == [kind |-> kind, version |-> version[b], ttl |-> ttl, scope |-> scope,
                   for |-> Principal(c), plain |-> asked[c].plain]
  <2>2. r.for = Principal(c) /\ r.plain = asked[c].plain /\ r.version = version[b]
    OBVIOUS
  <2> QED BY <2>1, <2>2
<1>2. /\ b \in awaiting[c] /\ ~HasAnswer(c, b)
      /\ UNCHANGED <<entries, version, seen, overlapped, pc, asked, awaiting, got, fetched>>
  BY DEF BackendAnswers
<1> DEFINE s == stream[c][b]
           m == [kind |-> "answer", result |-> r]
<1>3. m.kind = "answer" /\ m.result = r
  OBVIOUS
<1>4. IsSeq(s) /\ OnTheWay(c, b)
  BY DEF CacheInv, ConnInv
<1>5. stream'[c][b] = Append(s, m) /\ \A x \in Backends : x # b => stream'[c][x] = stream[c][x]
  BY <1>1 DEF CacheInv, Shapes
<1> HIDE DEF m
<1>6. /\ IsSeq(Append(s, m)) /\ Len(s) \in Nat /\ Len(Append(s, m)) = Len(s) + 1
      /\ Append(s, m)[Len(s) + 1] = m
      /\ \A i \in 1..Len(s) : Append(s, m)[i] = s[i] /\ s[i].kind # "answer"
  BY <1>2, <1>4, AppendFacts DEF HasAnswer
<1>7. Shapes' /\ \A k \in DOMAIN entries' : Held(k)'
  BY <1>1, <1>2 DEF CacheInv, Shapes, Held, Timely
<1>8. \A d \in Conns : d # c => ConnInv(d)'
  BY <1>1, <1>2, OthersAlone DEF CacheInv, Shapes
<1>9. Due(r, c, b)
  BY <1>1 DEF Due, Timely, CacheInv, Shapes
<1>10. ConnInv(c)'
  <2>1. ASSUME NEW x \in Backends
        PROVE  IsSeq(stream'[c][x]) /\ OnTheWay(c, x)'
    <3>1. CASE x # b
      BY <1>2, <1>5, <3>1 DEF CacheInv, ConnInv, OnTheWay, Due, Timely
    <3>2. CASE x = b
      <4> DEFINE t == Append(s, m)
      <4>1. ASSUME NEW i \in 1..Len(t)
            PROVE  /\ t[i].kind = "answer" =>
                        /\ b \in awaiting[c] /\ Due(t[i].result, c, b)
                        /\ \A j \in 1..Len(t) : t[j].kind = "answer" => j = i
                   /\ t[i].kind = "changed" => t[i].version \in 0..version[b]
        <5>1. CASE i = Len(s) + 1
          <6>1. t[i] = m /\ \A j \in 1..Len(t) : j = i \/ j \in 1..Len(s)
            BY <1>6, <5>1
          <6> QED BY <1>2, <1>3, <1>6, <1>9, <6>1
        <5>2. CASE i \in 1..Len(s)
          <6>1. t[i] = s[i] /\ t[i].kind # "answer"
            BY <1>6, <5>2
          <6> QED BY <1>4, <5>2, <6>1 DEF OnTheWay
        <5> QED BY <1>6, <5>1, <5>2
      <4> HIDE DEF t
      <4>2. stream'[c][x] = t /\ IsSeq(t)
        BY <1>5, <1>6, <3>2 DEF t
      <4> QED BY <1>2, <3>2, <4>1, <4>2 DEF OnTheWay, Due, Timely
    <3> QED BY <3>1, <3>2
  <2> QED BY <1>2, <2>1 DEF CacheInv, ConnInv, Due, Timely
<1> QED BY <1>2, <1>7, <1>8, <1>10 DEF CacheInv

LEMMA SurfaceChangesStep ==
  ASSUME CacheInv, NEW b \in Backends, SurfaceChanges(b)
  PROVE  CacheInv'
<1> DEFINE m == [kind |-> "changed", version |-> version[b] + 1]
<1>1. /\ version' = [version EXCEPT ![b] = @ + 1]
      /\ stream' = [c \in Conns |-> IF pc[c] = "ended" THEN stream[c]
                      ELSE [stream[c] EXCEPT ![b] = Append(@, m)]]
      /\ UNCHANGED <<entries, seen, overlapped, pc, asked, awaiting, got, fetched>>
  BY DEF SurfaceChanges
<1>2. /\ version' \in [Backends -> Nat] /\ version'[b] = version[b] + 1
      /\ \A x \in Backends : x # b => version'[x] = version[x]
      /\ m.kind = "changed" /\ m.version \in 0..version'[b]
  BY <1>1 DEF CacheInv, Shapes
<1> HIDE DEF m
<1>3. Shapes' /\ (\A k \in DOMAIN entries' : Held(k)') /\ \A x \in Backends : seen'[x] <= version'[x]
  <2>1. ASSUME NEW c \in Conns
        PROVE  stream'[c] = [x \in Backends |-> stream'[c][x]]
    <3>1. stream[c] = [x \in Backends |-> stream[c][x]]
      BY DEF CacheInv, Shapes
    <3>2. stream'[c] = stream[c] \/ stream'[c] = [stream[c] EXCEPT ![b] = Append(@, m)]
      BY <1>1
    <3> QED BY <3>1, <3>2
  <2>2. stream' = [c \in Conns |-> stream'[c]]
    BY <1>1
  <2>3. Shapes'
    BY <1>1, <1>2, <2>1, <2>2 DEF CacheInv, Shapes
  <2>4. \A k \in DOMAIN entries' : Held(k)'
    BY <1>1 DEF CacheInv, Held, Timely
  <2>5. ASSUME NEW x \in Backends PROVE seen'[x] <= version'[x]
    BY <1>1, <1>2 DEF CacheInv, Shapes
  <2> QED BY <2>3, <2>4, <2>5
<1>4. ASSUME NEW c \in Conns
      PROVE  ConnInv(c)'
  <2>1. CASE pc[c] = "ended"
    <3>1. stream'[c] = stream[c]
      BY <1>1, <2>1
    <3>2. \A x \in Backends : version'[x] >= version[x] /\ version'[x] \in Nat
      BY <1>2 DEF CacheInv, Shapes
    <3> QED BY <1>1, <3>1, <3>2, LeftAlone DEF CacheInv
  <2>2. CASE pc[c] # "ended"
    <3> DEFINE s == stream[c][b]
               t == Append(s, m)
    <3>1. stream'[c][b] = t /\ \A x \in Backends : x # b => stream'[c][x] = stream[c][x]
      BY <1>1, <2>2 DEF CacheInv, Shapes
    <3>2. IsSeq(s) /\ OnTheWay(c, b)
      BY DEF CacheInv, ConnInv
    <3>3. /\ IsSeq(t) /\ Len(s) \in Nat /\ Len(t) = Len(s) + 1 /\ t[Len(s) + 1] = m
          /\ \A i \in 1..Len(s) : t[i] = s[i]
      BY <3>2, AppendFacts
    <3> HIDE DEF t
    <3>4. ASSUME NEW x \in Backends
          PROVE  IsSeq(stream'[c][x]) /\ OnTheWay(c, x)'
      <4>1. CASE x # b
        BY <1>1, <1>2, <3>1, <4>1 DEF CacheInv, ConnInv, OnTheWay, Due, Timely
      <4>2. CASE x = b
        <5>1. ASSUME NEW i \in 1..Len(t)
              PROVE  /\ t[i].kind = "answer" =>
                          /\ b \in awaiting[c] /\ Due(t[i].result, c, b)
                          /\ \A j \in 1..Len(t) : t[j].kind = "answer" => j = i
                     /\ t[i].kind = "changed" => t[i].version \in 0..version'[b]
          <6>1. CASE i = Len(s) + 1
            BY <1>2, <3>3, <6>1
          <6>2. CASE i \in 1..Len(s)
            <7>1. /\ s[i].kind = "answer" =>
                       /\ b \in awaiting[c] /\ Due(s[i].result, c, b)
                       /\ \A j \in 1..Len(s) : s[j].kind = "answer" => j = i
                  /\ s[i].kind = "changed" => s[i].version \in 0..version[b]
              BY <3>2, <6>2 DEF OnTheWay
            <7>2. \A j \in 1..Len(t) : t[j].kind = "answer" => j \in 1..Len(s) /\ s[j].kind = "answer"
              <8> TAKE j \in 1..Len(t)
              <8>1. j = Len(s) + 1 \/ j \in 1..Len(s)
                BY <3>3
              <8>2. j = Len(s) + 1 => t[j].kind # "answer"
                BY <1>2, <3>3
              <8> QED BY <3>3, <8>1, <8>2
            <7>3. s[i].kind = "changed" => s[i].version \in 0..version'[b]
              BY <1>2, <7>1 DEF CacheInv, Shapes
            <7>4. t[i] = s[i]
              BY <3>3, <6>2
            <7> QED BY <7>1, <7>2, <7>3, <7>4
          <6> QED BY <3>3, <6>1, <6>2
        <5>2. OnTheWay(c, b)'
          <6>1. \A r : Due(r, c, b) => Due(r, c, b)'
            BY <1>1 DEF Due, Timely
          <6>2. PICK u : u = t
            OBVIOUS
          <6>3. u = stream'[c][b] /\ awaiting' = awaiting
            BY <1>1, <3>1, <6>2
          <6>4. \A i \in 1..Len(u) : \A y : y = u[i] =>
                  /\ y.kind = "answer" =>
                       /\ b \in awaiting'[c] /\ Due(y.result, c, b)'
                       /\ \A j \in 1..Len(u) : u[j].kind = "answer" => j = i
                  /\ y.kind = "changed" => y.version \in 0..version'[b]
            BY <5>1, <6>1, <6>2, <6>3
          <6> QED BY <6>3, <6>4, OnTheWayAfter
        <5> QED BY <3>1, <3>3, <4>2, <5>2
      <4> QED BY <4>1, <4>2
    <3> QED BY <1>1, <3>4 DEF CacheInv, ConnInv, Due, Timely
  <2> QED BY <2>1, <2>2
<1> QED BY <1>3, <1>4 DEF CacheInv

LEMMA TickStep == ASSUME CacheInv, Tick PROVE CacheInv'
<1>1. /\ entries' = [k \in DOMAIN entries |->
                       [entries[k] EXCEPT !.left = IF @ = 0 THEN 0 ELSE @ - 1]]
      /\ UNCHANGED <<version, seen, overlapped, pc, asked, awaiting, got, fetched, stream>>
  BY DEF Tick
<1>2. DOMAIN entries' = DOMAIN entries
  BY <1>1
<1>3. ASSUME NEW k \in DOMAIN entries
      PROVE  /\ entries'[k].result = entries[k].result
             /\ entries'[k].principal = entries[k].principal
             /\ entries'[k] = [result |-> entries'[k].result, left |-> entries'[k].left,
                               principal |-> entries'[k].principal]
  BY <1>1 DEF CacheInv, Held
<1>4. \A k \in DOMAIN entries' : Held(k)'
  BY <1>1, <1>2, <1>3 DEF CacheInv, Held, Timely
<1>5. Shapes' /\ \A c \in Conns : ConnInv(c)'
  BY <1>1, <1>2 DEF CacheInv, Shapes, ConnInv, OnTheWay, Due, Timely
<1> QED BY <1>1, <1>4, <1>5 DEF CacheInv

LEMMA CacheNext == ASSUME CacheInv, [Next]_vars PROVE CacheInv'
<1>1. CASE UNCHANGED vars
  BY <1>1 DEF vars, CacheInv, Shapes, ConnInv, Held, OnTheWay, Due, Timely
<1>2. CASE Next
  BY <1>2, ListStep, AnswerStep, EndStep, ReadChangedStep, ReadAnswerStep, BackendAnswersStep,
     SurfaceChangesStep, TickStep DEF Next, Reader
<1> QED BY <1>1, <1>2

LEMMA CacheInvariant == Spec => []CacheInv
BY CacheInit, CacheNext, PTL DEF Spec

\* No listing, fetched or found in the cache, shows a principal what is private to another
\* (ListCache::get and put; collect).
THEOREM PrivateListsStay == Spec => []PrivateStays
BY CacheSuffices, CacheInvariant, PTL

\* A narrowed listing never becomes the surface of others: what is cached was fetched for
\* a plain one, also when the connection has asked for other listings since (collect).
THEOREM CachedListsArePlain == Spec => []PlainOnly
BY CacheSuffices, CacheInvariant, PTL

\* A cached list older than a processed list_changed comes from a fetch that was in flight
\* when it was processed (invalidate_backend in the reader of Backend::start; collect).
THEOREM StaleListsOverlapped == Spec => []StaleOnlyByOverlap
BY CacheSuffices, CacheInvariant, PTL
===============================================================================
