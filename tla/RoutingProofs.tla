------------------------------ MODULE RoutingProofs ------------------------------
(***************************************************************************)
(* What holds of Routing for every set of backends, handlers, tools and    *)
(* configurations that RoutingAssumption admits.                           *)
(***************************************************************************)
EXTENDS Routing, SequenceTheorems, FiniteSetTheorems, WellFoundedInduction, TLAPS

(***************************************************************************)
(* Labels: reverse resolution undoes labelling, for every name and every   *)
(* id that ends in no underscore.                                          *)
(***************************************************************************)

\* A sequence that is not empty has a length of its own.
LEMMA NonEmpty ==
  ASSUME NEW S, NEW s \in Seq(S), s # <<>>
  PROVE  Len(s) \in Nat /\ Len(s) > 0
  BY EmptySeq, LenProperties

LEMMA TwoOfAKind ==
  ASSUME NEW S, NEW u \in S
  PROVE  <<u, u>> \in Seq(S) /\ Len(<<u, u>>) = 2 /\ <<u, u>>[1] = u /\ <<u, u>>[2] = u
  OBVIOUS

\* The two underscores of the delimiter.
LEMMA DelimiterIs ==
  ASSUME NEW Alphabet, Underscore \in Alphabet
  PROVE  /\ Delimiter \in Seq(Alphabet) /\ Len(Delimiter) = 2
         /\ Delimiter[1] = Underscore /\ Delimiter[2] = Underscore
  BY TwoOfAKind DEF Delimiter

\* A label: the id, the delimiter, the name.
LEMMA LabelShape ==
  ASSUME NEW Alphabet, NEW id \in Seq(Alphabet), NEW name \in Seq(Alphabet), Underscore \in Alphabet
  PROVE  /\ Prefix(id, name) \in Seq(Alphabet)
         /\ Len(Prefix(id, name)) = Len(id) + 2 + Len(name)
         /\ \A i \in 1..Len(id) : Prefix(id, name)[i] = id[i]
         /\ Prefix(id, name)[Len(id) + 1] = Underscore /\ Prefix(id, name)[Len(id) + 2] = Underscore
<1> DEFINE d == Delimiter
           s == id \o d \o name
<1>1. d \in Seq(Alphabet) /\ Len(d) = 2 /\ d[1] = Underscore /\ d[2] = Underscore
  BY DelimiterIs
<1> HIDE DEF d
<1>2. d \in Seq(Alphabet) /\ 1 \in 1..Len(d) /\ 2 \in 1..Len(d)
  BY <1>1
<1>3. /\ s \in Seq(Alphabet) /\ Len(s) = Len(id) + Len(d) + Len(name)
      /\ \A i \in 1..Len(id) : s[i] = id[i]
      /\ s[Len(id) + 1] = d[1] /\ s[Len(id) + 2] = d[2]
  BY <1>2
<1> QED
  BY <1>1, <1>3 DEF d, Prefix

\* The first delimiter of a label is the one between the id and the name: the id has
\* none of its own and does not run into it.
LEMMA DelimiterOfLabel ==
  ASSUME NEW Alphabet, NEW id \in Seq(Alphabet), NEW name \in Seq(Alphabet), Underscore \in Alphabet,
         Resolvable(id)
  PROVE  /\ Delimited(Prefix(id, name))
         /\ FirstDelimiter(Prefix(id, name)) = Len(id) + 1
<1> DEFINE s == Prefix(id, name)
           n == Len(id)
<1>0. n \in Nat /\ n > 0 /\ Len(name) \in Nat
  BY NonEmpty, LenProperties DEF Resolvable, ValidId
<1>1. s \in Seq(Alphabet) /\ Len(s) = n + 2 + Len(name)
  BY LabelShape
<1>2. /\ \A i \in 1..n : s[i] = id[i]
      /\ s[n + 1] = Underscore /\ s[n + 2] = Underscore
  BY LabelShape
<1> HIDE DEF s, n
<1>3. DelimiterAt(s, n + 1)
  BY <1>0, <1>1, <1>2 DEF DelimiterAt
<1>4. ASSUME NEW j \in 1..Len(s), DelimiterAt(s, j) PROVE n + 1 <= j
  <2>1. SUFFICES ASSUME j <= n PROVE FALSE
    BY <1>0, <1>1
  <2>2. s[j] = Underscore /\ s[j + 1] = Underscore
    BY <1>4 DEF DelimiterAt
  <2>3. CASE j = n
    BY <1>0, <1>2, <2>2, <2>3 DEF Resolvable, EndsInUnderscore, n
  <2>4. CASE j < n
    <3>1. DelimiterAt(id, j)
      BY <1>0, <1>1, <1>2, <2>2, <2>4 DEF DelimiterAt, n
    <3> QED
      BY <1>0, <2>4, <3>1 DEF Resolvable, ValidId, Delimited, n
  <2> QED
    BY <1>0, <1>1, <2>1, <2>3, <2>4
<1>5. n + 1 \in 1..Len(s)
  BY <1>0, <1>1
<1>6. Delimited(s)
  BY <1>3, <1>5 DEF Delimited
<1>7. FirstDelimiter(s) = n + 1
  <2>1. \A j \in 1..Len(s) : DelimiterAt(s, j) => n + 1 <= j
    BY <1>4
  <2>2. \A i \in 1..Len(s) :
          DelimiterAt(s, i) /\ (\A j \in 1..Len(s) : DelimiterAt(s, j) => i <= j) => i = n + 1
    BY <1>0, <1>1, <1>3, <1>4, <1>5
  <2> QED
    BY <1>3, <1>5, <2>1, <2>2 DEF FirstDelimiter
<1> QED
  BY <1>6, <1>7 DEF s, n

\* "Original names containing the delimiter round-trip" (namespace.rs): a label
\* resolves to the backend it was made with and the name it was made of.
THEOREM LabelsResolve ==
  ASSUME NEW Alphabet, NEW id \in Seq(Alphabet), NEW name \in Seq(Alphabet), Underscore \in Alphabet,
         Resolvable(id), name # <<>>
  PROVE  Split(Prefix(id, name)) = <<id, name>>
<1> DEFINE s == Prefix(id, name)
           n == Len(id)
<1>1. /\ s \in Seq(Alphabet) /\ Len(s) = n + 2 + Len(name)
      /\ Delimited(s) /\ FirstDelimiter(s) = n + 1
  BY LabelShape, DelimiterOfLabel
<1>2. n \in Nat /\ n > 0 /\ Len(name) \in Nat /\ Len(name) > 0
  BY NonEmpty DEF Resolvable, ValidId
<1>3. SubSeq(s, 1, n) = id /\ SubSeq(s, n + 3, Len(s)) = name
  <2> DEFINE t == id \o Delimiter
  <2>0. Delimiter \in Seq(Alphabet) /\ Len(Delimiter) = 2
    BY DelimiterIs
  <2>1. t \in Seq(Alphabet) /\ Len(t) = n + 2
    <3>1. Delimiter \in Seq(Alphabet)
      BY <2>0
    <3>2. t \in Seq(Alphabet) /\ Len(t) = n + Len(Delimiter)
      BY <3>1
    <3> QED
      BY <2>0, <3>2
  <2>2. SubSeq(t, 1, n) = id
    <3>1. SubSeq(id \o Delimiter, 1, n) = SubSeq(id, 1, n)
      <4>1. 1 \in 1..Len(id) /\ n \in 1..Len(id)
        BY <1>2
      <4> QED
        BY <2>0, <4>1, SubSeqOfConcat1
    <3> QED
      BY <3>1, SubSeqFull
  <2> HIDE DEF t
  <2>3. SubSeq(t \o name, 1, n) = id
    <3>1. 1 \in 1..Len(t) /\ n \in 1..Len(t)
      BY <1>2, <2>1
    <3> QED
      BY <2>1, <2>2, <3>1, SubSeqOfConcat1
  <2>4. SubSeq(t \o name, n + 3, n + 2 + Len(name)) = name
    <3>1. /\ n + 3 \in Len(t) + 1..Len(t) + Len(name)
          /\ n + 2 + Len(name) \in Len(t) + 1..Len(t) + Len(name)
      BY <1>2, <2>1
    <3>2. SubSeq(t \o name, n + 3, n + 2 + Len(name))
            = SubSeq(name, n + 3 - Len(t), n + 2 + Len(name) - Len(t))
      BY <2>1, <3>1, SubSeqOfConcat2
    <3>3. n + 3 - Len(t) = 1 /\ n + 2 + Len(name) - Len(t) = Len(name)
      BY <1>2, <2>1
    <3> QED
      BY <3>2, <3>3, SubSeqFull
  <2> QED
    BY <1>1, <2>3, <2>4 DEF t, Prefix
<1> HIDE DEF s, n
<1>4. Split(s) = <<SubSeq(s, 1, n), SubSeq(s, n + 3, Len(s))>>
  <2> DEFINE k == FirstDelimiter(s)
  <2>1. k - 1 = n /\ k + 2 = n + 3 /\ ~(k = 1 \/ k + 1 = Len(s)) /\ Delimited(s)
    BY <1>1, <1>2
  <2>2. Split(s) = <<SubSeq(s, 1, k - 1), SubSeq(s, k + 2, Len(s))>>
    BY <2>1, Zenon DEF Split
  <2> QED
    BY <2>1, <2>2
<1> QED
  BY <1>3, <1>4 DEF s, n

\* A resource that is labelled resolves to its backend and its own URI.
THEOREM UrisResolve ==
  ASSUME NEW Segments, NEW id \in Segments, id # <<>>,
         NEW uri \in [opaque: {FALSE}, path: Seq(Segments)]
  PROVE  SplitUri(PrefixUri(id, uri)) = <<id, uri>>
<1> DEFINE p == <<id>> \o uri.path
<1>1. PrefixUri(id, uri) = [uri EXCEPT !.path = p] /\ ~uri.opaque
  BY DEF PrefixUri
<1>2. p \in Seq(Segments) /\ p # <<>> /\ Head(p) = id /\ Tail(p) = uri.path
  BY DEF p
<1> QED
  BY <1>1, <1>2 DEF SplitUri

(***************************************************************************)
(* Lists, calls and polls.                                                 *)
(***************************************************************************)

LEMMA HandlersAre ==
  /\ \A i \in DOMAIN Handlers : Handlers[i].id \in Names /\ Handlers[i].tools \in Seq(Names)
  /\ HandlerIds \subseteq Names
<1>1. Handlers \in Seq([id : Names, tools : Seq(Names)])
  BY RoutingAssumption
<1>2. \A S : Handlers \in Seq(S) => \A i \in DOMAIN Handlers : Handlers[i] \in S
  OBVIOUS
<1>3. \A i \in DOMAIN Handlers : Handlers[i] \in [id : Names, tools : Seq(Names)]
  BY <1>1, <1>2
<1>4. \A i \in DOMAIN Handlers : Handlers[i].id \in Names /\ Handlers[i].tools \in Seq(Names)
  BY <1>3
<1> QED
  BY <1>4 DEF HandlerIds

\* The cause of most leaves: the label of an id that ends in no underscore leads back to
\* where it was made, whatever the other ids are.
LEMMA HomeOfLabel ==
  ASSUME NEW b \in Ids \cup HandlerIds, NEW t \in Names, Resolvable(b)
  PROVE  /\ Split(Prefix(b, t)) = <<b, t>> /\ Split(Prefix(b, t)) # Unresolved
         /\ b \in Ids => Home(Prefix(b, t)) = <<b, t>>
         /\ b \in HandlerIds => IsLocal(Prefix(b, t))
<1>1. b \in Seq(Chars) /\ t \in Seq(Chars) /\ t # <<>> /\ Resolvable(b)
  BY RoutingAssumption, HandlersAre DEF Names, Ids, ToSet
<1>2. Underscore \in Chars
  BY RoutingAssumption
<1>3. Split(Prefix(b, t)) = <<b, t>>
  BY <1>1, <1>2, LabelsResolve
<1>4. <<b, t>> # Unresolved
  BY DEF Unresolved
<1> QED
  BY <1>3, <1>4 DEF Home, IsLocal

\* What resolves is a pair.
LEMMA SplitIsPair ==
  ASSUME NEW s, Split(s) # Unresolved
  PROVE  Split(s) = <<Split(s)[1], Split(s)[2]>>
<1> DEFINE x == SubSeq(s, 1, FirstDelimiter(s) - 1)
           y == SubSeq(s, FirstDelimiter(s) + 2, Len(s))
<1>1. Split(s) = <<x, y>>
  BY Zenon DEF Split
<1> HIDE DEF x, y
<1>2. <<x, y>>[1] = x /\ <<x, y>>[2] = y
  OBVIOUS
<1> QED
  BY <1>1, <1>2

(***************************************************************************)
(* Fetches                                                                 *)
(***************************************************************************)
\* Only backends are asked, and only those that were asked answer.
FetchInv ==
  /\ Fetching => DOMAIN job.got \subseteq DOMAIN job.params /\ DOMAIN job.params \subseteq Ids
  /\ job.op = "warm" => Strategy = "passthrough"

\* A step that leaves no fetch in hand, or the same one.
LEMMA FetchUnchanged ==
  ASSUME FetchInv, config' = config,
         job' = job \/ job'.op \notin {"list", "warm"} \/ (Fetching /\ \E quiet : job' = Ongoing(job.got, quiet))
  PROVE  FetchInv'
<1>1. CASE job' = job
  BY <1>1 DEF FetchInv, Fetching, Strategy
<1>2. CASE job'.op \notin {"list", "warm"}
  BY <1>2 DEF FetchInv, Fetching
<1>3. CASE Fetching /\ \E quiet : job' = Ongoing(job.got, quiet)
  BY <1>3 DEF FetchInv, Fetching, Strategy, Ongoing
<1> QED
  BY <1>1, <1>2, <1>3

LEMMA FetchInit == Init => FetchInv
BY DEF Init, FetchInv, Fetching, Idle

LEMMA ForwardStops ==
  ASSUME NEW op \in {"call", "task"}, NEW value, NEW to, Forward(op, value, to)
  PROVE  job'.op \notin {"list", "warm"}
BY DEF Forward, Idle

\* What is asked for is kept while the answers come in.
LEMMA AnswerKeeps ==
  ASSUME NEW b, AnswerList(b) \/ ErrorList(b) \/ FailList(b)
  PROVE  /\ Fetching /\ config' = config /\ reply' = reply /\ known' = known
         /\ b \in DOMAIN job.params /\ cursor' = cursor /\ chain' = chain
         /\ \E page, quiet : job' = Ongoing(Received(b, page), quiet)
BY DEF AnswerList, ErrorList, FailList, client

LEMMA FetchStep ==
  ASSUME FetchInv, [Next]_vars
  PROVE  FetchInv'
<1>1. CASE UNCHANGED vars
  BY <1>1, FetchUnchanged DEF vars
<1>2. ASSUME NEW v, NEW c, RequestList(v, c) PROVE FetchInv'
  BY <1>2 DEF RequestList, Fetch, FetchInv, Fetching, Asked
<1>3. ASSUME NEW v, NEW c, RefuseList(v, c) PROVE FetchInv'
  BY <1>3, FetchUnchanged DEF RefuseList
<1>4. ASSUME NEW b \in Ids, AnswerList(b) \/ ErrorList(b) \/ FailList(b) PROVE FetchInv'
  <2>1. PICK page, quiet : job' = Ongoing(Received(b, page), quiet)
    BY <1>4, AnswerKeeps
  <2>2. job'.op = job.op /\ job'.params = job.params /\ job'.got = Received(b, page)
    BY <2>1 DEF Ongoing
  <2>3. DOMAIN (Received(b, page)) = DOMAIN job.got \cup {b}
    BY DEF Received
  <2> QED
    BY <1>4, <2>2, <2>3, AnswerKeeps DEF FetchInv, Fetching, Strategy
<1>5. CASE Compose \/ RefuseClash \/ End \/ AnswerCall \/ AnswerPoll
  <2>1. config' = config /\ job' \in {Idle, Ended}
    BY <1>5 DEF Compose, RefuseClash, End, AnswerCall, AnswerPoll
  <2> QED
    BY <2>1, FetchUnchanged DEF Idle, Ended
<1>6. ASSUME NEW value, CallLocal(value) PROVE FetchInv'
  BY <1>6, FetchUnchanged DEF CallLocal
<1>7. ASSUME NEW value, RequestCall(value) PROVE FetchInv'
  <2>1. config' = config /\ \E to : Forward("call", value, to)
    BY <1>7 DEF RequestCall
  <2> QED
    BY <2>1, ForwardStops, FetchUnchanged
<1>8. ASSUME NEW value, WarmUp(value) PROVE FetchInv'
  BY <1>8 DEF WarmUp, Cold, Fetch, FetchInv, Fetching, Asked, Strategy
<1>9. CASE WarmedUp
  <2>1. config' = config /\ \E to : Forward("call", job.value, to)
    BY <1>9 DEF WarmedUp
  <2> QED
    BY <2>1, ForwardStops, FetchUnchanged
<1>10. ASSUME NEW t, AnswerTask(t) PROVE FetchInv'
  BY <1>10, FetchUnchanged DEF AnswerTask, Idle
<1>11. CASE FailForwarded
  BY <1>11, FetchUnchanged DEF FailForwarded, Idle, Ended
<1>12. CASE PollTask
  BY <1>12, ForwardStops, FetchUnchanged DEF PollTask
<1>13. ASSUME NEW b, NEW tools, Offer(b, tools) \/ Flap(b) PROVE FetchInv'
  <2>1. Disturb
    BY <1>13 DEF Offer, Flap
  <2> QED
    BY <2>1, FetchUnchanged DEF Disturb
<1> QED
  BY <1>1, <1>2, <1>3, <1>4, <1>5, <1>6, <1>7, <1>8, <1>9, <1>10, <1>11, <1>12, <1>13 DEF Next

LEMMA AnsweredAreIds ==
  ASSUME FetchInv, Fetched
  PROVE  Answered \subseteq Ids
BY DEF FetchInv, Fetched, Answered

(***************************************************************************)
(* Cursors stay with their backend and variant                             *)
(***************************************************************************)
Mine(c, b, variant) == c.of = b /\ c.variant = variant /\ c.pos \in Nat \ {0}
CursorInv ==
  /\ Composite(cursor) => \A b \in DOMAIN cursor.at : Mine(cursor.at[b], b, cursor.variant)
  /\ Fetching =>
       /\ \A b \in DOMAIN job.params :
            /\ job.params[b].variant = job.variant
            /\ Composite(job.params[b].cursor) => Mine(job.params[b].cursor, b, job.variant)
       /\ \A b \in DOMAIN job.got :
            job.got[b] # Failed /\ job.got[b].next # None => Mine(job.got[b].next, b, job.variant)

LEMMA CursorInit == Init => CursorInv
BY DEF Init, CursorInv, Fetching, Idle, Composite

LEMMA CursorUnchanged ==
  ASSUME CursorInv, cursor' = cursor,
         job' = job \/ job'.op \notin {"list", "warm"} \/ (Fetching /\ \E quiet : job' = Ongoing(job.got, quiet))
  PROVE  CursorInv'
<1>1. CASE job' = job
  BY <1>1 DEF CursorInv, Fetching, Composite, Mine
<1>2. CASE job'.op \notin {"list", "warm"}
  BY <1>2 DEF CursorInv, Fetching, Composite, Mine
<1>3. CASE Fetching /\ \E quiet : job' = Ongoing(job.got, quiet)
  BY <1>3 DEF CursorInv, Fetching, Ongoing, Composite, Mine
<1> QED
  BY <1>1, <1>2, <1>3

\* A fetch sends a composite cursor only to whom it names, and under its own variant.
LEMMA FetchSends ==
  ASSUME CursorInv, cursor' = cursor, NEW op, NEW v, NEW c \in {None, Raw, cursor}, NEW value,
         Composite(c) => c.variant = Effective(v), job' = Fetch(op, v, c, value)
  PROVE  CursorInv'
<1>1. /\ job'.variant = Effective(v) /\ job'.got = <<>>
      /\ job'.params = [b \in Asked(c) |-> ParamsFor(b, Effective(v), c)]
  BY DEF Fetch
<1>2. ASSUME NEW b \in Asked(c)
      PROVE  /\ ParamsFor(b, Effective(v), c).variant = Effective(v)
             /\ Composite(ParamsFor(b, Effective(v), c).cursor) =>
                  Mine(ParamsFor(b, Effective(v), c).cursor, b, Effective(v))
  <2>1. CASE Composite(c)
    <3>1. c = cursor /\ c.variant = Effective(v) /\ b \in DOMAIN c.at
      BY <2>1 DEF Composite, Asked
    <3> QED
      BY <2>1, <3>1 DEF CursorInv, ParamsFor
  <2>2. CASE ~Composite(c)
    BY <2>2 DEF ParamsFor
  <2> QED
    BY <2>1, <2>2
<1> QED
  BY <1>1, <1>2 DEF CursorInv, Composite, Mine

\* The cursor of a list binds the cursors of its pages to the variant they were asked for.
LEMMA BoundIsBound ==
  ASSUME CursorInv, Fetching, Composite(Bound)
  PROVE  \A b \in DOMAIN Bound.at : Mine(Bound.at[b], b, Bound.variant)
<1> DEFINE more == {b \in Answered : job.got[b].next # None}
<1>1. Bound = [variant |-> job.variant, at |-> [b \in more |-> job.got[b].next]]
  BY DEF Bound, Composite
<1>2. \A b \in more : Mine(job.got[b].next, b, job.variant)
  BY DEF CursorInv, Answered
<1> QED
  BY <1>1, <1>2

LEMMA CursorStep ==
  ASSUME CursorInv, FetchInv, [Next]_vars
  PROVE  CursorInv'
<1>1. CASE UNCHANGED vars
  BY <1>1, CursorUnchanged DEF vars, client
<1>2. ASSUME NEW v, NEW c \in {None, Raw, cursor}, RequestList(v, c) PROVE CursorInv'
  BY <1>2, FetchSends DEF RequestList, Refused, client
<1>3. ASSUME NEW v, NEW c, RefuseList(v, c) PROVE CursorInv'
  BY <1>3, CursorUnchanged DEF RefuseList, client
<1>4. ASSUME NEW b \in Ids, AnswerList(b) \/ ErrorList(b) \/ FailList(b) PROVE CursorInv'
  <2>1. PICK page, quiet :
          /\ job' = Ongoing(Received(b, page), quiet)
          /\ page # Failed /\ page.next # None => Mine(page.next, b, job.params[b].variant)
    <3>1. CASE AnswerList(b)
      <4> DEFINE c == job.params[b].cursor
                 from == IF Composite(c) THEN c.pos ELSE 1
                 next == [of |-> b, variant |-> job.params[b].variant, pos |-> from + PageSize - 1 + 1]
      <4>0. from \in Nat \ {0}
        BY <3>1 DEF AnswerList, CursorInv, Mine
      <4>1. Mine(next, b, job.params[b].variant)
        <5>1. PageSize \in Nat
          BY RoutingAssumption
        <5> HIDE DEF from
        <5> QED
          BY <4>0, <5>1 DEF Mine
      <4>2. Page(b, job.params[b]).next \in {None, next}
        BY DEF Page
      <4> QED
        BY <3>1, <4>1, <4>2 DEF AnswerList
    <3>2. CASE ErrorList(b)
      <4> DEFINE page == [tools |-> <<>>, next |-> None]
      <4>1. page.next = None /\ job' = Ongoing(Received(b, page), FALSE)
        BY <3>2 DEF ErrorList
      <4> HIDE DEF page
      <4> QED
        BY <4>1
    <3>3. CASE FailList(b)
      BY <3>3 DEF FailList
    <3> QED
      BY <1>4, <3>1, <3>2, <3>3
  <2>2. Fetching /\ b \in DOMAIN job.params /\ cursor' = cursor
    BY <1>4, AnswerKeeps
  <2>3. /\ job'.variant = job.variant /\ job'.params = job.params
        /\ job'.got = Received(b, page)
    BY <2>1 DEF Ongoing
  <2>4. \A x \in DOMAIN job'.got :
          job'.got[x] # Failed /\ job'.got[x].next # None => Mine(job'.got[x].next, x, job'.variant)
    BY <2>1, <2>2, <2>3 DEF CursorInv, Received
  <2> QED
    BY <2>2, <2>3, <2>4 DEF CursorInv, Composite, Mine
<1>5. CASE Compose
  <2>1. job' = Idle /\ cursor' \in {cursor, Bound} /\ Fetching
    BY <1>5 DEF Compose, Fetched
  <2>2. Composite(cursor') => \A b \in DOMAIN cursor'.at : Mine(cursor'.at[b], b, cursor'.variant)
    BY <2>1, BoundIsBound DEF CursorInv
  <2> QED
    BY <2>1, <2>2 DEF CursorInv, Fetching, Idle, Composite, Mine
<1>6. CASE RefuseClash \/ End \/ AnswerCall \/ AnswerPoll
  <2>1. cursor' = cursor /\ job' \in {Idle, Ended}
    BY <1>6 DEF RefuseClash, End, AnswerCall, AnswerPoll, client
  <2> QED
    BY <2>1, CursorUnchanged DEF Idle, Ended
<1>7. ASSUME NEW value, CallLocal(value) PROVE CursorInv'
  BY <1>7, CursorUnchanged DEF CallLocal, client
<1>8. ASSUME NEW value, RequestCall(value) PROVE CursorInv'
  <2>1. cursor' = cursor /\ \E to : Forward("call", value, to)
    BY <1>8 DEF RequestCall, client
  <2> QED
    BY <2>1, ForwardStops, CursorUnchanged
<1>9. ASSUME NEW value, WarmUp(value) PROVE CursorInv'
  BY <1>9, FetchSends DEF WarmUp, Composite, client
<1>10. CASE WarmedUp
  <2>1. cursor' = cursor /\ \E to : Forward("call", job.value, to)
    BY <1>10 DEF WarmedUp, client
  <2> QED
    BY <2>1, ForwardStops, CursorUnchanged
<1>11. ASSUME NEW t, AnswerTask(t) PROVE CursorInv'
  BY <1>11, CursorUnchanged DEF AnswerTask, Idle
<1>12. CASE FailForwarded
  BY <1>12, CursorUnchanged DEF FailForwarded, Idle, Ended, client
<1>13. CASE PollTask
  BY <1>13, ForwardStops, CursorUnchanged DEF PollTask, client
<1>14. ASSUME NEW b, NEW tools, Offer(b, tools) \/ Flap(b) PROVE CursorInv'
  <2>1. Disturb
    BY <1>14 DEF Offer, Flap
  <2> QED
    BY <2>1, CursorUnchanged DEF Disturb
<1> QED
  BY <1>1, <1>2, <1>3, <1>4, <1>5, <1>6, <1>7, <1>8, <1>9, <1>10, <1>11, <1>12, <1>13, <1>14
  DEF Next

(***************************************************************************)
(* Task handles lead home                                                  *)
(***************************************************************************)
TaskInv ==
  /\ running \in [Ids -> SUBSET TaskIds]
  /\ \A name \in DOMAIN reverse : reverse[name] \in Ids
  /\ Forwarded => job.to \in Ids
  /\ handle # None =>
       /\ handle = [id |-> handle.id, of |-> handle.of, task |-> handle.task]
       /\ handle.of \in Ids /\ handle.task \in TaskIds
       /\ Resolvable(handle.of) => handle.id = Prefix(handle.of, handle.task)
  /\ job.op = "task" => handle # None
  /\ TasksGoHome

LEMMA TaskInit == Init => TaskInv
BY DEF Init, TaskInv, TasksGoHome, Forwarded, Idle, NoReply

LEMMA TaskUnchanged ==
  ASSUME TaskInv, running' = running, reverse' = reverse, handle' = handle,
         job' = job \/ job'.op \notin {"call", "task"},
         reply' = reply \/ reply'.kind # "unknown"
  PROVE  TaskInv'
BY DEF TaskInv, TasksGoHome, Forwarded

\* A non-empty set of naturals has a least element.
LEMMA MinIsMember ==
  ASSUME NEW S, S \subseteq Nat, S # {}
  PROVE  Min(S) \in S
<1>1. PICK x \in S : \A y \in S : ~(<<y, x>> \in OpToRel(<, Nat))
  BY WFMin, NatLessThanWellFounded
<1>2. ASSUME NEW y \in S PROVE x <= y
  <2>1. x \in Nat /\ y \in Nat
    OBVIOUS
  <2>2. y < x => <<y, x>> \in OpToRel(<, Nat)
    BY <2>1, Zenon DEF OpToRel
  <2>3. ~(y < x)
    BY <1>1, <2>2, Zenon
  <2> QED
    BY <2>1, <2>3
<1>3. \E m \in S : \A y \in S : m <= y
  BY <1>2
<1> QED
  BY <1>3, Zenon DEF Min

LEMMA LearnTyped ==
  ASSUME TaskInv
  PROVE  \A name \in DOMAIN Learn : Learn[name] \in Ids
<1>1. ASSUME NEW name, Listers(name) # {} PROVE Backends[Min(Listers(name))] \in Ids
  <2>1. Listers(name) \subseteq Nat /\ Listers(name) \subseteq DOMAIN Backends
    BY RoutingAssumption DEF Listers
  <2>2. Min(Listers(name)) \in DOMAIN Backends
    BY <1>1, <2>1, MinIsMember
  <2> QED
    BY <2>2 DEF Ids, ToSet
<1> QED
  BY <1>1 DEF Learn, TaskInv

LEMMA HomeIsBackend ==
  ASSUME NEW label, Home(label) # Unresolved
  PROVE  Home(label)[1] \in Ids
BY DEF Home

\* Wherever a call is sent, it is to a backend.
LEMMA DestinationIsBackend ==
  ASSUME NEW value, NEW map, \A name \in DOMAIN map : map[name] \in Ids,
         NEW to \in Destinations(value, map), to # Unresolved
  PROVE  to[1] \in Ids
<1>1. CASE Single
  <2>1. to = <<Backends[1], value>>
    BY <1>1 DEF Destinations
  <2> QED
    BY <1>1, <2>1, RoutingAssumption DEF Single, Ids, ToSet
<1>2. CASE ~Single
  BY <1>2, HomeIsBackend DEF Destinations
<1> QED
  BY <1>1, <1>2

LEMMA CallKeepsTasks ==
  ASSUME TaskInv, running' = running, handle' = handle,
         \A name \in DOMAIN reverse' : reverse'[name] \in Ids,
         NEW value, NEW to \in Destinations(value, reverse'), Forward("call", value, to)
  PROVE  TaskInv'
<1>1. CASE to = Unresolved \/ ~Admits(to[1])
  BY <1>1 DEF Forward, TaskInv, TasksGoHome, Forwarded, Idle
<1>2. CASE to # Unresolved /\ Admits(to[1])
  <2>1. job'.op = "call" /\ job'.to \in Ids /\ reply' = NoReply
    BY <1>2, DestinationIsBackend DEF Forward
  <2> QED
    BY <2>1 DEF TaskInv, TasksGoHome, Forwarded, NoReply
<1> QED
  BY <1>1, <1>2

LEMMA TaskStep ==
  ASSUME TaskInv, [Next]_vars
  PROVE  TaskInv'
<1>1. CASE UNCHANGED vars
  BY <1>1, TaskUnchanged DEF vars, client, backends
<1>2. ASSUME NEW v, NEW c, RequestList(v, c) \/ RefuseList(v, c) PROVE TaskInv'
  BY <1>2, TaskUnchanged DEF RequestList, RefuseList, Fetch, NoReply, client, backends
<1>3. ASSUME NEW b, AnswerList(b) \/ ErrorList(b) \/ FailList(b) PROVE TaskInv'
  <2>1. job'.op \in {"list", "warm"} /\ reply' = reply
    BY <1>3, AnswerKeeps DEF Ongoing, Fetching
  <2>2. running' = running /\ reverse' = reverse /\ handle' = handle
    BY <1>3 DEF AnswerList, ErrorList, FailList, Weaken, client, backends
  <2> QED
    BY <2>1, <2>2, TaskUnchanged
<1>4. CASE Compose
  <2>1. /\ running' = running /\ handle' = handle /\ job' = Idle
        /\ reverse' = Learn /\ reply'.kind = "list"
    BY <1>4 DEF Compose, backends
  <2> QED
    BY <2>1, LearnTyped DEF TaskInv, TasksGoHome, Forwarded, Idle
<1>5. CASE RefuseClash \/ End
  BY <1>5, TaskUnchanged DEF RefuseClash, End, Idle, Ended, client, backends
<1>6. ASSUME NEW value, CallLocal(value) PROVE TaskInv'
  BY <1>6, TaskUnchanged DEF CallLocal, client, backends
<1>7. ASSUME NEW value, RequestCall(value) PROVE TaskInv'
  BY <1>7, CallKeepsTasks DEF RequestCall, TaskInv, client, backends
<1>8. ASSUME NEW value, WarmUp(value) PROVE TaskInv'
  BY <1>8, TaskUnchanged DEF WarmUp, Fetch, NoReply, client, backends
<1>9. CASE WarmedUp
  BY <1>9, CallKeepsTasks, LearnTyped DEF WarmedUp, client, backends
<1>10. CASE AnswerCall
  BY <1>10, TaskUnchanged DEF AnswerCall, Served, Idle, client, backends
<1>11. ASSUME NEW t \in TaskIds, AnswerTask(t) PROVE TaskInv'
  <2>1. /\ job' = Idle /\ reverse' = reverse /\ reply'.kind = "served"
        /\ running' = [running EXCEPT ![job.to] = @ \cup {t}]
        /\ handle' \in {handle, [id |-> Prefix(job.to, t), of |-> job.to, task |-> t]}
        /\ job.op = "call"
    BY <1>11 DEF AnswerTask, Served
  <2>2. job.to \in Ids /\ running \in [Ids -> SUBSET TaskIds]
    BY <2>1 DEF TaskInv, Forwarded
  <2>3. running' \in [Ids -> SUBSET TaskIds]
    BY <2>1, <2>2
  <2>4. handle' # None =>
          /\ handle' = [id |-> handle'.id, of |-> handle'.of, task |-> handle'.task]
          /\ handle'.of \in Ids /\ handle'.task \in TaskIds
          /\ Resolvable(handle'.of) => handle'.id = Prefix(handle'.of, handle'.task)
    <3>1. CASE handle' = handle
      BY <3>1 DEF TaskInv
    <3>2. CASE handle' = [id |-> Prefix(job.to, t), of |-> job.to, task |-> t]
      BY <2>2, <3>2
    <3> QED BY <2>1, <3>1, <3>2
  <2>5. TasksGoHome'
    BY <2>1 DEF TasksGoHome, Idle
  <2> QED
    BY <2>1, <2>3, <2>4, <2>5 DEF TaskInv, Forwarded, Idle
<1>12. CASE FailForwarded
  BY <1>12, TaskUnchanged DEF FailForwarded, Weaken, Idle, Ended, client
<1>13. CASE PollTask
  <2>1. /\ handle # None /\ Forward("task", handle.id, Home(handle.id))
        /\ running' = running /\ reverse' = reverse /\ handle' = handle
    BY <1>13 DEF PollTask, client, backends
  <2> DEFINE b == handle.of
             t == handle.task
             to == Home(handle.id)
  <2>2. b \in Ids /\ t \in Names /\ (Resolvable(b) => handle.id = Prefix(b, t))
    BY <2>1, RoutingAssumption DEF TaskInv
  <2>3. Resolvable(b) => to = <<b, t>> /\ <<b, t>> # Unresolved
    BY <2>2, HomeOfLabel DEF Unresolved
  <2> HIDE DEF to
  <2>4. to # Unresolved => to[1] \in Ids
    BY HomeIsBackend DEF to
  <2>5. Forward("task", handle.id, to)
    BY <2>1 DEF to
  <2>6. CASE to = Unresolved
    <3>1. job' = Idle /\ ~Resolvable(handle'.of)
      BY <2>1, <2>3, <2>5, <2>6 DEF Forward
    <3> QED
      BY <2>1, <3>1 DEF TaskInv, TasksGoHome, Forwarded, Idle
  <2>7. CASE to # Unresolved /\ ~Admits(to[1])
    BY <2>1, <2>5, <2>7, TaskUnchanged DEF Forward, Idle
  <2>8. CASE to # Unresolved /\ Admits(to[1])
    <3>1. job'.op = "task" /\ job'.to = to[1] /\ job'.original = to[2] /\ reply' = NoReply
      BY <2>5, <2>8 DEF Forward
    <3>2. Resolvable(handle.of) => to[1] = handle.of /\ to[2] = handle.task
      BY <2>3
    <3>3. TasksGoHome'
      BY <2>1, <3>1, <3>2 DEF TasksGoHome, NoReply
    <3> QED
      BY <2>1, <2>4, <2>8, <3>1, <3>3 DEF TaskInv, Forwarded
  <2> QED
    BY <2>6, <2>7, <2>8
<1>14. CASE AnswerPoll
  <2>1. /\ job' = Idle /\ reverse' = reverse /\ running' = running /\ reply'.kind = "served"
        /\ handle' = IF handle.id = job.value /\ job.original \in running[job.to]
                     THEN [handle EXCEPT !.id = Prefix(job.to, job.original)] ELSE handle
        /\ job.op = "task"
    BY <1>14 DEF AnswerPoll, Served, backends
  <2>2. TasksGoHome'
    BY <2>1 DEF TasksGoHome, Idle
  <2>3. handle' # None =>
          /\ handle' = [id |-> handle'.id, of |-> handle'.of, task |-> handle'.task]
          /\ handle'.of \in Ids /\ handle'.task \in TaskIds
          /\ Resolvable(handle'.of) => handle'.id = Prefix(handle'.of, handle'.task)
    <3>1. CASE handle' = handle
      BY <3>1 DEF TaskInv
    <3>2. CASE handle # None /\ handle' = [handle EXCEPT !.id = Prefix(job.to, job.original)]
      <4> DEFINE new == Prefix(job.to, job.original)
      <4>1. handle = [id |-> handle.id, of |-> handle.of, task |-> handle.task]
        BY <3>2 DEF TaskInv
      <4>2. handle' = [id |-> new, of |-> handle.of, task |-> handle.task]
        <5> HIDE DEF new
        <5>1. handle' = [handle EXCEPT !.id = new]
          BY <3>2 DEF new
        <5> QED BY <4>1, <5>1
      <4>3. Resolvable(handle.of) => new = Prefix(handle.of, handle.task)
        BY <2>1, <3>2 DEF TaskInv, TasksGoHome
      <4> HIDE DEF new
      <4> QED BY <3>2, <4>2, <4>3 DEF TaskInv
    <3>3. CASE handle = None
      BY <2>1, <3>3 DEF TaskInv
    <3> QED BY <2>1, <3>1, <3>2, <3>3
  <2> QED
    BY <2>1, <2>2, <2>3 DEF TaskInv, Forwarded, Idle
<1>15. ASSUME NEW b, NEW tools, Offer(b, tools) \/ Flap(b) PROVE TaskInv'
  <2>1. Disturb
    BY <1>15 DEF Offer, Flap
  <2>2. job' = job \/ job'.op \notin {"call", "task"}
    BY <2>1 DEF Disturb, Fetching, Ongoing
  <2> QED
    BY <2>1, <2>2, TaskUnchanged DEF Disturb
<1> QED
  BY <1>1, <1>2, <1>3, <1>4, <1>5, <1>6, <1>7, <1>8, <1>9, <1>10, <1>11, <1>12, <1>13, <1>14,
     <1>15 DEF Next

(***************************************************************************)
(* Sequences                                                               *)
(***************************************************************************)
\* A sequence of whatever elements.
IsSeq(s) == Len(s) \in Nat /\ s = [i \in 1..Len(s) |-> s[i]]

LEMMA IsSeqOf ==
  ASSUME NEW s, IsSeq(s)
  PROVE  s \in Seq({s[i] : i \in 1..Len(s)}) /\ DOMAIN s = 1..Len(s)
BY DEF IsSeq

LEMMA SeqIs ==
  ASSUME NEW S, NEW s \in Seq(S)
  PROVE  IsSeq(s)
BY DEF IsSeq

LEMMA MadeIs ==
  ASSUME NEW s, NEW n \in Nat, DOMAIN s = 1..n, s = [i \in 1..n |-> s[i]]
  PROVE  IsSeq(s) /\ Len(s) = n
<1>1. s \in Seq({s[i] : i \in 1..n})
  OBVIOUS
<1>2. Len(s) = n
  BY <1>1
<1> QED
  BY <1>1, <1>2, SeqIs

LEMMA ConcatIs ==
  ASSUME NEW s, NEW t, IsSeq(s), IsSeq(t)
  PROVE  /\ IsSeq(s \o t) /\ Len(s \o t) = Len(s) + Len(t)
         /\ \A i \in 1..Len(s) : (s \o t)[i] = s[i]
         /\ \A i \in 1..Len(t) : (s \o t)[Len(s) + i] = t[i]
<1> DEFINE S == {s[i] : i \in 1..Len(s)} \cup {t[i] : i \in 1..Len(t)}
<1>1. s \in Seq(S) /\ t \in Seq(S)
  BY DEF IsSeq
<1> HIDE DEF S
<1>2. /\ s \o t \in Seq(S) /\ Len(s \o t) = Len(s) + Len(t)
      /\ \A i \in 1..Len(s) : (s \o t)[i] = s[i]
      /\ \A i \in 1..Len(t) : (s \o t)[Len(s) + i] = t[i]
  BY <1>1
<1>3. IsSeq(s \o t)
  BY <1>2, SeqIs
<1> QED
  BY <1>2, <1>3

LEMMA AppendIs ==
  ASSUME NEW s, NEW x, IsSeq(s)
  PROVE  /\ IsSeq(Append(s, x)) /\ Len(Append(s, x)) = Len(s) + 1
         /\ \A i \in 1..Len(s) : Append(s, x)[i] = s[i]
         /\ Append(s, x)[Len(s) + 1] = x
<1> DEFINE S == {s[i] : i \in 1..Len(s)} \cup {x}
<1>1. s \in Seq(S) /\ x \in S
  BY DEF IsSeq
<1> HIDE DEF S
<1>2. /\ Append(s, x) \in Seq(S) /\ Len(Append(s, x)) = Len(s) + 1
      /\ \A i \in 1..Len(s) : Append(s, x)[i] = s[i]
      /\ Append(s, x)[Len(s) + 1] = x
  BY <1>1
<1>3. IsSeq(Append(s, x))
  BY <1>2, SeqIs
<1> QED
  BY <1>2, <1>3

\* Induction over a set of numbers.
LEMMA SetInduction ==
  ASSUME NEW N, 0 \in N, \A n \in Nat : n \in N => n + 1 \in N
  PROVE  Nat \subseteq N
<1> SUFFICES ASSUME Nat \ N # {} PROVE FALSE
  OBVIOUS
<1>1. PICK x \in Nat \ N : \A y \in Nat \ N : ~(<<y, x>> \in OpToRel(<, Nat))
  BY WFMin, NatLessThanWellFounded
<1>2. x # 0 /\ x - 1 \in Nat /\ x - 1 < x
  OBVIOUS
<1>3. <<x - 1, x>> \in OpToRel(<, Nat)
  BY <1>2, Zenon DEF OpToRel
<1>4. x - 1 \in N
  BY <1>1, <1>2, <1>3
<1>5. (x - 1) + 1 \in N
  BY <1>2, <1>4
<1> QED
  BY <1>2, <1>5

(***************************************************************************)
(* Flattening                                                              *)
(***************************************************************************)
\* The first n lists end to end, list by list.
Flattening(seqs, n, f) ==
  f = [i \in 1..n |-> IF i = 1 THEN seqs[i] ELSE f[i - 1] \o seqs[i]]

LEMMA FlatteningExists ==
  ASSUME NEW seqs, NEW n \in Nat
  PROVE  \E f : Flattening(seqs, n, f)
<1> DEFINE N == {k \in Nat : \E f : Flattening(seqs, k, f)}
<1>1. 0 \in N
  <2> DEFINE f == [i \in 1..0 |-> seqs]
  <2>1. Flattening(seqs, 0, f)
    BY DEF Flattening
  <2> QED BY <2>1
<1>2. ASSUME NEW k \in Nat, k \in N
      PROVE  k + 1 \in N
  <2>1. PICK f : Flattening(seqs, k, f)
    BY <1>2
  <2> DEFINE last == IF k = 0 THEN seqs[1] ELSE f[k] \o seqs[k + 1]
             g == [i \in 1..(k + 1) |-> IF i = k + 1 THEN last ELSE f[i]]
  <2>0. last = IF k = 0 THEN seqs[1] ELSE f[k] \o seqs[k + 1]
    OBVIOUS
  <2> HIDE DEF last
  <2>2. g[k + 1] = last /\ \A i \in 1..k : g[i] = f[i]
    OBVIOUS
  <2>3. ASSUME NEW i \in 1..(k + 1)
        PROVE  g[i] = IF i = 1 THEN seqs[i] ELSE g[i - 1] \o seqs[i]
    <3>1. CASE i = k + 1
      <4>1. k # 0 => g[i - 1] = f[k]
        BY <2>2, <3>1
      <4>2. g[i] = last
        BY <2>2, <3>1
      <4> QED BY <2>0, <3>1, <4>1, <4>2
    <3>2. CASE i \in 1..k
      <4>1. g[i] = f[i] /\ (i # 1 => g[i - 1] = f[i - 1])
        BY <2>2, <3>2
      <4>2. f[i] = IF i = 1 THEN seqs[i] ELSE f[i - 1] \o seqs[i]
        BY <2>1, <3>2 DEF Flattening
      <4> QED BY <4>1, <4>2
    <3> QED BY <3>1, <3>2
  <2>4. g = [i \in 1..(k + 1) |-> g[i]]
    OBVIOUS
  <2> HIDE DEF g
  <2>5. Flattening(seqs, k + 1, g)
    BY <2>3, <2>4 DEF Flattening
  <2> QED BY <2>5
<1> HIDE DEF N
<1>3. n \in N
  BY <1>1, <1>2, SetInduction
<1> QED
  BY <1>3 DEF N

\* Its elements are those of the lists, each once when no two of them are the same.
Distinct(seqs, n) ==
  \A i, j \in 1..n : \A k \in 1..Len(seqs[i]), l \in 1..Len(seqs[j]) :
    seqs[i][k] = seqs[j][l] => i = j /\ k = l
Flat(r, seqs, n) ==
  /\ IsSeq(r)
  /\ \A j \in 1..Len(r) : \E i \in 1..n : \E k \in 1..Len(seqs[i]) : r[j] = seqs[i][k]
  /\ \A i \in 1..n : \A k \in 1..Len(seqs[i]) : \E j \in 1..Len(r) : r[j] = seqs[i][k]
  /\ Distinct(seqs, n) => \A j, l \in 1..Len(r) : r[j] = r[l] => j = l

LEMMA FlatFirst ==
  ASSUME NEW seqs, IsSeq(seqs[1])
  PROVE  Flat(seqs[1], seqs, 1)
<1>1. \A i \in 1..1 : i = 1
  OBVIOUS
<1> QED
  BY <1>1 DEF Flat, Distinct

LEMMA FlatNext ==
  ASSUME NEW seqs, NEW n \in Nat \ {0}, NEW r, Flat(r, seqs, n), IsSeq(seqs[n + 1])
  PROVE  Flat(r \o seqs[n + 1], seqs, n + 1)
<1> DEFINE s == seqs[n + 1]
           q == r \o s
<1>1. IsSeq(r) /\ IsSeq(s) /\ Len(r) \in Nat /\ Len(s) \in Nat
  BY DEF Flat, IsSeq
<1>2. /\ IsSeq(q) /\ Len(q) = Len(r) + Len(s)
      /\ \A i \in 1..Len(r) : q[i] = r[i]
      /\ \A i \in 1..Len(s) : q[Len(r) + i] = s[i]
  BY <1>1, ConcatIs
<1> HIDE DEF q
<1>3. ASSUME NEW j \in 1..Len(q)
      PROVE  j \in 1..Len(r) \/ \E k \in 1..Len(s) : j = Len(r) + k
  <2>1. j > Len(r) => j - Len(r) \in 1..Len(s) /\ j = Len(r) + (j - Len(r))
    BY <1>1, <1>2
  <2> QED BY <1>1, <2>1
<1>4. ASSUME NEW j \in 1..Len(q)
      PROVE  \E i \in 1..(n + 1) : \E k \in 1..Len(seqs[i]) : q[j] = seqs[i][k]
  <2>1. CASE j \in 1..Len(r)
    <3>1. PICK i \in 1..n : \E k \in 1..Len(seqs[i]) : r[j] = seqs[i][k]
      BY <2>1 DEF Flat
    <3>2. i \in 1..(n + 1) /\ q[j] = r[j]
      BY <1>2, <2>1
    <3> QED BY <3>1, <3>2
  <2>2. CASE \E k \in 1..Len(s) : j = Len(r) + k
    <3>1. n + 1 \in 1..(n + 1)
      OBVIOUS
    <3> QED BY <1>2, <2>2, <3>1
  <2> QED BY <1>3, <2>1, <2>2
<1>5. ASSUME NEW i \in 1..(n + 1), NEW k \in 1..Len(seqs[i])
      PROVE  \E j \in 1..Len(q) : q[j] = seqs[i][k]
  <2>1. CASE i = n + 1
    <3>1. Len(r) + k \in 1..Len(q) /\ q[Len(r) + k] = s[k]
      BY <1>1, <1>2, <2>1
    <3> QED BY <2>1, <3>1
  <2>2. CASE i \in 1..n
    <3>1. PICK j \in 1..Len(r) : r[j] = seqs[i][k]
      BY <2>2 DEF Flat
    <3>2. j \in 1..Len(q) /\ q[j] = r[j]
      BY <1>1, <1>2
    <3> QED BY <3>1, <3>2
  <2> QED BY <2>1, <2>2
<1>6. ASSUME Distinct(seqs, n + 1), NEW j \in 1..Len(q), NEW l \in 1..Len(q), q[j] = q[l]
      PROVE  j = l
  <2>0. 1..n \subseteq 1..(n + 1) /\ n + 1 \in 1..(n + 1) /\ n + 1 \notin 1..n
    OBVIOUS
  <2>1. Distinct(seqs, n)
    BY <1>6, <2>0 DEF Distinct
  <2>2. ASSUME NEW x \in 1..Len(r), NEW y \in 1..Len(s) PROVE r[x] # s[y]
    <3>1. PICK i \in 1..n : \E k \in 1..Len(seqs[i]) : r[x] = seqs[i][k]
      BY DEF Flat
    <3> QED BY <1>6, <2>0, <3>1 DEF Distinct
  <2>3. CASE j \in 1..Len(r) /\ l \in 1..Len(r)
    BY <1>2, <1>6, <2>1, <2>3 DEF Flat
  <2>4. CASE j \in 1..Len(r) /\ \E k \in 1..Len(s) : l = Len(r) + k
    BY <1>2, <1>6, <2>2, <2>4
  <2>5. CASE l \in 1..Len(r) /\ \E k \in 1..Len(s) : j = Len(r) + k
    BY <1>2, <1>6, <2>2, <2>5
  <2>6. CASE (\E k \in 1..Len(s) : j = Len(r) + k) /\ (\E k \in 1..Len(s) : l = Len(r) + k)
    <3>1. PICK k \in 1..Len(s) : j = Len(r) + k
      BY <2>6
    <3>2. PICK m \in 1..Len(s) : l = Len(r) + m
      BY <2>6
    <3>3. s[k] = s[m]
      BY <1>2, <1>6, <3>1, <3>2
    <3>4. k = m
      BY <1>6, <2>0, <3>3 DEF Distinct
    <3> QED BY <3>1, <3>2, <3>4
  <2> QED BY <1>3, <2>3, <2>4, <2>5, <2>6
<1> HIDE DEF s
<1>7. Flat(q, seqs, n + 1)
  BY <1>2, <1>4, <1>5, <1>6 DEF Flat
<1> QED
  BY <1>7 DEF q, s

LEMMA FlattenIs ==
  ASSUME NEW seqs, IsSeq(seqs), \A i \in 1..Len(seqs) : IsSeq(seqs[i])
  PROVE  Flat(FlattenSeq(seqs), seqs, Len(seqs))
<1> DEFINE n == Len(seqs)
<1>0. n \in Nat
  BY DEF IsSeq
<1>1. CASE n = 0
  <2>1. FlattenSeq(seqs) = seqs
    BY <1>1 DEF FlattenSeq
  <2>2. 1..n = {}
    BY <1>1
  <2>3. Flat(seqs, seqs, n)
    BY <2>2 DEF Flat
  <2> QED BY <2>1, <2>3
<1>2. CASE n # 0
  <2> DEFINE f == CHOOSE f : Flattening(seqs, n, f)
  <2>1. Flattening(seqs, n, f)
    BY <1>0, FlatteningExists
  <2>2. FlattenSeq(seqs) = f[n]
    BY <1>2, Zenon DEF FlattenSeq, Flattening
  <2> HIDE DEF f
  <2>3. \A i \in 1..n : f[i] = IF i = 1 THEN seqs[i] ELSE f[i - 1] \o seqs[i]
    BY <2>1 DEF Flattening
  <2> DEFINE N == {k \in Nat : k + 1 <= n => Flat(f[k + 1], seqs, k + 1)}
  <2>4. 0 \in N
    <3>1. 1 \in 1..n
      BY <1>0, <1>2
    <3>2. f[1] = seqs[1] /\ IsSeq(seqs[1])
      BY <2>3, <3>1
    <3> QED BY <3>2, FlatFirst
  <2>5. ASSUME NEW k \in Nat, k \in N PROVE k + 1 \in N
    <3> SUFFICES ASSUME k + 1 + 1 <= n PROVE Flat(f[k + 1 + 1], seqs, k + 1 + 1)
      OBVIOUS
    <3>1. k + 1 \in Nat \ {0} /\ k + 1 + 1 \in 1..n /\ k + 1 <= n /\ k + 1 + 1 # 1 /\ k + 1 + 1 - 1 = k + 1
      BY <1>0
    <3>2. Flat(f[k + 1], seqs, k + 1) /\ IsSeq(seqs[k + 1 + 1])
      <4>1. k + 1 <= n => Flat(f[k + 1], seqs, k + 1)
        BY <2>5
      <4>2. IsSeq(seqs[k + 1 + 1])
        BY <3>1
      <4> QED BY <3>1, <4>1, <4>2, Zenon
    <3>3. \A i \in 1..n : i = k + 1 + 1 => f[i] = f[k + 1] \o seqs[i]
      <4> SUFFICES ASSUME NEW i \in 1..n, i = k + 1 + 1 PROVE f[i] = f[k + 1] \o seqs[i]
        OBVIOUS
      <4>1. i # 1 /\ i - 1 = k + 1
        OBVIOUS
      <4>2. f[i] = f[i - 1] \o seqs[i]
        BY <2>3, <4>1, Zenon
      <4> QED BY <4>1, <4>2, Zenon
    <3>4. f[k + 1 + 1] = f[k + 1] \o seqs[k + 1 + 1]
      BY <3>1, <3>3, Zenon
    <3> HIDE DEF N
    <3> QED BY <3>1, <3>2, <3>4, FlatNext
  <2>6. n - 1 \in N
    <3> HIDE DEF N
    <3>1. n - 1 \in Nat
      BY <1>0, <1>2
    <3> QED BY <2>4, <2>5, <3>1, SetInduction
  <2>7. n - 1 + 1 = n
    BY <1>0
  <2> QED BY <1>0, <2>2, <2>6, <2>7
<1> QED
  BY <1>1, <1>2

(***************************************************************************)
(* Thinning out by priority                                                *)
(***************************************************************************)
\* A set of numbers up to n has a greatest one.
LEMMA MaxIsMember ==
  ASSUME NEW n \in Nat, NEW S, S \subseteq 1..n, S # {}
  PROVE  Max(S) \in S
<1> DEFINE T == {n - x : x \in S}
<1>1. T \subseteq Nat /\ T # {}
  <2>1. \A x \in S : n - x \in Nat
    OBVIOUS
  <2>2. T \subseteq Nat
    BY <2>1
  <2>3. T # {}
    BY Zenon
  <2> QED BY <2>2, <2>3
<1>2. PICK m \in T : \A y \in T : ~(<<y, m>> \in OpToRel(<, Nat))
  BY <1>1, WFMin, NatLessThanWellFounded
<1>3. ASSUME NEW y \in T PROVE m <= y
  <2>1. m \in Nat /\ y \in Nat
    BY <1>1
  <2>2. y < m => <<y, m>> \in OpToRel(<, Nat)
    BY <2>1, Zenon DEF OpToRel
  <2>3. ~(y < m)
    BY <1>2, <2>2, Zenon
  <2> QED BY <2>1, <2>3
<1>4. PICK x \in S : m = n - x
  OBVIOUS
<1>5. ASSUME NEW y \in S PROVE x >= y
  <2>1. n - y \in T
    OBVIOUS
  <2>2. m <= n - y
    BY <1>3, <2>1
  <2>3. x \in 1..n /\ y \in 1..n
    OBVIOUS
  <2> QED BY <1>4, <2>2, <2>3
<1>6. \E z \in S : \A y \in S : z >= y
  BY <1>5
<1> QED
  BY <1>6, Zenon DEF Max

LEMMA RankIs ==
  ASSUME NEW S, NEW priority \in Seq(S), NEW name
  PROVE  Rank(name, priority) \in Int
<1> DEFINE P == Places(Split(name)[1], priority)
<1>1. Len(priority) \in Nat /\ P \subseteq 1..Len(priority)
  BY DEF Places
<1>2. P # {} => Max(P) \in 1..Len(priority)
  BY <1>1, MaxIsMember
<1> HIDE DEF P
<1>3. Rank(name, priority) = IF Split(name) = Unresolved \/ P = {} THEN Len(priority) ELSE Max(P) - 1
  BY Zenon DEF Rank, P
<1> QED
  BY <1>1, <1>2, <1>3

\* The loop after n items.
Thinning(items, priority, n, f) ==
  f = [k \in 0..n |-> IF k = 0 THEN <<>> ELSE Prefer(f[k - 1], items[k], priority)]

LEMMA ThinningExists ==
  ASSUME NEW items, NEW priority, NEW n \in Nat
  PROVE  \E f : Thinning(items, priority, n, f)
<1> DEFINE N == {k \in Nat : \E f : Thinning(items, priority, k, f)}
<1>1. 0 \in N
  <2> DEFINE f == [k \in 0..0 |-> <<>>]
  <2>1. Thinning(items, priority, 0, f)
    BY DEF Thinning
  <2> QED BY <2>1
<1>2. ASSUME NEW k \in Nat, k \in N
      PROVE  k + 1 \in N
  <2>1. PICK f : Thinning(items, priority, k, f)
    BY <1>2
  <2> DEFINE last == Prefer(f[k], items[k + 1], priority)
             g == [i \in 0..(k + 1) |-> IF i = k + 1 THEN last ELSE f[i]]
  <2>0. last = Prefer(f[k], items[k + 1], priority)
    OBVIOUS
  <2> HIDE DEF last
  <2>2. g[k + 1] = last /\ \A i \in 0..k : g[i] = f[i]
    OBVIOUS
  <2>3. ASSUME NEW i \in 0..(k + 1)
        PROVE  g[i] = IF i = 0 THEN <<>> ELSE Prefer(g[i - 1], items[i], priority)
    <3>1. CASE i = k + 1
      <4>1. g[i - 1] = f[k] /\ i # 0
        BY <2>2, <3>1
      <4>2. g[i] = last
        BY <2>2, <3>1
      <4> QED BY <2>0, <3>1, <4>1, <4>2
    <3>2. CASE i = 0
      BY <2>1, <2>2, <3>2 DEF Thinning
    <3>3. CASE i \in 1..k
      <4>1. g[i] = f[i] /\ g[i - 1] = f[i - 1] /\ i # 0 /\ i \in 0..k
        BY <2>2, <3>3
      <4>2. f[i] = Prefer(f[i - 1], items[i], priority)
        BY <2>1, <4>1 DEF Thinning
      <4> QED BY <4>1, <4>2
    <3> QED BY <3>1, <3>2, <3>3
  <2>4. g = [i \in 0..(k + 1) |-> g[i]]
    OBVIOUS
  <2> HIDE DEF g
  <2>5. Thinning(items, priority, k + 1, g)
    BY <2>3, <2>4 DEF Thinning
  <2> QED BY <2>5
<1> HIDE DEF N
<1>3. n \in N
  BY <1>1, <1>2, SetInduction
<1> QED
  BY <1>3 DEF N

\* What is kept of the first n items is of them, and of each there is a copy as good.
AsGood(kept, item, priority) ==
  /\ Original(kept.name) = Original(item.name)
  /\ Rank(kept.name, priority) <= Rank(item.name, priority)
Thinned(kept, items, priority, n) ==
  /\ IsSeq(kept)
  /\ \A i \in 1..Len(kept) : \E j \in 1..n : kept[i] = items[j]
  /\ \A j \in 1..n : \E i \in 1..Len(kept) : AsGood(kept[i], items[j], priority)

LEMMA PreferKeeps ==
  ASSUME NEW S, NEW priority \in Seq(S), NEW items, NEW n \in Nat,
         NEW kept, Thinned(kept, items, priority, n)
  PROVE  Thinned(Prefer(kept, items[n + 1], priority), items, priority, n + 1)
<1> DEFINE item == items[n + 1]
           same == {i \in DOMAIN kept : Original(kept[i].name) = Original(item.name)}
           Better(i) == i \in same /\ Rank(item.name, priority) < Rank(kept[i].name, priority)
           res == Prefer(kept, item, priority)
<1>0. \A name : Rank(name, priority) \in Int
  BY RankIs
<1>1. IsSeq(kept) /\ DOMAIN kept = 1..Len(kept) /\ Len(kept) \in Nat
  BY IsSeqOf DEF Thinned, IsSeq
<1>2. AsGood(item, item, priority)
  BY <1>0 DEF AsGood
<1>3. /\ \A j \in 1..(n + 1) : j \in 1..n \/ j = n + 1
      /\ 1..n \subseteq 1..(n + 1) /\ n + 1 \in 1..(n + 1)
  OBVIOUS
<1>4. CASE same = {}
  <2>1. res = Append(kept, item)
    BY <1>4, Zenon DEF Prefer
  <2>2. /\ IsSeq(res) /\ Len(res) = Len(kept) + 1
        /\ \A i \in 1..Len(kept) : res[i] = kept[i]
        /\ res[Len(kept) + 1] = item
    BY <1>1, <2>1, AppendIs
  <2> HIDE DEF res, item
  <2>3. /\ \A i \in 1..Len(res) : i \in 1..Len(kept) \/ i = Len(kept) + 1
        /\ 1..Len(kept) \subseteq 1..Len(res) /\ Len(kept) + 1 \in 1..Len(res)
    BY <1>1, <2>2
  <2>4. \A i \in 1..Len(res) : \E j \in 1..(n + 1) : res[i] = items[j]
    BY <1>3, <2>2, <2>3 DEF Thinned, item
  <2>5. \A j \in 1..(n + 1) : \E i \in 1..Len(res) : AsGood(res[i], items[j], priority)
    BY <1>2, <1>3, <2>2, <2>3 DEF Thinned, item
  <2>6. Thinned(res, items, priority, n + 1)
    BY <2>2, <2>4, <2>5 DEF Thinned
  <2> QED BY <2>6 DEF res, item
<1>5. CASE same # {}
  <2>1. res = [i \in DOMAIN kept |-> IF Better(i) THEN item ELSE kept[i]]
    BY <1>5, Zenon DEF Prefer
  <2> HIDE DEF res
  <2>2. DOMAIN res = 1..Len(kept) /\ res = [i \in 1..Len(kept) |-> res[i]]
    BY <1>1, <2>1
  <2>3. IsSeq(res) /\ Len(res) = Len(kept)
    BY <1>1, <2>2, MadeIs
  <2>4. \A i \in 1..Len(kept) : res[i] = IF Better(i) THEN item ELSE kept[i]
    BY <1>1, <2>1
  <2>5. \A i \in 1..Len(kept) : AsGood(res[i], kept[i], priority)
    <3> SUFFICES ASSUME NEW i \in 1..Len(kept) PROVE AsGood(res[i], kept[i], priority)
      OBVIOUS
    <3>1. CASE Better(i)
      <4>1. /\ Original(kept[i].name) = Original(item.name)
            /\ Rank(item.name, priority) < Rank(kept[i].name, priority) /\ res[i] = item
        BY <2>4, <3>1
      <4> QED BY <1>0, <4>1 DEF AsGood
    <3>2. CASE ~Better(i)
      <4>1. res[i] = kept[i]
        BY <2>4, <3>2
      <4> QED BY <1>0, <4>1 DEF AsGood
    <3> QED BY <3>1, <3>2
  <2>6. \E i \in 1..Len(kept) : AsGood(res[i], item, priority)
    <3>1. PICK i \in 1..Len(kept) : Original(kept[i].name) = Original(item.name)
      BY <1>1, <1>5
    <3>2. CASE Better(i)
      BY <1>2, <2>4, <3>2
    <3>3. CASE ~Better(i)
      <4>1. res[i] = kept[i]
        BY <2>4, <3>3
      <4>2. ~(Rank(item.name, priority) < Rank(kept[i].name, priority))
        BY <1>1, <3>1, <3>3
      <4>3. Rank(kept[i].name, priority) <= Rank(item.name, priority)
        BY <1>0, <4>2
      <4> QED BY <3>1, <4>1, <4>3 DEF AsGood
    <3> QED BY <3>2, <3>3
  <2>7. \A x, y, z : AsGood(x, y, priority) /\ AsGood(y, z, priority) => AsGood(x, z, priority)
    BY <1>0 DEF AsGood
  <2>8. \A i \in 1..Len(res) : res[i] = item \/ res[i] = kept[i]
    BY <2>3, <2>4
  <2> HIDE DEF item, Better, same
  <2>9. \A i \in 1..Len(res) : \E j \in 1..(n + 1) : res[i] = items[j]
    BY <1>3, <2>3, <2>8 DEF Thinned, item
  <2>10. ASSUME NEW j \in 1..(n + 1) PROVE \E i \in 1..Len(res) : AsGood(res[i], items[j], priority)
    <3>1. CASE j = n + 1
      BY <2>3, <2>6, <3>1 DEF item
    <3>2. CASE j \in 1..n
      <4>1. PICK i \in 1..Len(kept) : AsGood(kept[i], items[j], priority)
        BY <3>2 DEF Thinned
      <4> QED BY <2>3, <2>5, <2>7, <4>1
    <3> QED BY <1>3, <3>1, <3>2
  <2>11. Thinned(res, items, priority, n + 1)
    BY <2>3, <2>9, <2>10 DEF Thinned
  <2> QED BY <2>11 DEF res, item
<1> QED
  BY <1>4, <1>5

LEMMA PriorityThins ==
  ASSUME NEW S, NEW priority \in Seq(S), NEW items, IsSeq(items)
  PROVE  Thinned(ApplyPriority(items, priority), items, priority, Len(items))
<1> DEFINE n == Len(items)
           f == CHOOSE f : Thinning(items, priority, n, f)
<1>0. n \in Nat
  BY DEF IsSeq
<1>1. Thinning(items, priority, n, f)
  BY <1>0, ThinningExists
<1>2. ApplyPriority(items, priority) = f[n]
  BY Zenon DEF ApplyPriority, Thinning
<1> HIDE DEF f
<1>3. \A i \in 0..n : f[i] = IF i = 0 THEN <<>> ELSE Prefer(f[i - 1], items[i], priority)
  BY <1>1 DEF Thinning
<1> DEFINE N == {k \in Nat : k <= n => Thinned(f[k], items, priority, k)}
<1>4. 0 \in N
  <2>1. f[0] = <<>>
    BY <1>0, <1>3
  <2>2. 1..0 = {} /\ IsSeq(<<>>) /\ Len(<<>>) = 0
    BY DEF IsSeq
  <2>3. Thinned(<<>>, items, priority, 0)
    BY <2>2 DEF Thinned
  <2> QED BY <2>1, <2>3
<1>5. ASSUME NEW k \in Nat, k \in N PROVE k + 1 \in N
  <2> SUFFICES ASSUME k + 1 <= n PROVE Thinned(f[k + 1], items, priority, k + 1)
    OBVIOUS
  <2>1. Thinned(f[k], items, priority, k)
    BY <1>0, <1>5
  <2>2. \A i \in 0..n : i = k + 1 => f[i] = Prefer(f[k], items[i], priority)
    <3> SUFFICES ASSUME NEW i \in 0..n, i = k + 1 PROVE f[i] = Prefer(f[k], items[i], priority)
      OBVIOUS
    <3>1. i # 0 /\ i - 1 = k
      OBVIOUS
    <3>2. f[i] = Prefer(f[i - 1], items[i], priority)
      BY <1>3, <3>1, Zenon
    <3> QED BY <3>1, <3>2, Zenon
  <2>3. k + 1 \in 0..n
    BY <1>0
  <2>4. f[k + 1] = Prefer(f[k], items[k + 1], priority)
    BY <2>2, <2>3, Zenon
  <2> HIDE DEF N, n
  <2> QED BY <2>1, <2>4, PreferKeeps
<1>6. n \in N
  <2> HIDE DEF N
  <2> QED BY <1>0, <1>4, <1>5, SetInduction
<1> QED
  BY <1>0, <1>2, <1>6

(***************************************************************************)
(* Pages of an undisturbed listing                                         *)
(***************************************************************************)
\* Ids are different (keys of the configuration), no backend lists a tool twice, and
\* cursors are neither absent nor unknown ones.
Tidy ==
  /\ \A i, j \in 1..Len(Backends) : Backends[i] = Backends[j] => i = j
  /\ \A s \in Surfaces : \A i, j \in 1..Len(s) : s[i] = s[j] => i = j
  /\ \A v, at : [variant |-> v, at |-> at] \notin {None, Raw}
  /\ \A b, v, n : [of |-> b, variant |-> v, pos |-> n] \notin {None, Raw}

\* Where a page begins, what is on it, and where the next one does.
Start(c) == IF Composite(c) THEN c.pos ELSE 1
PageAt(s, b, params) ==
  LET to == Start(params.cursor) + PageSize - 1 IN
  [tools |-> SubSeq(s, Start(params.cursor), IF to < Len(s) THEN to ELSE Len(s)),
   next |-> IF to < Len(s) THEN [of |-> b, variant |-> params.variant, pos |-> to + 1] ELSE None]

LEMMA PageIsAt ==
  ASSUME NEW b, NEW params
  PROVE  Page(b, params) = PageAt(surface[b], b, params)
BY Zenon DEF Page, PageAt, Start

\* The n-th tool is the first that the page does not show.
PageShows(p, s, m, n) ==
  /\ n \in 1..(Len(s) + 1) /\ m <= n
  /\ IsSeq(p.tools) /\ Len(p.tools) = n - m
  /\ \A k \in 1..(n - m) : p.tools[k] = s[m + k - 1]
  /\ IF p.next = None THEN n = Len(s) + 1
     ELSE Composite(p.next) /\ p.next.pos = n /\ n \in 1..Len(s)

LEMMA PageIs ==
  ASSUME Tidy, NEW S, NEW s \in Seq(S), NEW b, NEW params,
         Start(params.cursor) \in 1..Len(s) \/ Start(params.cursor) = 1
  PROVE  \E n : PageShows(PageAt(s, b, params), s, Start(params.cursor), n)
<1> DEFINE m == Start(params.cursor)
           to == m + PageSize - 1
           last == IF to < Len(s) THEN to ELSE Len(s)
           p == PageAt(s, b, params)
           n == last + 1
<1>1. PageSize \in Nat /\ PageSize > 0 /\ Len(s) \in Nat /\ m \in Nat /\ m > 0 /\ m <= Len(s) + 1
  <2>1. PageSize \in Nat \ {0}
    BY RoutingAssumption
  <2> QED BY <2>1
<1>2. /\ p.tools = SubSeq(s, m, last)
      /\ p.next = IF to < Len(s) THEN [of |-> b, variant |-> params.variant, pos |-> to + 1] ELSE None
  BY DEF PageAt
<1> HIDE DEF p, m
<1>3. last \in 0..Len(s) /\ m <= last + 1 /\ n \in 1..(Len(s) + 1)
  BY <1>1
<1>4. p.next = IF to < Len(s) THEN [of |-> b, variant |-> params.variant, pos |-> n] ELSE None
  BY <1>2
<1>5. to < Len(s) => n \in 1..Len(s)
  BY <1>1
<1>6. ~(to < Len(s)) => n = Len(s) + 1
  BY <1>1
<1>7. to \in Int
  BY <1>1
<1> HIDE DEF last, to
<1>8. \A c : Composite(c) <=> c # None /\ c # Raw
  BY DEF Composite
<1>9. \A v, x, y : LET c == [of |-> x, variant |-> v, pos |-> y] IN c # None /\ Composite(c) /\ c.pos = y
  BY <1>8 DEF Tidy
<1>10. IF p.next = None THEN n = Len(s) + 1
       ELSE Composite(p.next) /\ p.next.pos = n /\ n \in 1..Len(s)
  <2>1. CASE to < Len(s)
    BY <1>4, <1>5, <1>9, <2>1
  <2>2. CASE ~(to < Len(s))
    BY <1>4, <1>6, <2>2
  <2> QED BY <2>1, <2>2
<1>11. /\ p.tools \in Seq(S) /\ Len(p.tools) = n - m
       /\ \A k \in 1..(n - m) : p.tools[k] = s[m + k - 1]
  <2>1. m \in 1..Len(s) + 1 /\ last \in m - 1..Len(s)
    BY <1>1, <1>3
  <2>2. /\ SubSeq(s, m, last) \in Seq(S) /\ Len(SubSeq(s, m, last)) = last - m + 1
        /\ \A k \in 1..(last - m + 1) : SubSeq(s, m, last)[k] = s[m + k - 1]
    BY <2>1, SubSeqProperties
  <2>3. last - m + 1 = n - m
    BY <1>1, <1>3
  <2> QED BY <1>2, <2>2, <2>3
<1>12. PageShows(p, s, m, n)
  BY <1>1, <1>3, <1>10, <1>11, SeqIs DEF PageShows
<1> QED
  BY <1>12 DEF p, m

\* Where the next page of a listing begins, past the end when it has none.
Upto(c, b, s) == IF Composite(c) /\ b \in DOMAIN c.at THEN c.at[b].pos ELSE Len(s) + 1

\* Of the tools of b from the m-th to before the n-th there is one item each, and of its
\* others none.
Once(items, b, s, m, n) ==
  /\ \A k \in 1..Len(s) : m <= k /\ k < n =>
       \E i \in 1..Len(items) : items[i].from = b /\ items[i].original = s[k]
  /\ \A i \in 1..Len(items) : items[i].from = b =>
       \E k \in 1..Len(s) : m <= k /\ k < n /\ items[i].original = s[k]
  /\ \A i, j \in 1..Len(items) :
       items[i].from = b /\ items[j].from = b /\ items[i].original = items[j].original => i = j

\* Of each of those tools there is a copy of its rank or a better one.
AtBest(items, b, s, m, n, priority) ==
  \A k \in 1..Len(s) : m <= k /\ k < n =>
    \E i \in 1..Len(items) :
      items[i].original = s[k] /\ Rank(items[i].name, priority) <= Rank(Prefix(b, s[k]), priority)

Covers(items, b, s, m, n, conf) ==
  IF conf.strategy = "priority" THEN AtBest(items, b, s, m, n, conf.priority)
  ELSE Once(items, b, s, m, n)

\* The next page follows the ones before it.
LEMMA CoversNext ==
  ASSUME NEW old, NEW new, IsSeq(old), IsSeq(new), NEW b, NEW s, Len(s) \in Nat,
         \A i, j \in 1..Len(s) : s[i] = s[j] => i = j,
         NEW m \in Nat, NEW n \in Nat, m <= n, 1 <= m, NEW conf,
         Covers(old, b, s, 1, m, conf), Covers(new, b, s, m, n, conf)
  PROVE  Covers(old \o new, b, s, 1, n, conf)
<1> DEFINE all == old \o new
<1>0. Len(old) \in Nat /\ Len(new) \in Nat
  BY DEF IsSeq
<1>1. /\ Len(all) = Len(old) + Len(new)
      /\ \A i \in 1..Len(old) : all[i] = old[i]
      /\ \A i \in 1..Len(new) : all[Len(old) + i] = new[i]
  BY ConcatIs
<1> HIDE DEF all
<1>2. /\ \A i \in 1..Len(old) : i \in 1..Len(all)
      /\ \A i \in 1..Len(new) : Len(old) + i \in 1..Len(all)
  BY <1>0, <1>1
<1>3. ASSUME NEW i \in 1..Len(all)
      PROVE  i \in 1..Len(old) \/ \E j \in 1..Len(new) : i = Len(old) + j
  <2>1. i > Len(old) => i - Len(old) \in 1..Len(new) /\ i = Len(old) + (i - Len(old))
    BY <1>0, <1>1
  <2>2. CASE i > Len(old)
    BY <2>1, <2>2
  <2>3. CASE i <= Len(old)
    BY <1>0, <2>3
  <2>4. i \in Int /\ Len(old) \in Int
    BY <1>0
  <2> QED BY <2>2, <2>3, <2>4
<1>4. \A k \in 1..Len(s) : 1 <= k /\ k < n => (1 <= k /\ k < m) \/ (m <= k /\ k < n)
  OBVIOUS
<1>5. CASE conf.strategy = "priority"
  <2> DEFINE Good(item, k) == item.original = s[k] /\
               Rank(item.name, conf.priority) <= Rank(Prefix(b, s[k]), conf.priority)
  <2>1. /\ \A k \in 1..Len(s) : 1 <= k /\ k < m => \E i \in 1..Len(old) : Good(old[i], k)
        /\ \A k \in 1..Len(s) : m <= k /\ k < n => \E i \in 1..Len(new) : Good(new[i], k)
    BY <1>5 DEF Covers, AtBest
  <2> HIDE DEF Good
  <2>2. \A k \in 1..Len(s) : 1 <= k /\ k < n => \E i \in 1..Len(all) : Good(all[i], k)
    <3> SUFFICES ASSUME NEW k \in 1..Len(s), 1 <= k, k < n
                 PROVE  \E i \in 1..Len(all) : Good(all[i], k)
      OBVIOUS
    <3>1. CASE 1 <= k /\ k < m
      BY <1>1, <1>2, <2>1, <3>1
    <3>2. CASE m <= k /\ k < n
      <4>1. PICK i \in 1..Len(new) : Good(new[i], k)
        BY <2>1, <3>2
      <4>2. Len(old) + i \in 1..Len(all) /\ Good(all[Len(old) + i], k)
        BY <1>1, <1>2, <4>1
      <4> QED BY <4>2
    <3> QED BY <1>4, <3>1, <3>2
  <2> QED BY <1>5, <2>2 DEF Covers, AtBest, Good, all
<1>6. CASE conf.strategy # "priority"
  <2>0. Once(old, b, s, 1, m) /\ Once(new, b, s, m, n)
    BY <1>6 DEF Covers
  <2> DEFINE Is(item, k) == item.from = b /\ item.original = s[k]
  <2>1. /\ \A k \in 1..Len(s) : 1 <= k /\ k < m => \E i \in 1..Len(old) : Is(old[i], k)
        /\ \A k \in 1..Len(s) : m <= k /\ k < n => \E i \in 1..Len(new) : Is(new[i], k)
    BY <2>0 DEF Once
  <2>2. /\ \A i \in 1..Len(old) : old[i].from = b => \E k \in 1..Len(s) : 1 <= k /\ k < m /\ Is(old[i], k)
        /\ \A i \in 1..Len(new) : new[i].from = b => \E k \in 1..Len(s) : m <= k /\ k < n /\ Is(new[i], k)
    BY <2>0 DEF Once
  <2>3. \A k \in 1..Len(s) : 1 <= k /\ k < n => \E i \in 1..Len(all) : Is(all[i], k)
    <3> HIDE DEF Is
    <3> SUFFICES ASSUME NEW k \in 1..Len(s), 1 <= k, k < n
                 PROVE  \E i \in 1..Len(all) : Is(all[i], k)
      OBVIOUS
    <3>1. CASE 1 <= k /\ k < m
      BY <1>1, <1>2, <2>1, <3>1
    <3>2. CASE m <= k /\ k < n
      <4>1. PICK i \in 1..Len(new) : Is(new[i], k)
        BY <2>1, <3>2
      <4>2. Len(old) + i \in 1..Len(all) /\ Is(all[Len(old) + i], k)
        BY <1>1, <1>2, <4>1
      <4> QED BY <4>2
    <3> QED BY <1>4, <3>1, <3>2
  <2>4. ASSUME NEW i \in 1..Len(all), all[i].from = b
        PROVE  \E k \in 1..Len(s) : 1 <= k /\ k < n /\ Is(all[i], k)
    <3>1. CASE i \in 1..Len(old)
      <4>1. all[i] = old[i]
        BY <1>1, <3>1
      <4>2. PICK k \in 1..Len(s) : 1 <= k /\ k < m /\ Is(old[i], k)
        BY <2>2, <2>4, <3>1, <4>1
      <4>3. k < n
        BY <4>2
      <4> QED BY <4>1, <4>2, <4>3
    <3>2. CASE \E j \in 1..Len(new) : i = Len(old) + j
      <4>1. PICK j \in 1..Len(new) : i = Len(old) + j
        BY <3>2
      <4>2. all[i] = new[j]
        BY <1>1, <4>1
      <4>3. PICK k \in 1..Len(s) : m <= k /\ k < n /\ Is(new[j], k)
        BY <2>2, <2>4, <4>2
      <4> QED BY <4>2, <4>3
    <3> QED BY <1>3, <3>1, <3>2
  <2>5. ASSUME NEW x \in 1..Len(old), NEW y \in 1..Len(new), old[x].from = b, new[y].from = b
        PROVE  old[x].original # new[y].original
    <3>1. PICK k \in 1..Len(s) : 1 <= k /\ k < m /\ old[x].original = s[k]
      BY <2>2, <2>5
    <3>2. PICK l \in 1..Len(s) : m <= l /\ l < n /\ new[y].original = s[l]
      BY <2>2, <2>5
    <3>3. k # l
      BY <3>1, <3>2
    <3> QED BY <3>1, <3>2, <3>3
  <2>6. ASSUME NEW i \in 1..Len(all), NEW j \in 1..Len(all),
               all[i].from = b, all[j].from = b, all[i].original = all[j].original
        PROVE  i = j
    <3>1. CASE i \in 1..Len(old) /\ j \in 1..Len(old)
      <4>1. all[i] = old[i] /\ all[j] = old[j]
        BY <1>1, <3>1
      <4>2. old[i].from = b /\ old[j].from = b /\ old[i].original = old[j].original
        BY <2>6, <4>1
      <4> QED BY <2>0, <3>1, <4>2 DEF Once
    <3>2. CASE i \in 1..Len(old) /\ \E y \in 1..Len(new) : j = Len(old) + y
      <4>1. PICK y \in 1..Len(new) : j = Len(old) + y
        BY <3>2
      <4>2. all[i] = old[i] /\ all[j] = new[y]
        BY <1>1, <3>2, <4>1
      <4> QED BY <2>5, <2>6, <3>2, <4>2
    <3>3. CASE j \in 1..Len(old) /\ \E y \in 1..Len(new) : i = Len(old) + y
      <4>1. PICK y \in 1..Len(new) : i = Len(old) + y
        BY <3>3
      <4>2. all[j] = old[j] /\ all[i] = new[y]
        BY <1>1, <3>3, <4>1
      <4> QED BY <2>5, <2>6, <3>3, <4>2
    <3>4. CASE (\E y \in 1..Len(new) : i = Len(old) + y) /\ (\E y \in 1..Len(new) : j = Len(old) + y)
      <4>1. PICK x \in 1..Len(new) : i = Len(old) + x
        BY <3>4
      <4>2. PICK y \in 1..Len(new) : j = Len(old) + y
        BY <3>4
      <4>3. all[i] = new[x] /\ all[j] = new[y]
        BY <1>1, <4>1, <4>2
      <4>4. x = y
        BY <2>0, <2>6, <4>3 DEF Once
      <4> QED BY <4>1, <4>2, <4>4
    <3> QED BY <1>3, <3>1, <3>2, <3>3, <3>4
  <2>7. Once(all, b, s, 1, n)
    BY <2>3, <2>4, <2>6 DEF Once
  <2> QED BY <1>6, <2>7 DEF Covers, all
<1> QED
  BY <1>5, <1>6

\* Pages of tools, each once.
PagesFit == Answered \subseteq Ids /\ \A b \in Answered : job.got[b].tools \in Seq(Tools)
ToolsOnce ==
  \A b \in Answered : \A k, l \in 1..Len(job.got[b].tools) :
    job.got[b].tools[k] = job.got[b].tools[l] => k = l

LEMMA PagesAre ==
  ASSUME PagesFit, NEW b \in Answered
  PROVE  /\ b \in Ids /\ IsSeq(job.got[b].tools)
         /\ \A k \in 1..Len(job.got[b].tools) : job.got[b].tools[k] \in Tools \cap Names
<1> DEFINE tools == job.got[b].tools
<1>1. tools \in Seq(Tools) /\ Tools \subseteq Names
  BY RoutingAssumption DEF PagesFit
<1> HIDE DEF tools
<1>2. IsSeq(tools) /\ \A k \in 1..Len(tools) : tools[k] \in Tools \cap Names
  BY <1>1, SeqIs
<1> QED
  BY <1>2 DEF tools, PagesFit

LEMMA ItemFields ==
  ASSUME NEW b, NEW t
  PROVE  /\ ItemOf(b, t).name = Labelled(b, t) /\ ItemOf(b, t).from = b /\ ItemOf(b, t).original = t
         /\ LocalOf(b, t).name = Prefix(b, t) /\ LocalOf(b, t).from = b /\ LocalOf(b, t).original = t
         /\ Exposed(ItemOf(b, t)).from = b /\ Exposed(ItemOf(b, t)).original = t
         /\ Exposed(LocalOf(b, t)).from = b /\ Exposed(LocalOf(b, t)).original = t
BY DEF ItemOf, LocalOf, Exposed

\* The backends' items: every tool of every page.
LEMMA RoutedIs ==
  ASSUME PagesFit
  PROVE  /\ IsSeq(Routed)
         /\ \A j \in 1..Len(Routed) : \E b \in Answered : \E k \in 1..Len(job.got[b].tools) :
              Routed[j] = ItemOf(b, job.got[b].tools[k])
         /\ \A b \in Answered : \A k \in 1..Len(job.got[b].tools) :
              \E j \in 1..Len(Routed) : Routed[j] = ItemOf(b, job.got[b].tools[k])
         /\ Tidy /\ ToolsOnce => \A j, l \in 1..Len(Routed) :
              Routed[j].from = Routed[l].from /\ Routed[j].original = Routed[l].original => j = l
<1> DEFINE page(b) == [k \in DOMAIN job.got[b].tools |-> ItemOf(b, job.got[b].tools[k])]
           seqs == [i \in DOMAIN Backends |-> IF Backends[i] \in Answered THEN page(Backends[i]) ELSE <<>>]
           n == Len(Backends)
<1>1. n \in Nat /\ DOMAIN Backends = 1..n
  BY RoutingAssumption
<1>2. ASSUME NEW b \in Answered
      PROVE  /\ IsSeq(page(b)) /\ Len(page(b)) = Len(job.got[b].tools)
             /\ \A k \in 1..Len(page(b)) : page(b)[k] = ItemOf(b, job.got[b].tools[k])
  <2>1. IsSeq(job.got[b].tools)
    BY PagesAre
  <2>2. DOMAIN job.got[b].tools = 1..Len(job.got[b].tools) /\ Len(job.got[b].tools) \in Nat
    BY <2>1, IsSeqOf DEF IsSeq
  <2>3. DOMAIN page(b) = 1..Len(job.got[b].tools) /\ page(b) = [k \in 1..Len(job.got[b].tools) |-> page(b)[k]]
    BY <2>2
  <2>4. \A k \in 1..Len(job.got[b].tools) : page(b)[k] = ItemOf(b, job.got[b].tools[k])
    BY <2>2
  <2> HIDE DEF page
  <2>5. IsSeq(page(b)) /\ Len(page(b)) = Len(job.got[b].tools)
    BY <2>2, <2>3, MadeIs
  <2> QED BY <2>4, <2>5
<1>3. Routed = FlattenSeq(seqs)
  BY Zenon DEF Routed
<1> HIDE DEF page
<1>4. DOMAIN seqs = 1..n /\ seqs = [i \in 1..n |-> seqs[i]]
  BY <1>1
<1>5. \A i \in 1..n : seqs[i] = IF Backends[i] \in Answered THEN page(Backends[i]) ELSE <<>>
  BY <1>1
<1> HIDE DEF seqs
<1>6. IsSeq(seqs) /\ Len(seqs) = n
  BY <1>1, <1>4, MadeIs
<1>7. IsSeq(<<>>) /\ Len(<<>>) = 0 /\ 1..0 = {}
  BY DEF IsSeq
<1>8. \A i \in 1..n : IsSeq(seqs[i])
  BY <1>2, <1>5, <1>7
<1>9. Flat(Routed, seqs, n)
  BY <1>3, <1>6, <1>8, FlattenIs
<1>10. ASSUME NEW i \in 1..n, NEW k \in 1..Len(seqs[i])
       PROVE  /\ Backends[i] \in Answered /\ k \in 1..Len(job.got[Backends[i]].tools)
              /\ seqs[i][k] = ItemOf(Backends[i], job.got[Backends[i]].tools[k])
  <2>1. Backends[i] \in Answered
    BY <1>5, <1>7
  <2> QED BY <1>2, <1>5, <2>1
<1>11. IsSeq(Routed)
  BY <1>9 DEF Flat
<1>12. ASSUME NEW j \in 1..Len(Routed)
       PROVE  \E b \in Answered : \E k \in 1..Len(job.got[b].tools) : Routed[j] = ItemOf(b, job.got[b].tools[k])
  <2>1. PICK i \in 1..n : \E k \in 1..Len(seqs[i]) : Routed[j] = seqs[i][k]
    BY <1>9 DEF Flat
  <2>2. PICK k \in 1..Len(seqs[i]) : Routed[j] = seqs[i][k]
    BY <2>1
  <2>3. \E b \in Answered : b = Backends[i]
    BY <1>10
  <2>4. PICK b \in Answered : b = Backends[i]
    BY <2>3
  <2>5. k \in 1..Len(job.got[b].tools) /\ Routed[j] = ItemOf(b, job.got[b].tools[k])
    BY <1>10, <2>2, <2>4
  <2> QED BY <2>5
<1>13. ASSUME NEW b \in Answered, NEW k \in 1..Len(job.got[b].tools)
       PROVE  \E j \in 1..Len(Routed) : Routed[j] = ItemOf(b, job.got[b].tools[k])
  <2>1. b \in Ids
    BY DEF PagesFit
  <2>2. PICK i \in 1..n : b = Backends[i]
    BY <1>1, <2>1 DEF Ids, ToSet
  <2>3. k \in 1..Len(seqs[i]) /\ seqs[i][k] = ItemOf(b, job.got[b].tools[k])
    BY <1>2, <1>5, <2>2
  <2> QED BY <1>9, <2>3 DEF Flat
<1>14. ASSUME Tidy, ToolsOnce PROVE Distinct(seqs, n)
  <2> SUFFICES ASSUME NEW i \in 1..n, NEW j \in 1..n,
                      NEW k \in 1..Len(seqs[i]), NEW l \in 1..Len(seqs[j]), seqs[i][k] = seqs[j][l]
               PROVE  i = j /\ k = l
    BY DEF Distinct
  <2>1. ItemOf(Backends[i], job.got[Backends[i]].tools[k]) = ItemOf(Backends[j], job.got[Backends[j]].tools[l])
    BY <1>10
  <2>2. Backends[i] = Backends[j] /\ job.got[Backends[i]].tools[k] = job.got[Backends[j]].tools[l]
    BY <2>1, ItemFields
  <2>3. i = j
    BY <1>14, <2>2 DEF Tidy
  <2> QED BY <1>10, <1>14, <2>2, <2>3 DEF ToolsOnce
<1>15. ASSUME Tidy, ToolsOnce, NEW j \in 1..Len(Routed), NEW l \in 1..Len(Routed),
              Routed[j].from = Routed[l].from, Routed[j].original = Routed[l].original
       PROVE  j = l
  <2>1. PICK a \in Answered : \E k \in 1..Len(job.got[a].tools) : Routed[j] = ItemOf(a, job.got[a].tools[k])
    BY <1>12
  <2>2. PICK k \in 1..Len(job.got[a].tools) : Routed[j] = ItemOf(a, job.got[a].tools[k])
    BY <2>1
  <2>3. PICK b \in Answered : \E m \in 1..Len(job.got[b].tools) : Routed[l] = ItemOf(b, job.got[b].tools[m])
    BY <1>12
  <2>4. PICK m \in 1..Len(job.got[b].tools) : Routed[l] = ItemOf(b, job.got[b].tools[m])
    BY <2>3
  <2>5. a = b /\ job.got[a].tools[k] = job.got[b].tools[m]
    BY <1>15, <2>2, <2>4, ItemFields
  <2>6. Routed[j] = Routed[l]
    BY <2>2, <2>4, <2>5
  <2> QED BY <1>9, <1>14, <1>15, <2>6 DEF Flat
<1> QED
  BY <1>11, <1>12, <1>13, <1>15

\* The local handlers' items.
LEMMA LocalIs ==
  /\ IsSeq(Local)
  /\ \A j \in 1..Len(Local) : \E h \in HandlerIds : \E t \in Names : Local[j] = LocalOf(h, t)
  /\ \A i \in DOMAIN Handlers : \A k \in DOMAIN Handlers[i].tools :
       \E j \in 1..Len(Local) : Local[j] = LocalOf(Handlers[i].id, Handlers[i].tools[k])
<1> DEFINE page(i) == [k \in DOMAIN Handlers[i].tools |-> LocalOf(Handlers[i].id, Handlers[i].tools[k])]
           seqs == [i \in DOMAIN Handlers |-> page(i)]
           n == Len(Handlers)
<1>1. n \in Nat /\ DOMAIN Handlers = 1..n
  <2>1. \A S : Handlers \in Seq(S) => n \in Nat /\ DOMAIN Handlers = 1..n
    OBVIOUS
  <2> QED BY <2>1, RoutingAssumption
<1>2. ASSUME NEW i \in 1..n
      PROVE  /\ IsSeq(page(i))
             /\ \A k \in DOMAIN Handlers[i].tools :
                  k \in 1..Len(page(i)) /\ page(i)[k] = LocalOf(Handlers[i].id, Handlers[i].tools[k])
             /\ \A k \in 1..Len(page(i)) : \E h \in HandlerIds : \E t \in Names : page(i)[k] = LocalOf(h, t)
  <2> DEFINE tools == Handlers[i].tools
  <2>1. tools \in Seq(Names) /\ Handlers[i].id \in HandlerIds
    BY <1>1, HandlersAre DEF HandlerIds
  <2> HIDE DEF tools
  <2>2. DOMAIN tools = 1..Len(tools) /\ Len(tools) \in Nat /\ \A k \in 1..Len(tools) : tools[k] \in Names
    BY <2>1
  <2>3. DOMAIN page(i) = 1..Len(tools) /\ page(i) = [k \in 1..Len(tools) |-> page(i)[k]]
    BY <2>2 DEF tools
  <2>4. \A k \in 1..Len(tools) : page(i)[k] = LocalOf(Handlers[i].id, tools[k])
    BY <2>2 DEF tools
  <2> HIDE DEF page
  <2>5. IsSeq(page(i)) /\ Len(page(i)) = Len(tools)
    BY <2>2, <2>3, MadeIs
  <2> QED BY <2>1, <2>2, <2>4, <2>5 DEF tools
<1>3. Local = FlattenSeq(seqs)
  BY Zenon DEF Local
<1> HIDE DEF page
<1>4. DOMAIN seqs = 1..n /\ seqs = [i \in 1..n |-> seqs[i]] /\ \A i \in 1..n : seqs[i] = page(i)
  BY <1>1
<1> HIDE DEF seqs
<1>5. IsSeq(seqs) /\ Len(seqs) = n
  BY <1>1, <1>4, MadeIs
<1>6. Flat(Local, seqs, n)
  BY <1>2, <1>3, <1>4, <1>5, FlattenIs
<1>7. ASSUME NEW j \in 1..Len(Local)
      PROVE  \E h \in HandlerIds : \E t \in Names : Local[j] = LocalOf(h, t)
  <2>1. PICK i \in 1..n : \E k \in 1..Len(seqs[i]) : Local[j] = seqs[i][k]
    BY <1>6 DEF Flat
  <2> QED BY <1>2, <1>4, <2>1
<1>8. ASSUME NEW i \in DOMAIN Handlers, NEW k \in DOMAIN Handlers[i].tools
      PROVE  \E j \in 1..Len(Local) : Local[j] = LocalOf(Handlers[i].id, Handlers[i].tools[k])
  <2>1. /\ i \in 1..n /\ k \in 1..Len(seqs[i])
        /\ seqs[i][k] = LocalOf(Handlers[i].id, Handlers[i].tools[k])
    BY <1>1, <1>2, <1>4
  <2> QED BY <1>6, <2>1 DEF Flat
<1> QED
  BY <1>6, <1>7, <1>8 DEF Flat

Paged(item, b, t) == b \in Answered /\ t \in ToSet(job.got[b].tools) /\ item = ItemOf(b, t)
Handled(item, h, t) == h \in HandlerIds /\ t \in Names /\ item = LocalOf(h, t)

\* All items: every tool of every page once, and local ones.
LEMMA ItemsAre ==
  ASSUME PagesFit, NEW items, items = Routed \o Local
  PROVE  /\ IsSeq(items)
         /\ \A i \in 1..Len(items) : \E b, t : Paged(items[i], b, t) \/ Handled(items[i], b, t)
         /\ \A b \in Answered : \A k \in 1..Len(job.got[b].tools) :
              \E i \in 1..Len(items) : items[i] = ItemOf(b, job.got[b].tools[k])
         /\ \A i \in DOMAIN Handlers : \A k \in DOMAIN Handlers[i].tools : \E j \in 1..Len(items) :
              items[j] = LocalOf(Handlers[i].id, Handlers[i].tools[k])
         /\ Tidy /\ ToolsOnce => \A i, j \in 1..Len(items) :
              /\ items[i].from \in Ids /\ items[i].from = items[j].from
              /\ items[i].original = items[j].original
              => i = j
<1>1. IsSeq(Routed) /\ IsSeq(Local) /\ Len(Routed) \in Nat /\ Len(Local) \in Nat
  BY RoutedIs, LocalIs DEF IsSeq
<1>2. /\ IsSeq(items) /\ Len(items) = Len(Routed) + Len(Local)
      /\ \A i \in 1..Len(Routed) : items[i] = Routed[i]
      /\ \A i \in 1..Len(Local) : items[Len(Routed) + i] = Local[i]
  BY <1>1, ConcatIs
<1>3. ASSUME NEW i \in 1..Len(items)
      PROVE  i \in 1..Len(Routed) \/ \E j \in 1..Len(Local) : i = Len(Routed) + j
  <2>1. i > Len(Routed) => i - Len(Routed) \in 1..Len(Local) /\ i = Len(Routed) + (i - Len(Routed))
    BY <1>1, <1>2
  <2>2. CASE i > Len(Routed)
    BY <2>1, <2>2
  <2>3. CASE i <= Len(Routed)
    BY <1>1, <2>3
  <2>4. i \in Int /\ Len(Routed) \in Int
    BY <1>1
  <2> QED BY <2>2, <2>3, <2>4
<1>4. ASSUME NEW i \in 1..Len(Routed)
      PROVE  \E b, t : Paged(Routed[i], b, t)
  <2>1. PICK b \in Answered : \E k \in 1..Len(job.got[b].tools) : Routed[i] = ItemOf(b, job.got[b].tools[k])
    BY RoutedIs
  <2>2. PICK k \in 1..Len(job.got[b].tools) : Routed[i] = ItemOf(b, job.got[b].tools[k])
    BY <2>1
  <2>3. IsSeq(job.got[b].tools)
    BY PagesAre
  <2>4. k \in DOMAIN job.got[b].tools
    BY <2>3, IsSeqOf
  <2>5. Paged(Routed[i], b, job.got[b].tools[k])
    BY <2>2, <2>4 DEF Paged, ToSet
  <2> QED BY <2>5
<1>5. ASSUME NEW i \in 1..Len(Local)
      PROVE  \E h, t : Handled(Local[i], h, t)
  BY LocalIs DEF Handled
<1>6. \A i \in 1..Len(items) : \E b, t : Paged(items[i], b, t) \/ Handled(items[i], b, t)
  BY <1>2, <1>3, <1>4, <1>5
<1>7. ASSUME NEW b \in Answered, NEW k \in 1..Len(job.got[b].tools)
      PROVE  \E i \in 1..Len(items) : items[i] = ItemOf(b, job.got[b].tools[k])
  <2>1. PICK i \in 1..Len(Routed) : Routed[i] = ItemOf(b, job.got[b].tools[k])
    BY RoutedIs
  <2>2. i \in 1..Len(items) /\ items[i] = Routed[i]
    BY <1>1, <1>2
  <2> QED BY <2>1, <2>2
<1>8. ASSUME NEW i \in 1..Len(items), items[i].from \in Ids
      PROVE  i \in 1..Len(Routed) /\ items[i] = Routed[i]
  <2>1. ASSUME NEW j \in 1..Len(Local), i = Len(Routed) + j PROVE FALSE
    <3>1. items[i] = Local[j]
      BY <1>2, <2>1
    <3>2. PICK h, t : Handled(items[i], h, t)
      BY <1>5, <3>1
    <3>3. items[i].from = h /\ h \in HandlerIds
      BY <3>2, ItemFields DEF Handled
    <3> QED BY <1>8, <3>3, RoutingAssumption
  <2> QED BY <1>2, <1>3, <2>1
<1>9. ASSUME Tidy, ToolsOnce, NEW i \in 1..Len(items), NEW j \in 1..Len(items), items[i].from \in Ids,
             items[i].from = items[j].from, items[i].original = items[j].original
      PROVE  i = j
  <2>1. /\ i \in 1..Len(Routed) /\ items[i] = Routed[i]
        /\ j \in 1..Len(Routed) /\ items[j] = Routed[j]
    BY <1>8, <1>9
  <2> QED BY <1>9, <2>1, RoutedIs
<1>10. ASSUME NEW i \in DOMAIN Handlers, NEW k \in DOMAIN Handlers[i].tools
       PROVE  \E j \in 1..Len(items) : items[j] = LocalOf(Handlers[i].id, Handlers[i].tools[k])
  <2>1. PICK j \in 1..Len(Local) : Local[j] = LocalOf(Handlers[i].id, Handlers[i].tools[k])
    BY LocalIs
  <2>2. Len(Routed) + j \in 1..Len(items) /\ items[Len(Routed) + j] = Local[j]
    BY <1>1, <1>2
  <2> QED BY <2>1, <2>2
<1> QED
  BY <1>2, <1>6, <1>7, <1>9, <1>10

\* Renaming leaves them where they are.
LEMMA ExposedAre ==
  ASSUME PagesFit, Strategy # "priority", NEW items, items = Routed \o Local
  PROVE  /\ IsSeq(Shown) /\ Len(Shown) = Len(items)
         /\ \A i \in 1..Len(items) : Shown[i].from = items[i].from /\ Shown[i].original = items[i].original
         /\ DOMAIN Shown = 1..Len(items) /\ \A i \in 1..Len(items) : Shown[i] = Exposed(items[i])
<1>1. /\ IsSeq(items)
      /\ \A i \in 1..Len(items) : \E b, t : Paged(items[i], b, t) \/ Handled(items[i], b, t)
  BY ItemsAre
<1>2. Len(items) \in Nat /\ DOMAIN items = 1..Len(items)
  BY <1>1, IsSeqOf DEF IsSeq
<1>3. Shown = [i \in DOMAIN items |-> Exposed(items[i])]
  BY Zenon DEF Shown
<1>4. DOMAIN Shown = 1..Len(items) /\ Shown = [i \in 1..Len(items) |-> Shown[i]]
  BY <1>2, <1>3
<1>5. \A i \in 1..Len(items) : Shown[i] = Exposed(items[i])
  BY <1>2, <1>3
<1>6. ASSUME NEW i \in 1..Len(items)
      PROVE  Exposed(items[i]).from = items[i].from /\ Exposed(items[i]).original = items[i].original
  <2>1. PICK b, t : Paged(items[i], b, t) \/ Handled(items[i], b, t)
    BY <1>1
  <2>2. items[i] = ItemOf(b, t) \/ items[i] = LocalOf(b, t)
    BY <2>1 DEF Paged, Handled
  <2> QED BY <2>2, ItemFields
<1> QED
  BY <1>2, <1>4, <1>5, <1>6, MadeIs

\* Priority ranks by the id that a label leads to; the tools of a single backend have no
\* label.
Ranked == Strategy = "priority" => ~Single /\ \A id \in Ids \cup HandlerIds : Resolvable(id)

\* Of every item there is a copy as good left.
LEMMA PreferredAre ==
  ASSUME PagesFit, config \in Configs, Ranked, Strategy = "priority",
         NEW items, items = Routed \o Local
  PROVE  /\ IsSeq(Shown)
         /\ \A b \in Answered : \A k \in 1..Len(job.got[b].tools) : \E i \in 1..Len(Shown) :
              /\ Shown[i].original = job.got[b].tools[k]
              /\ Rank(Shown[i].name, config.priority)
                   <= Rank(Prefix(b, job.got[b].tools[k]), config.priority)
<1>1. /\ IsSeq(items)
      /\ \A i \in 1..Len(items) : \E b, t : Paged(items[i], b, t) \/ Handled(items[i], b, t)
      /\ \A b \in Answered : \A k \in 1..Len(job.got[b].tools) :
           \E i \in 1..Len(items) : items[i] = ItemOf(b, job.got[b].tools[k])
  BY ItemsAre
<1>2. config.priority \in Seq(Seq(Chars))
  BY RoutingAssumption
<1>3. Shown = ApplyPriority(items, config.priority)
  BY Zenon DEF Shown
<1>4. Thinned(Shown, items, config.priority, Len(items))
  BY <1>1, <1>2, <1>3, PriorityThins
<1>5. \A b, t : Labelled(b, t) = Prefix(b, t)
  BY DEF Labelled, Ranked
<1>6. ASSUME NEW b \in Ids \cup HandlerIds, NEW t \in Names
      PROVE  Original(Prefix(b, t)) = t
  <2>1. Split(Prefix(b, t)) = <<b, t>> /\ Split(Prefix(b, t)) # Unresolved
    BY HomeOfLabel DEF Ranked
  <2> QED BY <2>1 DEF Original
<1>7. ASSUME NEW i \in 1..Len(items)
      PROVE  Original(items[i].name) = items[i].original
  <2>1. PICK b, t : Paged(items[i], b, t) \/ Handled(items[i], b, t)
    BY <1>1
  <2>2. CASE Paged(items[i], b, t)
    <3>1. b \in Ids /\ t \in ToSet(job.got[b].tools) /\ IsSeq(job.got[b].tools)
      BY <2>2, PagesAre DEF Paged
    <3>2. \A k \in 1..Len(job.got[b].tools) : job.got[b].tools[k] \in Names
      BY <2>2, PagesAre DEF Paged
    <3>3. t \in Names
      BY <3>1, <3>2, IsSeqOf DEF ToSet
    <3>4. items[i].name = Prefix(b, t) /\ items[i].original = t
      BY <1>5, <2>2, ItemFields DEF Paged
    <3> QED BY <1>6, <3>1, <3>3, <3>4
  <2>3. CASE Handled(items[i], b, t)
    <3>1. b \in HandlerIds /\ t \in Names
      BY <2>3 DEF Handled
    <3>2. items[i].name = Prefix(b, t) /\ items[i].original = t
      BY <2>3, ItemFields DEF Handled
    <3> QED BY <1>6, <3>1, <3>2
  <2> QED BY <2>1, <2>2, <2>3
<1>8. ASSUME NEW b \in Answered, NEW k \in 1..Len(job.got[b].tools)
      PROVE  \E i \in 1..Len(Shown) :
               /\ Shown[i].original = job.got[b].tools[k]
               /\ Rank(Shown[i].name, config.priority)
                    <= Rank(Prefix(b, job.got[b].tools[k]), config.priority)
  <2>1. PICK j \in 1..Len(items) : items[j] = ItemOf(b, job.got[b].tools[k])
    BY <1>1
  <2>2. items[j].name = Prefix(b, job.got[b].tools[k]) /\ items[j].original = job.got[b].tools[k]
    BY <1>5, <2>1, ItemFields
  <2>3. PICK i \in 1..Len(Shown) : AsGood(Shown[i], items[j], config.priority)
    BY <1>4 DEF Thinned
  <2>4. PICK l \in 1..Len(items) : Shown[i] = items[l]
    BY <1>4 DEF Thinned
  <2>5. Shown[i].original = items[j].original
    BY <1>7, <2>3, <2>4 DEF AsGood
  <2>6. Rank(Shown[i].name, config.priority) <= Rank(items[j].name, config.priority)
    BY <2>3 DEF AsGood
  <2> QED BY <2>2, <2>5, <2>6
<1> QED
  BY <1>4, <1>8 DEF Thinned

\* What a list shows of the tools of b: those of its page, of nobody else the tools of b.
LEMMA ShownCovers ==
  ASSUME Tidy, PagesFit, ToolsOnce, config \in Configs, Ranked, NEW b \in Ids, NEW s, Len(s) \in Nat,
         NEW m \in Nat, NEW n \in Nat, 1 <= m,
         b \in Answered => PageShows(job.got[b], s, m, n), b \notin Answered => m = n
  PROVE  IsSeq(Shown) /\ Covers(Shown, b, s, m, n, config)
<1> DEFINE items == Routed \o Local
           tools == job.got[b].tools
<1>1. /\ IsSeq(items)
      /\ \A i \in 1..Len(items) : \E a, t : Paged(items[i], a, t) \/ Handled(items[i], a, t)
      /\ \A a \in Answered : \A k \in 1..Len(job.got[a].tools) :
           \E i \in 1..Len(items) : items[i] = ItemOf(a, job.got[a].tools[k])
      /\ \A i, j \in 1..Len(items) :
           /\ items[i].from \in Ids /\ items[i].from = items[j].from
           /\ items[i].original = items[j].original
           => i = j
  <2> HIDE DEF items
  <2>1. items = Routed \o Local
    BY DEF items
  <2> QED BY <2>1, ItemsAre
<1>2. ASSUME NEW k \in 1..Len(s), m <= k, k < n
      PROVE  b \in Answered /\ \E l \in 1..Len(tools) : tools[l] = s[k]
  <2>1. b \in Answered
    BY <1>2
  <2>2. Len(tools) = n - m /\ \A l \in 1..(n - m) : tools[l] = s[m + l - 1]
    BY <2>1 DEF PageShows
  <2>3. k - m + 1 \in 1..(n - m) /\ m + (k - m + 1) - 1 = k
    BY <1>2
  <2> HIDE DEF tools
  <2>4. tools[k - m + 1] = s[m + (k - m + 1) - 1]
    BY <2>2, <2>3
  <2> QED BY <2>1, <2>2, <2>3, <2>4
<1>3. CASE Strategy = "priority"
  <2>1. /\ IsSeq(Shown)
        /\ \A a \in Answered : \A k \in 1..Len(job.got[a].tools) : \E i \in 1..Len(Shown) :
             /\ Shown[i].original = job.got[a].tools[k]
             /\ Rank(Shown[i].name, config.priority)
                  <= Rank(Prefix(a, job.got[a].tools[k]), config.priority)
    BY <1>3, PreferredAre
  <2>2. ASSUME NEW k \in 1..Len(s), m <= k, k < n
        PROVE  \E i \in 1..Len(Shown) :
                 /\ Shown[i].original = s[k]
                 /\ Rank(Shown[i].name, config.priority) <= Rank(Prefix(b, s[k]), config.priority)
    <3>1. PICK l \in 1..Len(tools) : tools[l] = s[k]
      BY <1>2, <2>2
    <3>2. b \in Answered
      BY <1>2, <2>2
    <3> QED BY <2>1, <3>1, <3>2
  <2> QED BY <1>3, <2>1, <2>2 DEF Covers, AtBest, Strategy
<1>4. CASE Strategy # "priority"
  <2>1. /\ IsSeq(Shown) /\ Len(Shown) = Len(items)
        /\ \A i \in 1..Len(items) : Shown[i].from = items[i].from /\ Shown[i].original = items[i].original
    <3> HIDE DEF items
    <3>1. items = Routed \o Local
      BY DEF items
    <3> QED BY <1>4, <3>1, ExposedAre
  <2> HIDE DEF items
  <2>2. ASSUME NEW k \in 1..Len(s), m <= k, k < n
        PROVE  \E i \in 1..Len(Shown) : Shown[i].from = b /\ Shown[i].original = s[k]
    <3>1. PICK l \in 1..Len(tools) : tools[l] = s[k]
      BY <1>2, <2>2
    <3>2. b \in Answered
      BY <1>2, <2>2
    <3>3. PICK i \in 1..Len(items) : items[i] = ItemOf(b, tools[l])
      BY <1>1, <3>2
    <3>4. items[i].from = b /\ items[i].original = s[k]
      BY <3>1, <3>3, ItemFields
    <3> QED BY <2>1, <3>4
  <2>3. ASSUME NEW i \in 1..Len(Shown), Shown[i].from = b
        PROVE  \E k \in 1..Len(s) : m <= k /\ k < n /\ Shown[i].original = s[k]
    <3>1. i \in 1..Len(items) /\ items[i].from = b
      BY <2>1, <2>3
    <3>2. PICK a, t : Paged(items[i], a, t) \/ Handled(items[i], a, t)
      BY <1>1, <3>1
    <3>3. ~Handled(items[i], a, t)
      BY <3>1, ItemFields, RoutingAssumption DEF Handled
    <3>4. a = b /\ b \in Answered /\ t \in ToSet(tools) /\ items[i].original = t
      BY <3>1, <3>2, <3>3, ItemFields DEF Paged
    <3>5. /\ IsSeq(tools) /\ Len(tools) = n - m /\ \A l \in 1..(n - m) : tools[l] = s[m + l - 1]
          /\ n \in 1..(Len(s) + 1)
      BY <3>4 DEF PageShows
    <3> HIDE DEF tools
    <3>6. PICK l \in 1..(n - m) : t = tools[l]
      BY <3>4, <3>5, IsSeqOf DEF ToSet
    <3>7. m + l - 1 \in 1..Len(s) /\ m <= m + l - 1 /\ m + l - 1 < n
      BY <3>5
    <3>8. Shown[i].original = s[m + l - 1]
      BY <2>1, <3>1, <3>4, <3>5, <3>6
    <3> QED BY <3>7, <3>8
  <2>4. ASSUME NEW i \in 1..Len(Shown), NEW j \in 1..Len(Shown),
               Shown[i].from = b, Shown[j].from = b, Shown[i].original = Shown[j].original
        PROVE  i = j
    <3>1. /\ i \in 1..Len(items) /\ j \in 1..Len(items) /\ items[i].from = b /\ items[j].from = b
          /\ items[i].original = items[j].original
      BY <2>1, <2>4
    <3> QED BY <1>1, <3>1
  <2>5. Once(Shown, b, s, m, n)
    BY <2>2, <2>3, <2>4 DEF Once
  <2> QED BY <1>4, <2>1, <2>5 DEF Covers, Strategy
<1> QED
  BY <1>3, <1>4

\* A cursor of the listing: for each backend that has more, where its next page begins.
CursorFits(c, surf) ==
  Composite(c) =>
    /\ DOMAIN c.at \subseteq Ids
    /\ \A b \in DOMAIN c.at : Composite(c.at[b]) /\ c.at[b].pos \in 1..Len(surf[b])

\* A fetch asks for what its cursor stands for, and gets tools; while nothing changes,
\* they are pages of what the backends offer.
PagesOf(j, surf) ==
  j.op \in {"list", "warm"} =>
    /\ \A b \in DOMAIN j.params :
         j.params[b].cursor = IF Composite(j.cursor) THEN j.cursor.at[b] ELSE j.cursor
    /\ \A b \in DOMAIN j.got : j.got[b] # Failed => j.got[b].tools \in Seq(Tools)
    /\ j.quiet => \A b \in DOMAIN j.got :
         j.got[b] # Failed => j.got[b] = PageAt(surf[b], b, j.params[b])

\* The listing so far covers every backend's tools up to its next page.
ChainOf(c, surf, conf) ==
  c # None =>
    /\ IsSeq(c.items) /\ CursorFits(c.cursor, surf)
    /\ \A b \in Ids : Covers(c.items, b, surf[b], 1, Upto(c.cursor, b, surf[b]), conf)

ListingInv ==
  /\ config \in Configs /\ surface \in [Ids -> Surfaces]
  /\ PagesOf(job, surface)
  /\ Tidy /\ Ranked => ChainOf(chain, surface, config)

LEMMA ListingInit == Init => ListingInv
BY DEF Init, ListingInv, PagesOf, ChainOf, Idle

LEMMA ListingBy ==
  ASSUME config \in Configs, config' = config, surface' \in [Ids -> Surfaces],
         PagesOf(job', surface'), Tidy /\ Ranked => ChainOf(chain', surface', config)
  PROVE  ListingInv'
<1>1. Ranked' => Ranked
  BY DEF Ranked, Strategy, Single
<1> QED
  BY <1>1 DEF ListingInv

LEMMA ListingUnchanged ==
  ASSUME ListingInv, config' = config, surface' = surface, chain' = chain,
         job' = job \/ job'.op \notin {"list", "warm"}
  PROVE  ListingInv'
<1>1. PagesOf(job', surface')
  BY DEF ListingInv, PagesOf
<1> QED
  BY <1>1, ListingBy DEF ListingInv

LEMMA SurfacesAre ==
  ASSUME ListingInv, Tidy, NEW b \in Ids
  PROVE  /\ surface[b] \in Seq(Tools) /\ surface[b] \in Surfaces /\ Len(surface[b]) \in Nat
         /\ \A k \in 1..Len(surface[b]) : surface[b][k] \in Names
         /\ \A i, j \in 1..Len(surface[b]) : surface[b][i] = surface[b][j] => i = j
<1>1. surface[b] \in Surfaces
  BY DEF ListingInv
<1>2. surface[b] \in Seq(Tools) /\ Tools \subseteq Names
  BY <1>1, RoutingAssumption
<1> QED
  BY <1>1, <1>2 DEF Tidy

\* A fetch that is just made.
LEMMA FetchFits ==
  ASSUME NEW op, NEW v, NEW c, NEW value, NEW surf
  PROVE  PagesOf(Fetch(op, v, c, value), surf)
<1> DEFINE j == Fetch(op, v, c, value)
<1>1. j.cursor = c /\ j.got = <<>> /\ j.params = [b \in Asked(c) |-> ParamsFor(b, Effective(v), c)]
  BY DEF Fetch
<1> HIDE DEF j
<1>2. DOMAIN j.got = {}
  BY <1>1
<1>3. \A b \in DOMAIN j.params : j.params[b] = ParamsFor(b, Effective(v), c)
  BY <1>1
<1>4. \A b : ParamsFor(b, Effective(v), c).cursor = IF Composite(c) THEN c.at[b] ELSE c
  BY DEF ParamsFor
<1>5. PagesOf(j, surf)
  BY <1>1, <1>2, <1>3, <1>4 DEF PagesOf
<1> QED
  BY <1>5 DEF j

\* An answer that is a page, no answer at all, or of a fetch that was disturbed.
LEMMA AnswerFits ==
  ASSUME PagesOf(job, surface), Fetching, NEW b, NEW page, NEW quiet,
         quiet => job.quiet, page # Failed => page.tools \in Seq(Tools),
         quiet /\ page # Failed => page = PageAt(surface[b], b, job.params[b])
  PROVE  PagesOf(Ongoing(Received(b, page), quiet), surface)
<1> DEFINE j == Ongoing(Received(b, page), quiet)
<1>1. /\ j.cursor = job.cursor /\ j.params = job.params /\ j.quiet = quiet
      /\ j.got = Received(b, page)
  BY DEF Ongoing
<1>2. \A x \in DOMAIN Received(b, page) :
        Received(b, page)[x] = IF x = b THEN page ELSE job.got[x]
  BY DEF Received
<1>3. \A x \in DOMAIN Received(b, page) : x = b \/ x \in DOMAIN job.got
  BY DEF Received
<1> HIDE DEF j
<1>4. PagesOf(j, surface)
  BY <1>1, <1>2, <1>3 DEF PagesOf, Fetching
<1> QED
  BY <1>4 DEF j

\* Whatever the cursor, a page has tools of the backend on it.
LEMMA PageTools ==
  ASSUME ListingInv, CursorInv, Fetching, NEW b \in Ids, b \in DOMAIN job.params
  PROVE  Page(b, job.params[b]).tools \in Seq(Tools)
<1> DEFINE s == surface[b]
           m == Start(job.params[b].cursor)
           to == m + PageSize - 1
           last == IF to < Len(s) THEN to ELSE Len(s)
<1>1. s \in Seq(Tools) /\ Len(s) \in Nat /\ \A i \in 1..Len(s) : s[i] \in Tools
  <2>1. s \in Surfaces
    BY DEF ListingInv
  <2>2. s \in Seq(Tools)
    BY <2>1, RoutingAssumption
  <2> HIDE DEF s
  <2> QED BY <2>2
<1>2. m \in Nat \ {0} /\ PageSize \in Nat
  BY RoutingAssumption DEF CursorInv, Mine, Start
<1>3. Page(b, job.params[b]).tools = SubSeq(s, m, last)
  BY Zenon DEF Page, Start
<1> HIDE DEF s, m
<1>4. last \in Int /\ last <= Len(s)
  BY <1>1, <1>2
<1> HIDE DEF last
<1>5. \A i \in m..last : s[i] \in Tools
  BY <1>1, <1>2, <1>4
<1>6. m \in Int
  BY <1>2
<1>7. SubSeq(s, m, last) \in Seq(Tools)
  BY <1>4, <1>5, <1>6, SubSeqProperties
<1> QED BY <1>3, <1>7

LEMMA AnswerListing ==
  ASSUME ListingInv, CursorInv, NEW b \in Ids, AnswerList(b) \/ ErrorList(b) \/ FailList(b)
  PROVE  ListingInv'
<1>0. Fetching /\ config' = config /\ chain' = chain /\ surface' = surface /\ PagesOf(job, surface)
  BY AnswerKeeps DEF AnswerList, ErrorList, FailList, Weaken, backends, ListingInv
<1>1. CASE AnswerList(b)
  <2>1. job' = Ongoing(Received(b, Page(b, job.params[b])), job.quiet)
    BY <1>1 DEF AnswerList
  <2>2. Page(b, job.params[b]).tools \in Seq(Tools)
    BY <1>0, AnswerKeeps, PageTools
  <2>3. PagesOf(Ongoing(Received(b, Page(b, job.params[b])), job.quiet), surface)
    BY <1>0, <2>2, AnswerFits, PageIsAt
  <2> QED BY <1>0, <2>1, <2>3, ListingBy DEF ListingInv
<1>2. CASE ErrorList(b)
  <2> DEFINE page == [tools |-> <<>>, next |-> None]
  <2>1. job' = Ongoing(Received(b, page), FALSE)
    BY <1>2 DEF ErrorList
  <2>2. page.tools \in Seq(Tools)
    OBVIOUS
  <2> HIDE DEF page
  <2>3. PagesOf(Ongoing(Received(b, page), FALSE), surface)
    BY <1>0, <2>2, AnswerFits
  <2> QED BY <1>0, <2>1, <2>3, ListingBy DEF ListingInv
<1>3. CASE FailList(b)
  <2>1. job' = Ongoing(Received(b, Failed), job.quiet)
    BY <1>3 DEF FailList
  <2>2. PagesOf(Ongoing(Received(b, Failed), job.quiet), surface)
    BY <1>0, AnswerFits
  <2> QED BY <1>0, <2>1, <2>2, ListingBy DEF ListingInv
<1> QED
  BY <1>1, <1>2, <1>3

LEMMA DisturbListing ==
  ASSUME ListingInv, Disturb, surface' \in [Ids -> Surfaces]
  PROVE  ListingInv'
<1>1. chain' = None /\ config' = config /\ config \in Configs
  BY DEF Disturb, ListingInv
<1>2. ChainOf(None, surface', config)
  BY DEF ChainOf
<1>3. PagesOf(job', surface')
  <2>1. CASE Fetching
    <3>1. job' = Ongoing(job.got, FALSE)
      BY <2>1 DEF Disturb
    <3>2. job'.params = job.params /\ job'.cursor = job.cursor /\ job'.quiet = FALSE
      BY <3>1 DEF Ongoing
    <3>3. job'.got = job.got /\ job'.op = job.op
      BY <3>1 DEF Ongoing
    <3> QED BY <2>1, <3>2, <3>3 DEF ListingInv, PagesOf, Fetching
  <2>2. CASE ~Fetching
    BY <2>2 DEF Disturb, PagesOf, Fetching
  <2> QED BY <2>1, <2>2
<1> QED
  BY <1>1, <1>2, <1>3, ListingBy

LEMMA AnswersAre ==
  ASSUME FetchInv, ListingInv, Fetched
  PROVE  PagesFit
BY AnsweredAreIds DEF PagesFit, Answered, ListingInv, PagesOf, Fetched, Fetching

\* The pages of a whole fetch follow what came before, and the cursor it hands out says
\* where the next ones begin.
LEMMA WholePages ==
  ASSUME Tidy, FetchInv, ListingInv, Fetched, job.quiet,
         job.cursor # None => Composite(job.cursor) /\ CursorFits(job.cursor, surface)
                                /\ Answered = DOMAIN job.cursor.at
  PROVE  /\ PagesFit /\ ToolsOnce /\ CursorFits(Bound, surface)
         /\ \A b \in Answered :
              /\ PageShows(job.got[b], surface[b],
                           IF job.cursor = None THEN 1 ELSE Upto(job.cursor, b, surface[b]),
                           Upto(Bound, b, surface[b]))
              /\ Upto(Bound, b, surface[b]) \in Nat
         /\ \A b \in Ids \ Answered : Upto(Bound, b, surface[b]) = Len(surface[b]) + 1
<1> DEFINE more == {b \in Answered : job.got[b].next # None}
           From(b) == IF job.cursor = None THEN 1 ELSE Upto(job.cursor, b, surface[b])
<1>1. Answered \subseteq Ids /\ Answered \subseteq DOMAIN job.params
  BY AnsweredAreIds DEF Fetched, Answered
<1>2. ASSUME NEW b \in Answered
      PROVE  /\ job.got[b] = PageAt(surface[b], b, job.params[b])
             /\ Start(job.params[b].cursor) = From(b)
             /\ From(b) \in 1..Len(surface[b]) \/ From(b) = 1
  <2>1. /\ job.params[b].cursor = IF Composite(job.cursor) THEN job.cursor.at[b] ELSE job.cursor
        /\ job.got[b] = PageAt(surface[b], b, job.params[b])
    BY <1>1 DEF ListingInv, PagesOf, Fetched, Fetching, Answered
  <2>2. CASE job.cursor = None
    BY <2>1, <2>2 DEF Start, Composite
  <2>3. CASE job.cursor # None
    <3>1. /\ Composite(job.cursor) /\ b \in DOMAIN job.cursor.at
          /\ Composite(job.cursor.at[b]) /\ job.cursor.at[b].pos \in 1..Len(surface[b])
      BY <2>3 DEF CursorFits
    <3> QED BY <2>1, <2>3, <3>1 DEF Start, Upto
  <2> QED BY <2>1, <2>2, <2>3
<1>3. ASSUME NEW b \in Answered
      PROVE  \E n : PageShows(job.got[b], surface[b], From(b), n)
  <2>1. surface[b] \in Seq(Tools)
    BY <1>1, SurfacesAre
  <2> HIDE DEF From
  <2>2. Start(job.params[b].cursor) \in 1..Len(surface[b]) \/ Start(job.params[b].cursor) = 1
    BY <1>2
  <2>3. \E n : PageShows(PageAt(surface[b], b, job.params[b]), surface[b], Start(job.params[b].cursor), n)
    BY <2>1, <2>2, PageIs
  <2> QED BY <1>2, <2>3
<1> HIDE DEF From
<1>4. Bound = IF more = {} THEN None ELSE [variant |-> job.variant, at |-> [b \in more |-> job.got[b].next]]
  BY Zenon DEF Bound
<1> HIDE DEF more
<1>5. \A b : Upto(Bound, b, surface[b]) = IF b \in more THEN job.got[b].next.pos ELSE Len(surface[b]) + 1
  <2>1. CASE more = {}
    BY <1>4, <2>1 DEF Upto, Composite
  <2>2. CASE more # {}
    <3>1. Bound \notin {None, Raw} /\ Bound.at = [b \in more |-> job.got[b].next]
      BY <1>4, <2>2 DEF Tidy
    <3>2. DOMAIN Bound.at = more /\ \A b \in more : Bound.at[b] = job.got[b].next
      BY <3>1
    <3> QED BY <3>1, <3>2 DEF Upto, Composite
  <2> QED BY <2>1, <2>2
<1>6. ASSUME NEW b \in Answered
      PROVE  /\ PageShows(job.got[b], surface[b], From(b), Upto(Bound, b, surface[b]))
             /\ Upto(Bound, b, surface[b]) \in Nat
             /\ b \in more => Composite(job.got[b].next) /\ job.got[b].next.pos \in 1..Len(surface[b])
  <2>1. PICK n : PageShows(job.got[b], surface[b], From(b), n)
    BY <1>3
  <2>2. n \in Nat
    BY <2>1 DEF PageShows
  <2>3. CASE b \in more
    <3>1. job.got[b].next # None
      BY <2>3 DEF more
    <3>2. n = job.got[b].next.pos /\ Composite(job.got[b].next) /\ n \in 1..Len(surface[b])
      BY <2>1, <3>1 DEF PageShows
    <3>3. Upto(Bound, b, surface[b]) = n
      BY <1>5, <2>3, <3>2
    <3> QED BY <2>1, <2>2, <3>2, <3>3
  <2>4. CASE b \notin more
    <3>1. job.got[b].next = None
      BY <2>4 DEF more
    <3>2. n = Len(surface[b]) + 1
      BY <2>1, <3>1 DEF PageShows
    <3>3. Upto(Bound, b, surface[b]) = n
      BY <1>5, <2>4, <3>2
    <3> QED BY <2>1, <2>2, <2>4, <3>3
  <2> QED BY <2>3, <2>4
<1>7. ToolsOnce
  <2> SUFFICES ASSUME NEW b \in Answered
               PROVE  \A k, l \in 1..Len(job.got[b].tools) :
                           job.got[b].tools[k] = job.got[b].tools[l] => k = l
    BY DEF ToolsOnce
  <2> DEFINE n == Upto(Bound, b, surface[b])
             m == From(b)
             tools == job.got[b].tools
             s == surface[b]
  <2>1. /\ Len(s) \in Nat /\ n \in 1..(Len(s) + 1) /\ m <= n
        /\ IsSeq(tools) /\ Len(tools) = n - m
        /\ \A k \in 1..(n - m) : tools[k] = s[m + k - 1]
    BY <1>1, <1>6, SurfacesAre DEF PageShows
  <2>2. m \in Nat /\ 1 <= m
    <3>1. m \in 1..Len(s) \/ m = 1
      BY <1>2
    <3> HIDE DEF m, s
    <3> QED BY <2>1, <3>1
  <2>3. \A i, j \in 1..Len(s) : s[i] = s[j] => i = j
    BY <1>1, SurfacesAre
  <2> HIDE DEF m, n, tools, s
  <2>4. \A k \in 1..Len(tools) : m + k - 1 \in 1..Len(s) /\ tools[k] = s[m + k - 1]
    BY <2>1, <2>2
  <2>5. ASSUME NEW k \in 1..Len(tools), NEW l \in 1..Len(tools), tools[k] = tools[l]
        PROVE  k = l
    <3>1. m + k - 1 = m + l - 1
      BY <2>3, <2>4, <2>5
    <3> QED BY <2>2, <3>1
  <2> QED BY <2>5 DEF tools
<1>8. CursorFits(Bound, surface)
  <2>1. CASE more = {}
    BY <1>4, <2>1 DEF CursorFits, Composite
  <2>2. CASE more # {}
    <3>1. Bound.at = [b \in more |-> job.got[b].next]
      BY <1>4, <2>2
    <3>2. DOMAIN Bound.at = more /\ \A b \in more : Bound.at[b] = job.got[b].next
      BY <3>1
    <3>3. more \subseteq Answered
      BY DEF more
    <3> QED BY <1>1, <1>6, <3>2, <3>3 DEF CursorFits
  <2> QED BY <2>1, <2>2
<1>9. \A b \in Ids \ Answered : Upto(Bound, b, surface[b]) = Len(surface[b]) + 1
  BY <1>5 DEF more
<1>10. PagesFit
  BY AnswersAre
<1> QED
  BY <1>6, <1>7, <1>8, <1>9, <1>10 DEF From

\* A list that ends a whole fetch begins or goes on with the listing.
LEMMA ComposeListing ==
  ASSUME FetchInv, ListingInv, Compose
  PROVE  ListingInv'
<1>0. /\ config' = config /\ surface' = surface /\ job' = Idle /\ chain' = ChainAfter /\ Fetched
      /\ config \in Configs /\ surface \in [Ids -> Surfaces]
  BY DEF Compose, backends, ListingInv
<1>1. PagesOf(job', surface')
  BY <1>0 DEF PagesOf, Idle
<1> DEFINE whole == job.quiet /\ Answered = IF job.cursor = None THEN Ids ELSE DOMAIN job.cursor.at
           first == [cursor |-> Bound, items |-> Shown]
           next == [cursor |-> Bound, items |-> chain.items \o Shown]
<1>2. ChainAfter = IF job.cursor = None THEN IF whole THEN first ELSE None
                   ELSE IF chain = None \/ job.cursor = Raw THEN chain
                   ELSE IF chain.cursor # job.cursor THEN chain
                   ELSE IF whole THEN next ELSE None
  BY Zenon DEF ChainAfter
<1>3. ChainOf(None, surface, config)
  BY DEF ChainOf
<1>4. ASSUME Tidy, Ranked, job.cursor = None, whole
      PROVE  ChainOf(first, surface, config)
  <2>1. /\ PagesFit /\ ToolsOnce /\ CursorFits(Bound, surface)
        /\ \A b \in Answered :
             /\ PageShows(job.got[b], surface[b], 1, Upto(Bound, b, surface[b]))
             /\ Upto(Bound, b, surface[b]) \in Nat
    BY <1>0, <1>4, WholePages
  <2>2. ASSUME NEW b \in Ids
        PROVE  IsSeq(Shown) /\ Covers(Shown, b, surface[b], 1, Upto(Bound, b, surface[b]), config)
    <3>1. b \in Answered /\ Len(surface[b]) \in Nat
      BY <1>4, SurfacesAre
    <3> QED BY <1>0, <1>4, <2>1, <3>1, ShownCovers
  <2>3. IsSeq(Shown)
    <3>1. Ids # {} \/ IsSeq(Shown)
      <4>1. CASE Strategy = "priority"
        BY <1>0, <1>4, <2>1, <4>1, PreferredAre
      <4>2. CASE Strategy # "priority"
        BY <2>1, <4>2, ExposedAre
      <4> QED BY <4>1, <4>2
    <3> QED BY <2>2, <3>1
  <2> QED BY <2>1, <2>2, <2>3 DEF ChainOf
<1>5. ASSUME Tidy, Ranked, job.cursor # None, job.cursor # Raw, chain # None, chain.cursor = job.cursor, whole
      PROVE  ChainOf(next, surface, config)
  <2>1. /\ IsSeq(chain.items) /\ CursorFits(job.cursor, surface)
        /\ \A b \in Ids : Covers(chain.items, b, surface[b], 1, Upto(job.cursor, b, surface[b]), config)
    BY <1>5 DEF ListingInv, ChainOf
  <2>2. Composite(job.cursor) /\ Answered = DOMAIN job.cursor.at
    BY <1>5 DEF Composite
  <2>3. /\ PagesFit /\ ToolsOnce /\ CursorFits(Bound, surface)
        /\ \A b \in Answered :
             /\ PageShows(job.got[b], surface[b], Upto(job.cursor, b, surface[b]), Upto(Bound, b, surface[b]))
             /\ Upto(Bound, b, surface[b]) \in Nat
        /\ \A b \in Ids \ Answered : Upto(Bound, b, surface[b]) = Len(surface[b]) + 1
    BY <1>0, <1>5, <2>1, <2>2, WholePages
  <2>4. IsSeq(Shown)
    <3>1. CASE Strategy = "priority"
      BY <1>0, <1>5, <2>3, <3>1, PreferredAre
    <3>2. CASE Strategy # "priority"
      BY <2>3, <3>2, ExposedAre
    <3> QED BY <3>1, <3>2
  <2>5. ASSUME NEW b \in Ids
        PROVE  Covers(chain.items \o Shown, b, surface[b], 1, Upto(Bound, b, surface[b]), config)
    <3> DEFINE m == Upto(job.cursor, b, surface[b])
               n == Upto(Bound, b, surface[b])
               s == surface[b]
    <3>1. Len(s) \in Nat /\ \A i, j \in 1..Len(s) : s[i] = s[j] => i = j
      BY <1>5, SurfacesAre
    <3>2. m \in Nat /\ n \in Nat /\ 1 <= m /\ m <= n
          /\ (b \in Answered => PageShows(job.got[b], s, m, n)) /\ (b \notin Answered => m = n)
      <4>1. CASE b \in Answered
        <5>1. m \in 1..Len(s)
          BY <2>1, <2>2, <4>1 DEF Upto, CursorFits
        <5>2. PageShows(job.got[b], s, m, n) /\ n \in Nat
          BY <2>3, <4>1
        <5>3. m <= n
          BY <5>2 DEF PageShows
        <5> HIDE DEF m, n, s
        <5> QED BY <3>1, <4>1, <5>1, <5>2, <5>3
      <4>2. CASE b \notin Answered
        <5>1. m = Len(s) + 1 /\ n = Len(s) + 1
          BY <2>2, <2>3, <4>2 DEF Upto
        <5> HIDE DEF m, n, s
        <5> QED BY <3>1, <4>2, <5>1
      <4> QED BY <4>1, <4>2
    <3>3. Covers(chain.items, b, s, 1, m, config)
      BY <2>1
    <3> HIDE DEF m, n, s
    <3>4. Covers(Shown, b, s, m, n, config)
      BY <1>0, <1>5, <2>3, <3>1, <3>2, ShownCovers
    <3>5. Covers(chain.items \o Shown, b, s, 1, n, config)
      BY <2>1, <2>4, <3>1, <3>2, <3>3, <3>4, CoversNext
    <3> QED BY <3>5 DEF n, s
  <2>6. IsSeq(chain.items \o Shown)
    BY <2>1, <2>4, ConcatIs
  <2> QED BY <2>3, <2>5, <2>6 DEF ChainOf
<1> HIDE DEF whole, first, next
<1>6. Tidy /\ Ranked => ChainOf(chain', surface', config)
  <2> SUFFICES ASSUME Tidy, Ranked PROVE ChainOf(ChainAfter, surface, config)
    BY <1>0
  <2>1. ChainOf(chain, surface, config)
    BY DEF ListingInv
  <2> QED BY <1>2, <1>3, <1>4, <1>5, <2>1
<1> QED
  BY <1>0, <1>1, <1>6, ListingBy

LEMMA ListingStep ==
  ASSUME FetchInv, CursorInv, ListingInv, [Next]_vars
  PROVE  ListingInv'
<1>1. CASE UNCHANGED vars
  BY <1>1, ListingUnchanged DEF vars, client, backends
<1>2. ASSUME NEW v, NEW c, RequestList(v, c) PROVE ListingInv'
  <2>1. /\ job' = Fetch("list", v, c, None) /\ config' = config /\ surface' = surface /\ chain' = chain
    BY <1>2 DEF RequestList, client, backends
  <2>2. PagesOf(job', surface')
    BY <2>1, FetchFits
  <2> QED BY <2>1, <2>2, ListingBy DEF ListingInv
<1>3. ASSUME NEW v, NEW c, RefuseList(v, c) PROVE ListingInv'
  BY <1>3, ListingUnchanged DEF RefuseList, client, backends
<1>4. ASSUME NEW b \in Ids, AnswerList(b) \/ ErrorList(b) \/ FailList(b) PROVE ListingInv'
  BY <1>4, AnswerListing
<1>5. CASE Compose
  BY <1>5, ComposeListing
<1>6. CASE RefuseClash \/ End \/ AnswerCall \/ AnswerPoll
  BY <1>6, ListingUnchanged DEF RefuseClash, End, AnswerCall, AnswerPoll, Idle, Ended, client, backends
<1>7. ASSUME NEW value, CallLocal(value) PROVE ListingInv'
  BY <1>7, ListingUnchanged DEF CallLocal, client, backends
<1>8. ASSUME NEW value, RequestCall(value) PROVE ListingInv'
  <2>1. \E to : Forward("call", value, to)
    BY <1>8 DEF RequestCall
  <2> QED BY <1>8, <2>1, ForwardStops, ListingUnchanged DEF RequestCall, client, backends
<1>9. ASSUME NEW value, WarmUp(value) PROVE ListingInv'
  <2>1. /\ job' = Fetch("warm", None, None, value) /\ config' = config /\ surface' = surface /\ chain' = chain
    BY <1>9 DEF WarmUp, client, backends
  <2>2. PagesOf(job', surface')
    BY <2>1, FetchFits
  <2> QED BY <2>1, <2>2, ListingBy DEF ListingInv
<1>10. CASE WarmedUp
  <2>1. \E to : Forward("call", job.value, to)
    BY <1>10 DEF WarmedUp
  <2> QED BY <1>10, <2>1, ForwardStops, ListingUnchanged DEF WarmedUp, client, backends
<1>11. ASSUME NEW t, AnswerTask(t) PROVE ListingInv'
  BY <1>11, ListingUnchanged DEF AnswerTask, Idle
<1>12. CASE FailForwarded
  BY <1>12, ListingUnchanged DEF FailForwarded, Weaken, Idle, Ended, client
<1>13. CASE PollTask
  BY <1>13, ForwardStops, ListingUnchanged DEF PollTask, client, backends
<1>14. ASSUME NEW b \in Ids, NEW tools \in Surfaces, Offer(b, tools) PROVE ListingInv'
  <2>1. Disturb /\ surface' \in [Ids -> Surfaces]
    BY <1>14 DEF Offer, ListingInv
  <2> QED BY <2>1, DisturbListing
<1>15. ASSUME NEW b, Flap(b) PROVE ListingInv'
  <2>1. Disturb /\ surface' \in [Ids -> Surfaces]
    BY <1>15 DEF Flap, ListingInv
  <2> QED BY <2>1, DisturbListing
<1> QED
  BY <1>1, <1>2, <1>3, <1>4, <1>5, <1>6, <1>7, <1>8, <1>9, <1>10, <1>11, <1>12, <1>13, <1>14,
     <1>15 DEF Next

(***************************************************************************)
(* Calls reach the lister                                                  *)
(***************************************************************************)
\* The renames are inverted to one label: no two share a target, and a target that is a
\* backend's label is renamed itself.  A renamed tool does not pass for a handler's, unless
\* the handler lists that tool, and then the list is refused.
Meetless(overrides) ==
  /\ \A x, y \in DOMAIN overrides : overrides[x] = overrides[y] => x = y
  /\ \A x \in DOMAIN overrides :
       /\ ~IsLocal(x)
       /\ \A b \in Ids, t \in Tools : overrides[x] = Prefix(b, t) => overrides[x] \in DOMAIN overrides
       /\ IsLocal(overrides[x]) =>
            \E i \in DOMAIN Handlers : \E k \in DOMAIN Handlers[i].tools :
              overrides[x] = Prefix(Handlers[i].id, Handlers[i].tools[k])

\* What is exposed without the label of its backend does not pass for somebody else's.
NamesApart ==
  /\ Strategy = "passthrough" /\ ~Single => \A t \in Tools : ~IsLocal(t)
  /\ Strategy = "manual" => ~Single /\ Meetless(config.overrides)

\* An item's name leads to where the item comes from.
LeadsTo(item, to, original) ==
  IF Strategy = "passthrough" /\ item.from \in Ids
  THEN to \in Ids /\ original = item.name
  ELSE to = item.from /\ original = item.original
Fits(item, map) ==
  IF IsLocal(item.name)
  THEN LeadsTo(item, Split(item.name)[1], Split(item.name)[2])
  ELSE /\ Strategy = "passthrough" /\ ~Single => item.name \in DOMAIN map
       /\ \A to \in Destinations(item.name, map) : to # Unresolved /\ LeadsTo(item, to[1], to[2])

\* The name that the client remembers does, and the one that a warm-up is for is not in the
\* reverse map yet.
KnownFits == known # None /\ Resolvable(known.from) => Fits(known, reverse)
ReachInv ==
  NamesApart =>
    /\ KnownFits
    /\ job.op = "warm" => ~IsLocal(job.value) /\ ~Single /\ job.value \notin DOMAIN reverse
    /\ ReachesLister

LEMMA ReachInit == Init => ReachInv
BY DEF Init, ReachInv, KnownFits, ReachesLister, Idle

\* A label needs no renaming to lead home.
LEMMA LabelFits ==
  ASSUME NEW b \in Ids \cup HandlerIds, NEW t \in Names, Resolvable(b)
  PROVE  /\ IsLocal(Prefix(b, t)) <=> b \in HandlerIds
         /\ Split(Prefix(b, t))[1] = b /\ Split(Prefix(b, t))[2] = t
         /\ b \in Ids => Home(Prefix(b, t)) # Unresolved /\ Home(Prefix(b, t))[1] = b
                         /\ Home(Prefix(b, t))[2] = t
<1>1. <<b, t>>[1] = b /\ <<b, t>>[2] = t /\ <<b, t>> # Unresolved
  BY DEF Unresolved
<1>2. Split(Prefix(b, t)) = <<b, t>> /\ (b \in Ids => Home(Prefix(b, t)) = <<b, t>>)
  BY HomeOfLabel
<1> QED
  BY <1>1, <1>2, RoutingAssumption DEF IsLocal

\* The items of a list by label, and of the list of a single backend.
LEMMA LabelledFits ==
  ASSUME NamesApart, Single \/ Strategy \notin {"manual", "passthrough"}, PagesFit,
         NEW item \in Candidates, Resolvable(Exposed(item).from), NEW map
  PROVE  Fits(Exposed(item), map)
<1>1. Exposed(item) = item
  BY DEF NamesApart, Exposed
<1>2. ASSUME NEW b \in Answered, NEW t \in Tools, item = ItemOf(b, t)
      PROVE  Fits(item, map)
  <2>1. b \in Ids /\ t \in Names
    BY RoutingAssumption DEF PagesFit
  <2>2. item.name = Labelled(b, t) /\ item.from = b /\ item.original = t /\ Resolvable(b)
    BY <1>1, <1>2, ItemFields
  <2>3. CASE Single
    <3>1. item.name = t /\ b = Backends[1] /\ HandlerIds = {}
      BY <2>1, <2>2, <2>3, RoutingAssumption DEF Labelled, Single, Ids, ToSet, HandlerIds
    <3>2. Destinations(t, map) = {<<b, t>>}
      BY <2>3, <3>1 DEF Destinations
    <3>3. <<b, t>>[1] = b /\ <<b, t>>[2] = t /\ <<b, t>> # Unresolved
      BY DEF Unresolved
    <3>4. ~IsLocal(t)
      BY <3>1 DEF IsLocal
    <3> QED BY <2>1, <2>2, <2>3, <3>1, <3>2, <3>3, <3>4 DEF Fits, LeadsTo
  <2>4. CASE ~Single
    <3>1. item.name = Prefix(b, t) /\ b \notin HandlerIds /\ Strategy \notin {"manual", "passthrough"}
      BY <2>1, <2>2, <2>4, RoutingAssumption DEF Labelled
    <3>2. Destinations(item.name, map) = {Home(item.name)}
      BY <2>4, <3>1 DEF Destinations
    <3> QED BY <2>1, <2>2, <3>1, <3>2, LabelFits DEF Fits, LeadsTo
  <2> QED BY <2>3, <2>4
<1>3. ASSUME NEW h \in ToSet(Handlers), NEW t \in ToSet(h.tools), item = LocalOf(h.id, t)
      PROVE  Fits(item, map)
  <2>1. PICK i \in DOMAIN Handlers : h = Handlers[i]
    BY DEF ToSet
  <2>2. h.id \in HandlerIds /\ t \in Names
    BY <2>1, HandlersAre DEF HandlerIds, ToSet
  <2>3. /\ item.name = Prefix(h.id, t) /\ item.from = h.id /\ item.original = t
        /\ h.id \notin Ids /\ Resolvable(h.id)
    BY <1>1, <1>3, <2>2, ItemFields, RoutingAssumption
  <2> QED BY <2>2, <2>3, LabelFits DEF Fits, LeadsTo
<1> QED
  BY <1>1, <1>2, <1>3 DEF Candidates

\* The items of a list under passthrough: a handler's is a label still, a backend's is in
\* the reverse map from now on.
LEMMA PassedFits ==
  ASSUME NamesApart, ~Single, Strategy = "passthrough", PagesFit, TaskInv,
         NEW shown \in ToSet(Shown), Resolvable(shown.from)
  PROVE  Fits(shown, Learn)
<1> DEFINE items == Routed \o Local
<1>1. DOMAIN Shown = 1..Len(items) /\ \A i \in 1..Len(items) : Shown[i] = Exposed(items[i])
  BY ExposedAre
<1>2. \A i \in 1..Len(items) : \E b, t : Paged(items[i], b, t) \/ Handled(items[i], b, t)
  BY ItemsAre
<1> HIDE DEF items
<1>3. PICK i \in 1..Len(items) : shown = Exposed(items[i])
  BY <1>1 DEF ToSet
<1>4. shown = items[i]
  BY <1>3 DEF Exposed
<1>5. PICK b, t : Paged(shown, b, t) \/ Handled(shown, b, t)
  BY <1>2, <1>4
<1>6. CASE Handled(shown, b, t)
  <2>1. /\ b \in HandlerIds /\ t \in Names /\ b \notin Ids
        /\ shown.name = Prefix(b, t) /\ shown.from = b /\ shown.original = t
    BY <1>6, ItemFields, RoutingAssumption DEF Handled
  <2> QED BY <2>1, LabelFits DEF Fits, LeadsTo
<1>7. CASE Paged(shown, b, t)
  <2>1. b \in Answered /\ t \in ToSet(job.got[b].tools) /\ b \in Ids /\ shown.name = t /\ shown.from = b
    BY <1>7, ItemFields DEF Paged, PagesFit, Labelled
  <2>2. t \in Tools
    <3>1. job.got[b].tools \in Seq(Tools)
      BY <2>1 DEF PagesFit
    <3> QED BY <2>1, <3>1 DEF ToSet
  <2>3. Listers(t) # {}
    <3>1. PICK l \in DOMAIN Backends : b = Backends[l]
      BY <2>1 DEF Ids, ToSet
    <3>2. l \in Listers(t)
      BY <2>1, <3>1 DEF Listers
    <3> QED BY <3>2
  <2>4. t \in DOMAIN Learn
    BY <2>2, <2>3 DEF Learn
  <2>5. Learn[t] \in Ids
    BY <2>4, LearnTyped
  <2>6. Destinations(t, Learn) = {<<Learn[t], t>>}
    BY <2>4 DEF Destinations
  <2>7. <<Learn[t], t>>[1] = Learn[t] /\ <<Learn[t], t>>[2] = t /\ <<Learn[t], t>> # Unresolved
    BY DEF Unresolved
  <2>8. ~IsLocal(t)
    BY <2>2 DEF NamesApart
  <2> QED BY <2>1, <2>4, <2>5, <2>6, <2>7, <2>8 DEF Fits, LeadsTo
<1> QED
  BY <1>5, <1>6, <1>7

\* The items of a list by hand: the name is inverted to the label of the item, and to no
\* other.
LEMMA RenamedFits ==
  ASSUME NamesApart, Strategy = "manual", PagesFit, ~Clashing, NEW shown \in ToSet(Shown),
         Resolvable(shown.from), NEW map
  PROVE  Fits(shown, map)
<1> DEFINE items == Routed \o Local
           o == config.overrides
<1>0. ~Single /\ Meetless(o)
  BY DEF NamesApart
<1>1. DOMAIN Shown = 1..Len(items) /\ \A i \in 1..Len(items) : Shown[i] = Exposed(items[i])
  BY ExposedAre
<1>2. /\ IsSeq(items)
      /\ \A i \in 1..Len(items) : \E b, t : Paged(items[i], b, t) \/ Handled(items[i], b, t)
      /\ \A i \in DOMAIN Handlers : \A k \in DOMAIN Handlers[i].tools : \E j \in 1..Len(items) :
           items[j] = LocalOf(Handlers[i].id, Handlers[i].tools[k])
  BY ItemsAre
<1>3. \A i, j \in 1..Len(items) :
        items[i].name # items[j].name => Target(items[i].name, o) # Target(items[j].name, o)
  <2>1. ~Clash(NamesOf(items), o)
    BY DEF Clashing
  <2>2. DOMAIN NamesOf(items) = 1..Len(items) /\ \A i \in 1..Len(items) : NamesOf(items)[i] = items[i].name
    BY <1>2, IsSeqOf DEF NamesOf
  <2> HIDE DEF items, o
  <2> QED BY <2>1, <2>2 DEF Clash
<1> HIDE DEF items, o
<1>4. PICK i \in 1..Len(items) : shown = Exposed(items[i])
  BY <1>1 DEF ToSet
<1>5. PICK b, t : Paged(items[i], b, t) \/ Handled(items[i], b, t)
  BY <1>2
<1>6. /\ b \in Ids \cup HandlerIds /\ t \in Names /\ (b \in Ids => t \in Tools)
      /\ items[i].name = Prefix(b, t) /\ shown.from = b /\ shown.original = t
  <2>1. CASE Paged(items[i], b, t)
    <3>1. b \in Ids /\ t \in ToSet(job.got[b].tools) /\ job.got[b].tools \in Seq(Tools)
      BY <2>1 DEF Paged, PagesFit
    <3>2. t \in Tools
      BY <3>1 DEF ToSet
    <3> QED BY <1>0, <1>4, <2>1, <3>1, <3>2, ItemFields, RoutingAssumption DEF Paged, Labelled
  <2>2. CASE Handled(items[i], b, t)
    BY <1>4, <2>2, ItemFields, RoutingAssumption DEF Handled
  <2> QED BY <1>5, <2>1, <2>2
<1> DEFINE label == Prefix(b, t)
<1>7. shown.name = Target(label, o)
  <2>1. items[i] = ItemOf(b, t) \/ items[i] = LocalOf(b, t)
    BY <1>5 DEF Paged, Handled
  <2>2. items[i] \in [name : {items[i].name}, from : {items[i].from}, original : {items[i].original}]
    BY <2>1 DEF ItemOf, LocalOf
  <2> QED BY <1>4, <1>6, <2>2 DEF Exposed, o
<1>8. CASE b \in HandlerIds
  <2>1. b \notin Ids /\ IsLocal(label)
    BY <1>6, <1>8, LabelFits, RoutingAssumption
  <2>2. label \notin DOMAIN o
    BY <1>0, <2>1 DEF Meetless
  <2>3. shown.name = label
    BY <1>7, <2>2 DEF Target
  <2> HIDE DEF label
  <2>4. Split(label)[1] = b /\ Split(label)[2] = t
    BY <1>6, LabelFits DEF label
  <2> QED BY <1>6, <2>1, <2>3, <2>4 DEF Fits, LeadsTo
<1>9. CASE b \in Ids
  <2>1. ~IsLocal(label) /\ t \in Tools
    BY <1>6, <1>9, LabelFits, RoutingAssumption
  <2>2. ~IsLocal(shown.name)
    <3> SUFFICES ASSUME IsLocal(shown.name) PROVE FALSE
      OBVIOUS
    <3>1. label \in DOMAIN o /\ shown.name = o[label]
      BY <1>7, <2>1 DEF Target
    <3>2. PICK h \in DOMAIN Handlers : \E k \in DOMAIN Handlers[h].tools :
            shown.name = Prefix(Handlers[h].id, Handlers[h].tools[k])
      BY <1>0, <3>1 DEF Meetless
    <3>3. PICK k \in DOMAIN Handlers[h].tools : shown.name = Prefix(Handlers[h].id, Handlers[h].tools[k])
      BY <3>2
    <3>4. PICK j \in 1..Len(items) : items[j] = LocalOf(Handlers[h].id, Handlers[h].tools[k])
      BY <1>2
    <3>5. items[j].name = shown.name
      BY <3>3, <3>4, ItemFields
    <3>6. shown.name \notin DOMAIN o
      BY <1>0 DEF Meetless
    <3>7. Target(items[j].name, o) = Target(items[i].name, o)
      BY <1>6, <1>7, <3>5, <3>6 DEF Target
    <3>8. items[j].name # items[i].name
      BY <1>6, <2>1, <3>5
    <3> QED BY <1>3, <3>7, <3>8
  <2>3. Inversions(shown.name, o) = {label}
    <3> DEFINE renamed == {name \in DOMAIN o : o[name] = shown.name}
    <3>1. Inversions(shown.name, o) = IF renamed = {} THEN {shown.name} ELSE renamed
      BY Zenon DEF Inversions
    <3>2. CASE label \in DOMAIN o
      <4>1. shown.name = o[label]
        BY <1>7, <3>2 DEF Target
      <4>2. renamed = {label}
        BY <1>0, <3>2, <4>1 DEF Meetless
      <4> HIDE DEF renamed
      <4> QED BY <3>1, <4>2
    <3>3. CASE label \notin DOMAIN o
      <4>1. shown.name = label
        BY <1>7, <3>3 DEF Target
      <4>2. renamed = {}
        BY <1>0, <1>9, <2>1, <3>3, <4>1 DEF Meetless
      <4> HIDE DEF renamed
      <4> QED BY <3>1, <4>1, <4>2
    <3> QED BY <3>2, <3>3
  <2>4. Destinations(shown.name, map) = {Home(label)}
    BY <1>0, <2>3 DEF Destinations, o
  <2> HIDE DEF label
  <2>5. Home(label) # Unresolved /\ Home(label)[1] = b /\ Home(label)[2] = t
    BY <1>6, <1>9, LabelFits DEF label
  <2> QED BY <1>6, <2>2, <2>4, <2>5 DEF Fits, LeadsTo
<1> QED
  BY <1>6, <1>8, <1>9

\* A name that leads somewhere still does when the reverse map has grown.
LEMMA LearnKeeps ==
  ASSUME NEW item, Fits(item, reverse)
  PROVE  Fits(item, Learn)
<1>1. CASE Strategy = "passthrough" /\ ~Single /\ ~IsLocal(item.name)
  <2>1. item.name \in DOMAIN reverse
    BY <1>1 DEF Fits
  <2>2. item.name \in DOMAIN Learn /\ Learn[item.name] = reverse[item.name]
    BY <1>1, <2>1 DEF Learn
  <2>3. Destinations(item.name, Learn) = Destinations(item.name, reverse)
    BY <1>1, <2>1, <2>2 DEF Destinations
  <2> QED BY <1>1, <2>2, <2>3 DEF Fits
<1>2. CASE Strategy # "passthrough" \/ Single
  BY <1>2 DEF Learn
<1>3. CASE IsLocal(item.name)
  BY <1>3 DEF Fits
<1> QED
  BY <1>1, <1>2, <1>3

LEMMA ApartNext ==
  ASSUME config' = config, NamesApart'
  PROVE  NamesApart
BY DEF NamesApart, Single, Strategy, IsLocal, Meetless

LEMMA FitsNext ==
  ASSUME config' = config, NEW item, NEW map, Fits(item, map), known' = item, reverse' = map
  PROVE  Fits(known, reverse)'
BY DEF Fits, LeadsTo, Destinations, Single, Strategy, IsLocal, Home

LEMMA KnownFitsNext ==
  ASSUME config' = config, known' = known, reverse' = reverse, KnownFits
  PROVE  KnownFits'
<1> SUFFICES ASSUME known # None, Resolvable(known.from) PROVE Fits(known, reverse)'
  BY DEF KnownFits
<1>1. Fits(known, reverse)
  BY DEF KnownFits
<1> QED
  BY <1>1, FitsNext

\* A call for the remembered name is sent where it leads.
LEMMA ForwardReaches ==
  ASSUME NEW value, NEW map, ~IsLocal(value),
         NEW to \in Destinations(value, map), Forward("call", value, to),
         known # None /\ Resolvable(known.from) /\ value = known.name => Fits(known, map),
         config' = config, known' = known
  PROVE  ReachesLister'
<1>1. known # None /\ Resolvable(known.from) /\ value = known.name => to # Unresolved /\ Leads(to[1], to[2])
  BY DEF Fits, LeadsTo, Leads
<1>2. \A b, t : Leads(b, t)' <=> Leads(b, t)
  BY DEF Leads, Strategy
<1>3. CASE to = Unresolved
  BY <1>1, <1>3 DEF Forward, ReachesLister, Reached, Idle
<1>4. CASE to # Unresolved /\ ~Admits(to[1])
  BY <1>4 DEF Forward, ReachesLister, Reached, Idle
<1>5. CASE to # Unresolved /\ Admits(to[1])
  <2>1. job' = [op |-> "call", value |-> value, to |-> to[1], original |-> to[2]] /\ reply' = NoReply
    BY <1>5 DEF Forward
  <2>2. job'.value = value /\ job'.to = to[1] /\ job'.original = to[2] /\ reply'.kind = "none"
    BY <2>1 DEF NoReply
  <2> QED BY <1>1, <1>2, <2>2 DEF ReachesLister, Reached, Leads, Strategy
<1> QED
  BY <1>3, <1>4, <1>5

\* The actions that leave known, the call in hand and the last reply as they are.
LEMMA ReachUnchanged ==
  ASSUME ReachInv, config' = config, known' = known, reverse' = reverse,
         reply' = reply \/ reply'.kind \notin {"served", "unknown"} \/ reply'.op # "call",
         job'.op # "call" \/ job' = job,
         job'.op = "warm" => job.op = "warm" /\ job'.value = job.value
  PROVE  ReachInv'
<1> SUFFICES ASSUME NamesApart' PROVE ReachInv'
  BY DEF ReachInv
<1>1. NamesApart
  BY ApartNext
<1>2. KnownFits
  BY <1>1 DEF ReachInv
<1>3. KnownFits'
  BY <1>2, KnownFitsNext
<1>4. (job.op = "warm" => ~IsLocal(job.value) /\ ~Single /\ job.value \notin DOMAIN reverse)'
  BY <1>1 DEF ReachInv, IsLocal, Single
<1>5. ReachesLister'
  BY <1>1 DEF ReachInv, ReachesLister, Reached, Leads, Strategy
<1> QED
  BY <1>3, <1>4, <1>5 DEF ReachInv

LEMMA ComposeReaches ==
  ASSUME FetchInv, TaskInv, ListingInv, ReachInv, Compose
  PROVE  ReachInv'
<1> SUFFICES ASSUME NamesApart' PROVE ReachInv'
  BY DEF ReachInv
<1>1. /\ config' = config /\ reverse' = Learn /\ job' = Idle /\ reply'.kind = "list"
      /\ Fetched /\ ~Clashing
  BY DEF Compose
<1>2. NamesApart /\ PagesFit
  BY <1>1, ApartNext, AnswersAre
<1>3. KnownFits'
  <2>0. SUFFICES ASSUME known' # None, Resolvable(known'.from) PROVE Fits(known, reverse)'
    BY DEF KnownFits
  <2>1. CASE known' = known
    <3>1. Fits(known, Learn)
      BY <1>2, <2>0, <2>1, LearnKeeps DEF ReachInv, KnownFits
    <3> QED BY <1>1, <2>1, <3>1, FitsNext
  <2>2. CASE \E item \in Candidates : Exposed(item) \in ToSet(Shown) /\ known' = Exposed(item)
    <3>1. PICK item \in Candidates : Exposed(item) \in ToSet(Shown) /\ known' = Exposed(item)
      BY <2>2
    <3>2. Fits(Exposed(item), Learn)
      <4>1. CASE Single \/ Strategy \notin {"manual", "passthrough"}
        BY <1>2, <2>0, <3>1, <4>1, LabelledFits
      <4>2. CASE ~Single /\ Strategy = "passthrough"
        BY <1>2, <2>0, <3>1, <4>2, PassedFits
      <4>3. CASE Strategy = "manual"
        BY <1>1, <1>2, <2>0, <3>1, <4>3, RenamedFits
      <4> QED BY <4>1, <4>2, <4>3
    <3> QED BY <1>1, <3>1, <3>2, FitsNext
  <2> QED BY <2>1, <2>2 DEF Compose
<1>4. ReachesLister'
  BY <1>1 DEF ReachesLister, Reached, Idle
<1> QED
  BY <1>1, <1>3, <1>4 DEF ReachInv, Idle

LEMMA CallReaches ==
  ASSUME ReachInv, NEW value, CallLocal(value) \/ RequestCall(value) \/ WarmUp(value)
  PROVE  ReachInv'
<1> SUFFICES ASSUME NamesApart' PROVE ReachInv'
  BY DEF ReachInv
<1>1. config' = config /\ known' = known /\ reverse' = reverse
  BY DEF CallLocal, RequestCall, WarmUp, client
<1>2. NamesApart
  BY <1>1, ApartNext
<1>3. KnownFits
  BY <1>2 DEF ReachInv
<1>4. KnownFits'
  BY <1>1, <1>3, KnownFitsNext
<1>5. CASE CallLocal(value)
  <2>1. /\ reply' = [kind |-> "served", op |-> "call", value |-> value, to |-> Split(value)[1],
                     original |-> Split(value)[2]]
        /\ job' = job /\ IsLocal(value)
    BY <1>5 DEF CallLocal
  <2>2. reply'.kind = "served" /\ reply'.value = value /\ reply'.to = Split(value)[1] /\ reply'.original = Split(value)[2]
    BY <2>1
  <2>3. known # None /\ Resolvable(known.from) /\ value = known.name => Leads(Split(value)[1], Split(value)[2])
    BY <1>3, <2>1 DEF KnownFits, Fits, LeadsTo, Leads
  <2>4. job' = Idle
    BY <1>5, <2>1 DEF CallLocal, Begin
  <2>5. ReachesLister'
    BY <1>1, <2>2, <2>3, <2>4 DEF ReachesLister, Reached, Leads, Strategy, Idle
  <2> QED BY <1>4, <2>4, <2>5 DEF ReachInv, Idle
<1>6. CASE RequestCall(value)
  <2>1. PICK to \in Destinations(value, reverse) : Forward("call", value, to)
    BY <1>6 DEF RequestCall
  <2>2. ReachesLister'
    BY <1>1, <1>3, <1>6, <2>1, ForwardReaches DEF RequestCall, KnownFits
  <2>3. job'.op # "warm"
    BY <2>1 DEF Forward, Idle
  <2> QED BY <1>4, <2>2, <2>3 DEF ReachInv
<1>7. CASE WarmUp(value)
  <2>1. /\ job'.op = "warm" /\ job'.value = value /\ reply'.kind = "none"
        /\ ~IsLocal(value) /\ ~Single /\ value \notin DOMAIN reverse
    BY <1>7 DEF WarmUp, Fetch, NoReply, Cold
  <2>2. ReachesLister'
    BY <2>1 DEF ReachesLister, Reached
  <2> QED BY <1>1, <1>4, <2>1, <2>2 DEF ReachInv, IsLocal, Single
<1> QED
  BY <1>5, <1>6, <1>7

\* A warm-up is never for the name the client remembers.
LEMMA WarmedReaches ==
  ASSUME FetchInv, TaskInv, ReachInv, WarmedUp
  PROVE  ReachInv'
<1> SUFFICES ASSUME NamesApart' PROVE ReachInv'
  BY DEF ReachInv
<1>1. config' = config /\ known' = known /\ reverse' = Learn /\ job.op = "warm"
  BY DEF WarmedUp, client
<1>2. NamesApart
  BY <1>1, ApartNext
<1>3. KnownFits
  BY <1>2 DEF ReachInv
<1>4. KnownFits'
  <2> SUFFICES ASSUME known # None, Resolvable(known.from) PROVE Fits(known, reverse)'
    BY <1>1 DEF KnownFits
  <2>1. Fits(known, Learn)
    BY <1>3, LearnKeeps DEF KnownFits
  <2> QED BY <1>1, <2>1, FitsNext
<1>5. ~IsLocal(job.value) /\ ~Single /\ job.value \notin DOMAIN reverse /\ Strategy = "passthrough"
  BY <1>1, <1>2 DEF ReachInv, FetchInv
<1>6. known # None /\ Resolvable(known.from) => job.value # known.name
  BY <1>3, <1>5 DEF KnownFits, Fits
<1> DEFINE value == job.value
<1>7. PICK to \in Destinations(value, reverse') : Forward("call", value, to)
  BY DEF WarmedUp
<1>8. ~IsLocal(value) /\ (known # None /\ Resolvable(known.from) => value # known.name)
  BY <1>5, <1>6
<1> HIDE DEF value
<1>9. ReachesLister'
  BY <1>1, <1>7, <1>8, ForwardReaches
<1>10. job'.op # "warm"
  BY <1>7 DEF Forward, Idle
<1> QED
  BY <1>4, <1>9, <1>10 DEF ReachInv

LEMMA ServedReaches ==
  ASSUME ReachInv, NEW t, AnswerCall \/ AnswerTask(t)
  PROVE  ReachInv'
<1> SUFFICES ASSUME NamesApart' PROVE ReachInv'
  BY DEF ReachInv
<1>1. /\ config' = config /\ known' = known /\ reverse' = reverse /\ job.op = "call" /\ job' = Idle
      /\ reply' = Served
  BY DEF AnswerCall, AnswerTask, client
<1>2. NamesApart
  BY <1>1, ApartNext
<1>3. KnownFits'
  BY <1>1, <1>2, KnownFitsNext DEF ReachInv
<1>4. /\ reply'.kind = "served" /\ reply'.value = job.value /\ reply'.to = job.to
      /\ reply'.original = job.original
  BY <1>1 DEF Served
<1>5. ReachesLister'
  BY <1>1, <1>2, <1>4 DEF ReachInv, ReachesLister, Reached, Leads, Strategy, Idle
<1> QED
  BY <1>1, <1>3, <1>5 DEF ReachInv, Idle

LEMMA ReachStep ==
  ASSUME FetchInv, TaskInv, ListingInv, ReachInv, [Next]_vars
  PROVE  ReachInv'
<1>1. CASE UNCHANGED vars
  BY <1>1, ReachUnchanged DEF vars, client
<1>2. ASSUME NEW v, NEW c, RequestList(v, c) \/ RefuseList(v, c) PROVE ReachInv'
  BY <1>2, ReachUnchanged DEF RequestList, RefuseList, Fetch, NoReply, client
<1>3. ASSUME NEW b, AnswerList(b) \/ ErrorList(b) \/ FailList(b) PROVE ReachInv'
  <2>1. /\ config' = config /\ known' = known /\ reply' = reply
        /\ Fetching /\ \E page, quiet : job' = Ongoing(Received(b, page), quiet)
    BY <1>3, AnswerKeeps
  <2>2. job'.op = job.op /\ job'.value = job.value /\ job.op # "call"
    BY <2>1 DEF Ongoing, Fetching
  <2>3. reverse' = reverse
    BY <1>3 DEF AnswerList, ErrorList, FailList
  <2> QED BY <2>1, <2>2, <2>3, ReachUnchanged
<1>4. CASE Compose
  BY <1>4, ComposeReaches
<1>5. CASE RefuseClash \/ End
  BY <1>5, ReachUnchanged DEF RefuseClash, End, Idle, Ended, client
<1>6. ASSUME NEW value, CallLocal(value) PROVE ReachInv'
  BY <1>6, CallReaches
<1>7. ASSUME NEW value, RequestCall(value) PROVE ReachInv'
  BY <1>7, CallReaches
<1>8. ASSUME NEW value, WarmUp(value) PROVE ReachInv'
  BY <1>8, CallReaches
<1>9. CASE WarmedUp
  BY <1>9, WarmedReaches
<1>10. ASSUME NEW t, AnswerCall \/ AnswerTask(t) PROVE ReachInv'
  BY <1>10, ServedReaches
<1>11. CASE FailForwarded
  BY <1>11, ReachUnchanged DEF FailForwarded, Idle, Ended, client
<1>12. CASE PollTask
  <2>1. /\ config' = config /\ known' = known /\ reverse' = reverse
        /\ Forward("task", handle.id, Home(handle.id))
    BY <1>12 DEF PollTask, client
  <2>2. job'.op \in {"idle", "task"} /\ (reply'.kind \notin {"served", "unknown"} \/ reply'.op # "call")
    BY <2>1 DEF Forward, Idle, NoReply
  <2> QED BY <2>1, <2>2, ReachUnchanged
<1>13. CASE AnswerPoll
  BY <1>13, ReachUnchanged DEF AnswerPoll, Served, Idle
<1>14. ASSUME NEW b, NEW tools, Offer(b, tools) \/ Flap(b) PROVE ReachInv'
  <2>1. Disturb
    BY <1>14 DEF Offer, Flap
  <2>2. job' = job \/ (Fetching /\ job'.op = job.op /\ job'.value = job.value)
    BY <2>1 DEF Disturb, Ongoing
  <2> QED BY <2>1, <2>2, ReachUnchanged DEF Disturb, Fetching
<1> QED
  BY <1>1, <1>2, <1>3, <1>4, <1>5, <1>6, <1>7, <1>8, <1>9, <1>10, <1>11, <1>12, <1>13, <1>14
  DEF Next

(***************************************************************************)
(* Theorems                                                                *)
(***************************************************************************)
RoutingInv == FetchInv /\ CursorInv /\ TaskInv /\ ListingInv /\ ReachInv
LEMMA RoutingInvariant == Spec => []RoutingInv
<1>1. Init => RoutingInv
  BY FetchInit, CursorInit, TaskInit, ListingInit, ReachInit DEF RoutingInv
<1>2. RoutingInv /\ [Next]_vars => RoutingInv'
  BY FetchStep, CursorStep, TaskStep, ListingStep, ReachStep DEF RoutingInv
<1> QED
  BY <1>1, <1>2, PTL DEF Spec

\* A tool that was listed is called where it was listed, under its own name there, whatever
\* the strategy that composed the list, as long as the tools and the renames keep clear of
\* each other's names (route_call inverts what collect, aggregate and resolve_manual made).
\* The ids are any that the configuration accepts; it is so of each lister whose own id
\* does not end in an underscore, and false of the others (namespace.rs).
THEOREM ReachesListerWhenApart == Spec => [](NamesApart => ReachesLister)
<1>1. RoutingInv => (NamesApart => ReachesLister)
  BY DEF RoutingInv, ReachInv
<1> QED
  BY <1>1, RoutingInvariant, PTL

\* Whoever is not asked by a list that nothing disturbs has its breaker open, and still has
\* when the answers are in.
DueInv ==
  Fetching /\ job.quiet => \A b \in Due : b \in DOMAIN job.params \/ (config.resilient /\ b \notin up)

LEMMA FetchIsDue ==
  ASSUME NEW op, NEW v, NEW c, NEW value, job' = Fetch(op, v, c, value), config' = config, up' = up
  PROVE  DueInv'
<1>1. job'.cursor = c /\ DOMAIN job'.params = Asked(c)
  BY DEF Fetch
<1> QED
  BY <1>1 DEF DueInv, Due, Asked, Admits

\* A step that leaves no undisturbed fetch in hand, or the same one and no breaker closed.
LEMMA DueUnchanged ==
  ASSUME DueInv, config' = config, up' \subseteq up,
         \/ job' = job \/ job'.op \notin {"list", "warm"} \/ ~job'.quiet
         \/ /\ Fetching /\ job'.quiet = job.quiet
            /\ job'.cursor = job.cursor /\ job'.params = job.params
  PROVE  DueInv'
BY DEF DueInv, Due, Fetching

LEMMA DueStep ==
  ASSUME DueInv, [Next]_vars
  PROVE  DueInv'
<1>1. CASE UNCHANGED vars
  BY <1>1, DueUnchanged DEF vars, backends
<1>2. ASSUME NEW v, NEW c, RequestList(v, c) PROVE DueInv'
  BY <1>2, FetchIsDue DEF RequestList, backends
<1>3. ASSUME NEW v, NEW c, RefuseList(v, c) PROVE DueInv'
  BY <1>3, DueUnchanged DEF RefuseList, backends
<1>4. ASSUME NEW b, AnswerList(b) \/ ErrorList(b) \/ FailList(b) PROVE DueInv'
  <2>1. config' = config /\ Fetching
    BY <1>4, AnswerKeeps
  <2>2. up' \subseteq up
    BY <1>4 DEF AnswerList, ErrorList, FailList, Weaken, backends
  <2>3. \E page : \E quiet \in {job.quiet, FALSE} : job' = Ongoing(Received(b, page), quiet)
    <3>1. CASE AnswerList(b)
      BY <3>1, Zenon DEF AnswerList
    <3>2. CASE ErrorList(b)
      BY <3>2, Zenon DEF ErrorList
    <3>3. CASE FailList(b)
      BY <3>3, Zenon DEF FailList
    <3> QED BY <1>4, <3>1, <3>2, <3>3
  <2>4. job'.cursor = job.cursor /\ job'.params = job.params /\ (job'.quiet = job.quiet \/ ~job'.quiet)
    <3>1. PICK page : \E quiet \in {job.quiet, FALSE} : job' = Ongoing(Received(b, page), quiet)
      BY <2>3
    <3>2. PICK quiet \in {job.quiet, FALSE} : job' = Ongoing(Received(b, page), quiet)
      BY <3>1
    <3>3. job'.cursor = job.cursor /\ job'.params = job.params /\ job'.quiet = quiet
      BY <3>2 DEF Ongoing
    <3>4. CASE quiet = job.quiet
      BY <3>3, <3>4
    <3>5. CASE quiet = FALSE
      BY <3>3, <3>5
    <3> QED BY <3>2, <3>3, <3>4, <3>5
  <2> QED
    BY <2>1, <2>2, <2>4, DueUnchanged
<1>5. CASE Compose \/ RefuseClash \/ End \/ AnswerCall \/ AnswerPoll
  <2>1. config' = config /\ job' \in {Idle, Ended} /\ up' = up
    BY <1>5 DEF Compose, RefuseClash, End, AnswerCall, AnswerPoll, backends
  <2> QED
    BY <2>1, DueUnchanged DEF Idle, Ended
<1>6. ASSUME NEW value, CallLocal(value) PROVE DueInv'
  BY <1>6, DueUnchanged DEF CallLocal, backends
<1>7. ASSUME NEW value, RequestCall(value) PROVE DueInv'
  <2>1. config' = config /\ up' = up /\ \E to : Forward("call", value, to)
    BY <1>7 DEF RequestCall, backends
  <2> QED
    BY <2>1, ForwardStops, DueUnchanged
<1>8. ASSUME NEW value, WarmUp(value) PROVE DueInv'
  BY <1>8, FetchIsDue DEF WarmUp, backends
<1>9. CASE WarmedUp
  <2>1. config' = config /\ up' = up /\ \E to : Forward("call", job.value, to)
    BY <1>9 DEF WarmedUp, backends
  <2> QED
    BY <2>1, ForwardStops, DueUnchanged
<1>10. ASSUME NEW t, AnswerTask(t) PROVE DueInv'
  BY <1>10, DueUnchanged DEF AnswerTask, Idle
<1>11. CASE FailForwarded
  BY <1>11, DueUnchanged DEF FailForwarded, Weaken, Idle, Ended
<1>12. CASE PollTask
  BY <1>12, ForwardStops, DueUnchanged DEF PollTask, backends
<1>13. ASSUME NEW b, NEW tools, Offer(b, tools) \/ Flap(b) PROVE DueInv'
  <2>1. Disturb
    BY <1>13 DEF Offer, Flap
  <2>2. CASE Fetching
    <3>1. ~job'.quiet
      BY <2>1, <2>2 DEF Disturb, Ongoing
    <3> QED BY <3>1 DEF DueInv
  <2>3. CASE ~Fetching
    <3>1. job' = job
      BY <2>1, <2>3 DEF Disturb
    <3> QED BY <2>3, <3>1 DEF DueInv, Fetching
  <2> QED BY <2>2, <2>3
<1> QED
  BY <1>1, <1>2, <1>3, <1>4, <1>5, <1>6, <1>7, <1>8, <1>9, <1>10, <1>11, <1>12, <1>13 DEF Next

\* No list leaves out a backend it asked without saying so, however the breakers move while
\* the answers come in; and one that nothing disturbed leaves out nobody it is about (collect,
\* aggregate).
THEOREM NobodyLeftOutSilently == Spec => []LeftOutIsTold
<1>1. Init => DueInv /\ LeftOutIsTold
  BY DEF Init, NoReply, Idle, Fetching, DueInv, LeftOutIsTold
<1>2. DueInv /\ LeftOutIsTold /\ [Next]_vars => DueInv' /\ LeftOutIsTold'
  <2> SUFFICES ASSUME DueInv, LeftOutIsTold, [Next]_vars PROVE LeftOutIsTold'
    BY DueStep
  <2>1. CASE reply' = reply \/ reply'.kind # "list"
    BY <2>1 DEF LeftOutIsTold
  <2>2. CASE Compose
    <3>1. /\ reply'.asked = DOMAIN job.params /\ reply'.answered = Answered
          /\ reply'.unavailable = Unavailable /\ reply'.due = Due /\ reply'.quiet = job.quiet
          /\ DOMAIN job.got = DOMAIN job.params /\ ~Fatal /\ Fetching
      BY <2>2 DEF Compose, Fetched
    <3>2. DOMAIN job.params \subseteq Answered \cup Unavailable
      BY <3>1 DEF Fatal, Unavailable
    <3>3. \A b \in Ids : config.resilient /\ b \notin up => b \in Unavailable
      BY DEF Unavailable
    <3>4. job.quiet => Due \subseteq Answered \cup Unavailable
      BY <3>1, <3>2, <3>3 DEF DueInv, Due
    <3> QED
      BY <3>1, <3>2, <3>4 DEF LeftOutIsTold
  <2>3. ASSUME NEW op, NEW value, NEW to, Forward(op, value, to) PROVE reply'.kind # "list"
    BY <2>3 DEF Forward, NoReply
  <2>4. ASSUME NEW v, NEW c, RequestList(v, c) \/ RefuseList(v, c) PROVE reply'.kind # "list"
    BY <2>4 DEF RequestList, RefuseList, NoReply
  <2>5. ASSUME NEW b, AnswerList(b) \/ ErrorList(b) \/ FailList(b) PROVE reply' = reply
    BY <2>5, AnswerKeeps
  <2>6. CASE RefuseClash \/ AnswerCall \/ AnswerPoll \/ End \/ FailForwarded
    BY <2>1, <2>6 DEF RefuseClash, AnswerCall, AnswerPoll, End, FailForwarded, Served
  <2>7. ASSUME NEW value, CallLocal(value) \/ RequestCall(value) \/ WarmUp(value)
        PROVE  reply'.kind # "list"
    BY <2>3, <2>7 DEF CallLocal, RequestCall, WarmUp, NoReply
  <2>8. CASE WarmedUp \/ PollTask
    BY <2>1, <2>3, <2>8 DEF WarmedUp, PollTask
  <2>9. ASSUME NEW t, AnswerTask(t) PROVE reply'.kind # "list"
    BY <2>9 DEF AnswerTask, Served
  <2>10. ASSUME NEW b, NEW tools, Offer(b, tools) \/ Flap(b) PROVE reply' = reply
    BY <2>10 DEF Offer, Flap, Disturb
  <2>11. CASE UNCHANGED vars
    BY <2>1, <2>11 DEF vars
  <2> QED
    BY <2>1, <2>2, <2>4, <2>5, <2>6, <2>7, <2>8, <2>9, <2>10, <2>11 DEF Next
<1> QED
  BY <1>1, <1>2, PTL DEF Spec

\* A backend is asked for no page but one it offered itself under the variant it is asked
\* for now, whatever cursor and variant the client combines (bind_cursor, resolve_cursor).
THEOREM CursorsStayBound == Spec => []CursorStaysBound
<1>1. RoutingInv => CursorStaysBound
  BY DEF RoutingInv, CursorInv, CursorStaysBound, Mine
<1> QED
  BY <1>1, RoutingInvariant, PTL

\* A task is polled where it runs, under its own id, however it was labelled and relabelled
\* on the way, and no handle the client was given is unknown, whatever the other ids are; the
\* id of the backend that runs it may not end in an underscore (namespace_task_id,
\* resolve_task).
THEOREM HandlesGoHome == Spec => []TasksGoHome
<1>1. RoutingInv => TasksGoHome
  BY DEF RoutingInv, TaskInv
<1> QED
  BY <1>1, RoutingInvariant, PTL

\* A client that follows the cursors of a list to their end while nothing changes has seen
\* every tool of every backend once, or under priority its best ranked copy at least
\* (aggregate, bind_cursor, resolve_cursor, apply_priority).
THEOREM ListingsAreComplete == ASSUME Tidy PROVE Spec => [](Ranked => ChainComplete)
<1>1. ListingInv => (Ranked => ChainComplete)
  <2> SUFFICES ASSUME ListingInv, Ranked, chain # None, chain.cursor = None,
                      NEW b \in Ids, NEW tool \in ToSet(surface[b])
               PROVE  LET copies == {i \in DOMAIN chain.items : chain.items[i].original = tool} IN
                      IF Strategy = "priority"
                      THEN \E i \in copies : Rank(chain.items[i].name, config.priority)
                                                <= Rank(Prefix(b, tool), config.priority)
                      ELSE Cardinality({i \in copies : chain.items[i].from = b}) = 1
    BY DEF ChainComplete
  <2> DEFINE items == chain.items
             s == surface[b]
  <2>1. IsSeq(items) /\ Covers(items, b, s, 1, Upto(None, b, s), config)
    BY DEF ListingInv, ChainOf
  <2>2. Upto(None, b, s) = Len(s) + 1
    BY DEF Upto, Composite
  <2>3. DOMAIN items = 1..Len(items)
    BY <2>1, IsSeqOf
  <2>4. s \in Seq(Tools)
    BY SurfacesAre
  <2>5. PICK k \in 1..Len(s) : tool = s[k]
    <3>1. DOMAIN s = 1..Len(s)
      BY <2>4
    <3> QED BY <3>1 DEF ToSet
  <2>6. 1 <= k /\ k < Len(s) + 1
    BY <2>4
  <2> HIDE DEF items, s
  <2>7. CASE Strategy = "priority"
    <3>1. AtBest(items, b, s, 1, Len(s) + 1, config.priority)
      BY <2>1, <2>2, <2>7 DEF Covers, Strategy
    <3>2. PICK i \in 1..Len(items) :
            items[i].original = tool /\ Rank(items[i].name, config.priority) <= Rank(Prefix(b, tool), config.priority)
      BY <2>5, <2>6, <3>1 DEF AtBest
    <3> QED BY <2>3, <2>7, <3>2 DEF items
  <2>8. CASE Strategy # "priority"
    <3>1. Once(items, b, s, 1, Len(s) + 1)
      BY <2>1, <2>2, <2>8 DEF Covers, Strategy
    <3>2. PICK i \in 1..Len(items) : items[i].from = b /\ items[i].original = tool
      BY <2>5, <2>6, <3>1 DEF Once
    <3> DEFINE mine == {j \in {l \in DOMAIN items : items[l].original = tool} : items[j].from = b}
    <3>3. mine = {i}
      BY <2>3, <3>1, <3>2 DEF Once
    <3> HIDE DEF mine
    <3>4. Cardinality(mine) = 1
      BY <3>3, FS_Singleton
    <3> QED BY <2>8, <3>4 DEF mine, items
  <2> QED BY <2>7, <2>8
<1> QED
  BY <1>1, RoutingInvariant, PTL DEF RoutingInv
===============================================================================
