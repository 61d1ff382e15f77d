--------------------------- MODULE ConnectionProofs ----------------------------
(***************************************************************************)
(* What holds of RouteLoop for any backends and any load, and of the log   *)
(* that the connections share for any entries and any filter chain.        *)
(***************************************************************************)
EXTENDS RouteLoop, Accountability, SequenceTheorems, WellFoundedInduction, FiniteSetTheorems,
        TLAPS

-------------------------------------------------------------------------------
\* Pipes are sequences whatever their messages are.
IsSeq(s) == \E S : s \in Seq(S)

LEMMA EmptyIs == IsSeq(<<>>) /\ DOMAIN <<>> = {} /\ Len(<<>>) = 0
<1>1. <<>> \in Seq({})
  OBVIOUS
<1> QED BY <1>1 DEF IsSeq

LEMMA SeqIs ==
  ASSUME NEW s, IsSeq(s)
  PROVE  Len(s) \in Nat /\ DOMAIN s = 1..Len(s) /\ (s = <<>> <=> Len(s) = 0)
<1>1. PICK S : s \in Seq(S)
  BY DEF IsSeq
<1> QED BY <1>1

Extended(s, e, t) == t = Append(s, e)
Dropped(s, t) == s # <<>> /\ t = Tail(s)

LEMMA AppendIs ==
  ASSUME NEW s, NEW e, NEW t, IsSeq(s), Extended(s, e, t)
  PROVE  /\ IsSeq(t) /\ Len(t) = Len(s) + 1 /\ Len(s) \in Nat
         /\ \A i \in DOMAIN s : i \in DOMAIN t /\ t[i] = s[i] /\ i < Len(t) /\ i \in Nat \ {0}
         /\ \A i \in DOMAIN t : i \in DOMAIN s \/ i = Len(t)
         /\ Len(t) \in DOMAIN t /\ t[Len(t)] = e /\ Len(t) \notin DOMAIN s
<1>1. PICK S : s \in Seq(S)
  BY DEF IsSeq
<1>2. s \in Seq(S \cup {e}) /\ e \in S \cup {e}
  BY <1>1
<1>3. t \in Seq(S \cup {e}) /\ Len(t) = Len(s) + 1 /\ Len(s) \in Nat
  BY <1>2 DEF Extended
<1>4. DOMAIN s = 1..Len(s) /\ DOMAIN t = 1..Len(t)
  BY <1>1, <1>3
<1>5. t[Len(t)] = e /\ \A i \in 1..Len(s) : t[i] = s[i]
  BY <1>2, <1>3 DEF Extended
<1> QED BY <1>3, <1>4, <1>5 DEF IsSeq

LEMMA TailIs ==
  ASSUME NEW s, NEW t, IsSeq(s), Dropped(s, t)
  PROVE  /\ IsSeq(t) /\ Len(t) = Len(s) - 1 /\ Len(s) \in Nat \ {0}
         /\ 1 \in DOMAIN s /\ Head(s) = s[1]
         /\ \A i \in DOMAIN t : i \in Nat \ {0} /\ i + 1 \in DOMAIN s /\ t[i] = s[i + 1]
         /\ \A i \in DOMAIN s : i = 1 \/ (i \in Nat \ {0, 1} /\ i - 1 \in DOMAIN t /\ t[i - 1] = s[i])
<1>1. PICK S : s \in Seq(S)
  BY DEF IsSeq
<1>2. t \in Seq(S) /\ Len(t) = Len(s) - 1 /\ Len(s) \in Nat \ {0}
  BY <1>1 DEF Dropped
<1>3. DOMAIN s = 1..Len(s) /\ DOMAIN t = 1..Len(t)
  BY <1>1, <1>2
<1>4. Head(s) = s[1] /\ \A i \in 1..Len(t) : t[i] = s[i + 1]
  BY <1>1, <1>2 DEF Dropped
<1> QED BY <1>2, <1>3, <1>4 DEF IsSeq

\* What a pipe says of a request: that it holds a message of these kinds about it, and at
\* most one; requests of the client come in the order of their numbers.
Number(m) == IF m.kind \in {"reply", "cancel", "ask"} THEN m.orig ELSE m.n
In(s, kinds, n) == \E i \in DOMAIN s : s[i].kind \in kinds /\ Number(s[i]) = n
Sole(s, kinds) ==
  \A i, j \in DOMAIN s :
    s[i].kind \in kinds /\ s[j].kind \in kinds /\ Number(s[i]) = Number(s[j]) => i = j
Increasing(s) ==
  \A i, j \in DOMAIN s : i < j /\ s[i].kind = "request" /\ s[j].kind = "request" =>
    s[i].n \in Nat /\ s[j].n \in Nat /\ s[i].n < s[j].n

LEMMA InEmpty == \A kinds : (\A n : ~In(<<>>, kinds, n)) /\ Sole(<<>>, kinds) /\ Increasing(<<>>)
  BY EmptyIs DEF In, Sole, Increasing

LEMMA InPut ==
  ASSUME NEW s, NEW e, NEW t, IsSeq(s), Extended(s, e, t), NEW kinds
  PROVE  /\ \A n : In(t, kinds, n) <=> In(s, kinds, n) \/ (e.kind \in kinds /\ Number(e) = n)
         /\ Sole(s, kinds) /\ (e.kind \in kinds => ~In(s, kinds, Number(e))) => Sole(t, kinds)
<1>1. /\ \A i \in DOMAIN s : i \in DOMAIN t /\ t[i] = s[i]
      /\ \A i \in DOMAIN t : i \in DOMAIN s \/ i = Len(t)
      /\ Len(t) \in DOMAIN t /\ t[Len(t)] = e
  BY AppendIs
<1>2. ASSUME NEW n PROVE In(t, kinds, n) <=> In(s, kinds, n) \/ (e.kind \in kinds /\ Number(e) = n)
  BY <1>1 DEF In
<1>3. ASSUME Sole(s, kinds), e.kind \in kinds => ~In(s, kinds, Number(e)),
             NEW i \in DOMAIN t, NEW j \in DOMAIN t,
             t[i].kind \in kinds, t[j].kind \in kinds, Number(t[i]) = Number(t[j])
      PROVE  i = j
  BY <1>1, <1>3 DEF Sole, In
<1> QED BY <1>2, <1>3 DEF Sole

LEMMA InTake ==
  ASSUME NEW s, NEW t, IsSeq(s), Dropped(s, t), NEW kinds
  PROVE  /\ \A n : In(s, kinds, n) <=> In(t, kinds, n) \/ (Head(s).kind \in kinds /\ Number(Head(s)) = n)
         /\ Sole(s, kinds) => /\ Sole(t, kinds)
                              /\ Head(s).kind \in kinds => ~In(t, kinds, Number(Head(s)))
<1>1. /\ 1 \in DOMAIN s /\ Head(s) = s[1]
      /\ \A i \in DOMAIN t : i \in Nat \ {0} /\ i + 1 \in DOMAIN s /\ t[i] = s[i + 1]
      /\ \A i \in DOMAIN s : i = 1 \/ (i \in Nat \ {0, 1} /\ i - 1 \in DOMAIN t /\ t[i - 1] = s[i])
  BY TailIs
<1>2. ASSUME NEW n
      PROVE  In(s, kinds, n) <=> In(t, kinds, n) \/ (Head(s).kind \in kinds /\ Number(Head(s)) = n)
  <2>1. ASSUME In(s, kinds, n)
        PROVE  In(t, kinds, n) \/ (Head(s).kind \in kinds /\ Number(Head(s)) = n)
    BY <1>1, <2>1 DEF In
  <2>2. ASSUME In(t, kinds, n) PROVE In(s, kinds, n)
    BY <1>1, <2>2 DEF In
  <2> QED BY <1>1, <2>1, <2>2 DEF In
<1>3. ASSUME Sole(s, kinds), NEW i \in DOMAIN t, NEW j \in DOMAIN t,
             t[i].kind \in kinds, t[j].kind \in kinds, Number(t[i]) = Number(t[j])
      PROVE  i = j
  <2>1. i + 1 = j + 1
    BY <1>1, <1>3 DEF Sole
  <2> QED BY <1>1, <2>1
<1>4. ASSUME Sole(s, kinds), Head(s).kind \in kinds PROVE ~In(t, kinds, Number(Head(s)))
  <2>1. ASSUME NEW i \in DOMAIN t, t[i].kind \in kinds, Number(t[i]) = Number(Head(s)) PROVE FALSE
    <3>1. i + 1 = 1
      BY <1>1, <1>4, <2>1 DEF Sole
    <3> QED BY <1>1, <3>1
  <2> QED BY <2>1 DEF In
<1> QED BY <1>2, <1>3, <1>4 DEF Sole

LEMMA IncreasingPut ==
  ASSUME NEW s, NEW e, NEW t, IsSeq(s), Extended(s, e, t), Increasing(s),
         e.kind = "request" => e.n \in Nat /\ \A n : In(s, {"request"}, n) => n \in Nat /\ n < e.n
  PROVE  Increasing(t)
<1>1. /\ \A i \in DOMAIN s : i \in DOMAIN t /\ t[i] = s[i] /\ i < Len(t) /\ i \in Nat \ {0}
      /\ \A i \in DOMAIN t : i \in DOMAIN s \/ i = Len(t)
      /\ Len(t) \in DOMAIN t /\ t[Len(t)] = e /\ Len(t) \in Nat
  BY AppendIs
<1>2. \A i \in DOMAIN s : s[i].kind = "request" => In(s, {"request"}, s[i].n)
  BY DEF In, Number
<1>3. ASSUME NEW i \in DOMAIN t, NEW j \in DOMAIN t, i < j, t[i].kind = "request", t[j].kind = "request"
      PROVE  t[i].n \in Nat /\ t[j].n \in Nat /\ t[i].n < t[j].n
  <2>1. i \in DOMAIN s
    BY <1>1, <1>3
  <2>2. CASE j \in DOMAIN s
    BY <1>1, <1>3, <2>1, <2>2 DEF Increasing
  <2>3. CASE j = Len(t)
    BY <1>1, <1>2, <1>3, <2>1, <2>3
  <2> QED BY <1>1, <1>3, <2>2, <2>3
<1> QED BY <1>3 DEF Increasing

LEMMA IncreasingTake ==
  ASSUME NEW s, NEW t, IsSeq(s), Dropped(s, t), Increasing(s)
  PROVE  /\ Increasing(t)
         /\ Head(s).kind = "request" => \A n : In(t, {"request"}, n) =>
              Head(s).n \in Nat /\ n \in Nat /\ Head(s).n < n
<1>1. /\ 1 \in DOMAIN s /\ Head(s) = s[1]
      /\ \A i \in DOMAIN t : i \in Nat \ {0} /\ i + 1 \in DOMAIN s /\ t[i] = s[i + 1]
  BY TailIs
<1>2. ASSUME NEW i \in DOMAIN t, NEW j \in DOMAIN t, i < j, t[i].kind = "request", t[j].kind = "request"
      PROVE  t[i].n \in Nat /\ t[j].n \in Nat /\ t[i].n < t[j].n
  <2>1. i + 1 < j + 1
    BY <1>1, <1>2
  <2> QED BY <1>1, <1>2, <2>1 DEF Increasing
<1>3. ASSUME Head(s).kind = "request", NEW n, In(t, {"request"}, n)
      PROVE  Head(s).n \in Nat /\ n \in Nat /\ Head(s).n < n
  <2>1. PICK i \in DOMAIN t : t[i].kind = "request" /\ t[i].n = n
    BY <1>3 DEF In, Number
  <2>2. 1 < i + 1
    BY <1>1
  <2> QED BY <1>1, <1>3, <2>1, <2>2 DEF Increasing
<1> QED BY <1>2, <1>3 DEF Increasing

LEMMA ConcatIs ==
  ASSUME NEW s, IsSeq(s)
  PROVE  s \o <<>> = s /\ \A e : s \o <<e>> = Append(s, e)
<1>1. PICK S : s \in Seq(S)
  BY DEF IsSeq
<1>2. s \o <<>> = s
  BY <1>1
<1>3. ASSUME NEW e PROVE s \o <<e>> = Append(s, e)
  BY <1>1
<1> QED BY <1>2, <1>3

-------------------------------------------------------------------------------
\* Shapes of the variables the invariants are about.
Kinds == {"list", "subscribe", "unsubscribe", "call"}

Sequential ==
  /\ IsSeq(inbox) /\ IsSeq(requests) /\ IsSeq(answers) /\ IsSeq(sink) /\ IsSeq(out)
  /\ Len(answers) = Len(requests)
AnswerSequences == \A n \in DOMAIN answers : IsSeq(answers[n])
RequestKinds == \A n \in DOMAIN requests :
  /\ requests[n].kind \in Kinds
  /\ requests[n].kind = "call" => requests[n].b \in Backends
InboxKinds == \A i \in DOMAIN inbox : inbox[i].kind \in {"request", "reply", "cancel"}
SinkKinds == \A i \in DOMAIN sink : sink[i].kind \in {"stray", "ask"}

LinkShape ==
  /\ link = [b \in Backends |-> link[b]]
  /\ \A b \in Backends : /\ IsSeq(link[b])
                         /\ \A i \in DOMAIN link[b] : link[b][i].kind \in {"call", "reply", "cancel"}
BackShape ==
  /\ back = [b \in Backends |-> back[b]]
  /\ \A b \in Backends : /\ IsSeq(back[b])
                         /\ \A i \in DOMAIN back[b] : back[b][i].kind \in {"answer", "ask"}
BackendShape ==
  /\ owing = [b \in Backends |-> owing[b]] /\ resolved = [b \in Backends |-> resolved[b]]
  /\ initiated = [b \in Backends |-> initiated[b]]
LoopShape ==
  /\ srvSeq \in Nat /\ late \in [Publishers -> Nat]
  /\ loop = [at |-> loop.at, n |-> loop.n, says |-> loop.says]

Shapes ==
  /\ Sequential /\ AnswerSequences /\ RequestKinds /\ InboxKinds /\ SinkKinds
  /\ LinkShape /\ BackShape /\ BackendShape /\ LoopShape

\* A message of the client or to it about a request of a backend names it rightly, for as
\* long as the router holds it.
Matches(m, seq, held) ==
  /\ m.srv \in 1..seq
  /\ \A s \in held : s.srv = m.srv => m.what = <<s.b, s.orig>>

CarriedByRouter ==
  /\ \A i \in DOMAIN sink : sink[i].kind = "ask" => Matches(sink[i], srvSeq, serverRequests)
  /\ \A i \in DOMAIN out : out[i].kind = "ask" => Matches(out[i], srvSeq, serverRequests)
CarriedByClient ==
  /\ \A a \in asked : a = [srv |-> a.srv, what |-> a.what, cancelled |-> a.cancelled] /\ Matches(a, srvSeq, serverRequests)
  /\ \A i \in DOMAIN inbox : inbox[i].kind # "request" => Matches(inbox[i], srvSeq, serverRequests)
Carried == CarriedByRouter /\ CarriedByClient

\* A request of a backend is in one place: on its way to the router, held there, answered
\* on its way back, or resolved.
Replies == {"reply", "cancel"}
Named(s, b) == \A i \in DOMAIN s : s[i].kind \in Replies => s[i].what = <<b, s[i].orig>>
Replied(b, n) == In(link[b], Replies, n)
Asking(b, n) == In(back[b], {"ask"}, n)

Held ==
  \A s \in serverRequests :
    /\ s.srv \in 1..srvSeq /\ s.b \in Backends /\ s.orig \in initiated[s.b]
    /\ s.orig \notin resolved[s.b] /\ ~Replied(s.b, s.orig) /\ ~Asking(s.b, s.orig)
    /\ \A t \in serverRequests : t.srv = s.srv \/ (t.b = s.b /\ t.orig = s.orig) => t = s

Coming ==
  \A b \in Backends :
    /\ Sole(back[b], {"ask"})
    /\ \A n : Asking(b, n) => n \in initiated[b] /\ n \notin resolved[b] /\ ~Replied(b, n)

Going ==
  \A b \in Backends :
    /\ resolved[b] \subseteq initiated[b]
    /\ Sole(link[b], Replies)
    /\ \A n : Replied(b, n) => n \in initiated[b] /\ n \notin resolved[b]
    /\ Named(link[b], b)

\* A request of the client is in one place: unread, in the loop's hands, answered on its
\* way, or answered; the loop reads them in order.
Unread(n) == In(inbox, {"request"}, n)
InHand(n) == loop.at \in {"awaiting", "sending"} /\ loop.n = n
OnItsWay(n) == In(out, {"response"}, n)

InOrder ==
  /\ Increasing(inbox)
  /\ \A n : Unread(n) => n \in DOMAIN requests /\ \A m \in DOMAIN requests : m > n => Unread(m)

OnePlace ==
  /\ \A n \in DOMAIN requests :
       /\ Unread(n) => ~InHand(n) /\ ~OnItsWay(n) /\ answers[n] = <<>>
       /\ InHand(n) => ~OnItsWay(n) /\ answers[n] = <<>>
       /\ OnItsWay(n) => answers[n] = <<>>
       /\ Len(answers[n]) <= 1
  /\ loop.at \in {"awaiting", "sending"} => loop.n \in DOMAIN requests
  /\ loop.at \in {"reading", "awaiting", "sending", "emitting"}
  /\ Sole(out, {"response"}) /\ \A n : OnItsWay(n) => n \in DOMAIN requests

\* The work on a call is in one place, and awaited unless the call was given up.
Owes(o, n) == \E c \in o : c.n = n
Single(o) ==
  /\ \A c \in o : c = [n |-> c.n, ask |-> c.ask]
  /\ \A c, d \in o : c.n = d.n => c = d
Once(l, o, k) ==
  /\ Sole(l, {"call"}) /\ Single(o) /\ Sole(k, {"answer"})
  /\ \A n : /\ In(l, {"call"}, n) => ~Owes(o, n) /\ ~In(k, {"answer"}, n)
            /\ Owes(o, n) => ~In(k, {"answer"}, n)

Worked(b, n) == In(link[b], {"call"}, n) \/ Owes(owing[b], n) \/ In(back[b], {"answer"}, n)
Awaited(b, n) ==
  /\ n \in DOMAIN requests /\ requests[n].kind = "call" /\ requests[n].b = b /\ ~Unread(n)
  /\ n \in expired \/ <<b, n>> \in taken \/ (loop.at = "awaiting" /\ loop.n = n)

Works ==
  \A b \in Backends : Once(link[b], owing[b], back[b]) /\ \A n : Worked(b, n) => Awaited(b, n)

\* The loop waits for the surface only to announce what changed with its last response.
Emitting ==
  /\ at \in [Tasks -> {"idle", "locking", "announcing"}]
  /\ at[Loop] # "idle" => loop.at = "emitting"

Strays == \A i \in DOMAIN sink : sink[i].kind = "stray" =>
            sink[i].n \in expired \/ \E b \in Backends : <<b, sink[i].n>> \in taken

\* Once the loop has read the last of the client's subscriptions, and that was an
\* unsubscribe, at most one update of each publisher is left: with publish, on its way
\* after the response, or read.
Pending == \E n \in Subscriptions : Unread(n)
Holding == \E n \in Subscriptions : InHand(n)
Last == \A n \in Subscriptions : requests[n].kind = "subscribe" =>
          \E m \in Subscriptions : m > n /\ requests[m].kind = "unsubscribe"
Over == ~Pending /\ Last
Behind(s, subs, p) ==
  {i \in DOMAIN s : s[i].kind = "updated" /\ s[i].p = p /\
     \A j \in DOMAIN s : s[j].kind = "response" /\ s[j].n \in subs => j < i}
Trailing(p) == Behind(out, Subscriptions, p)

QuietOf(p) ==
  /\ late[p] <= 1 /\ (Pending \/ Holding => late[p] = 0)
  /\ publisher[p] \in {"idle", "sending"}
  /\ Over /\ ~Holding =>
       /\ \A i, j \in Trailing(p) : i = j
       /\ late[p] = 1 => Trailing(p) = {} /\ publisher[p] = "idle"
       /\ publisher[p] = "sending" => Trailing(p) = {}
Quiet ==
  /\ registry \in BOOLEAN /\ (Over => ~registry)
  /\ publisher = [p \in Publishers |-> publisher[p]]
  /\ \A p \in Publishers : QuietOf(p)

AnswerInv == OnePlace /\ InOrder /\ Works /\ Strays /\ Emitting
ReplyInv == Carried /\ Held /\ Coming /\ Going

-------------------------------------------------------------------------------
\* Shapes.

LEMMA ShapesInit == Init => Shapes
  BY EmptyIs DEF Init, Shapes, Sequential, AnswerSequences, RequestKinds, InboxKinds, SinkKinds,
                 LinkShape, BackShape, BackendShape, LoopShape

LEMMA ShapesSends ==
  ASSUME Shapes, NEW request, Sends(request), request.kind \in Kinds,
         request.kind = "call" => request.b \in Backends, late' \in [Publishers -> Nat]
  PROVE  Shapes'
<1> DEFINE message == [kind |-> "request", n |-> Len(requests) + 1]
<1>1. /\ Extended(requests, request, requests') /\ Extended(answers, <<>>, answers')
      /\ Extended(inbox, message, inbox') /\ message.kind = "request"
      /\ UNCHANGED <<sink, out, link, back, owing, resolved, initiated, srvSeq, loop>>
  BY DEF Sends, Put, Extended, backendVars, serverVars
<1> HIDE DEF message
<1>2. IsSeq(inbox) /\ IsSeq(requests) /\ IsSeq(answers) /\ Len(answers) = Len(requests)
  BY DEF Shapes, Sequential
<1>3. InboxKinds' /\ IsSeq(inbox')
  BY <1>1, <1>2, AppendIs DEF Shapes, InboxKinds
<1>4. IsSeq(requests') /\ Len(requests') = Len(requests) + 1 /\ RequestKinds'
  <2>1. IsSeq(requests') /\ Len(requests') = Len(requests) + 1
    BY <1>1, <1>2, AppendIs
  <2>2. ASSUME NEW n \in DOMAIN requests'
        PROVE  /\ requests'[n].kind \in Kinds
               /\ requests'[n].kind = "call" => requests'[n].b \in Backends
    <3>1. CASE n \in DOMAIN requests
      <4>1. requests'[n] = requests[n]
        BY <1>1, <1>2, <3>1, AppendIs
      <4> QED BY <3>1, <4>1 DEF Shapes, RequestKinds
    <3>2. CASE n \notin DOMAIN requests
      <4>1. requests'[n] = request
        BY <1>1, <1>2, <2>2, <3>2, AppendIs
      <4> QED BY <4>1
    <3> QED BY <3>1, <3>2
  <2> QED BY <2>1, <2>2 DEF RequestKinds
<1>5. IsSeq(answers') /\ Len(answers') = Len(answers) + 1 /\ AnswerSequences'
  BY <1>1, <1>2, AppendIs, EmptyIs DEF Shapes, AnswerSequences
<1>6. Sequential'
  BY <1>1, <1>2, <1>3, <1>4, <1>5 DEF Shapes, Sequential
<1>7. SinkKinds' /\ LinkShape' /\ BackShape' /\ BackendShape' /\ LoopShape'
  BY <1>1 DEF Shapes, SinkKinds, LinkShape, BackShape, BackendShape, LoopShape
<1> QED BY <1>3, <1>4, <1>5, <1>6, <1>7 DEF Shapes

LEMMA ShapesReads ==
  ASSUME Shapes, OnePlace, ClientReads
  PROVE  Shapes'
<1> DEFINE m == Head(out)
<1>1. /\ Dropped(out, out') /\ (late' = late \/ late' = [late EXCEPT ![m.p] = @ + 1])
      /\ answers' = IF m.kind = "response" THEN [answers EXCEPT ![m.n] = Append(@, m.says)] ELSE answers
      /\ UNCHANGED <<inbox, requests, sink, link, back, owing, resolved, initiated, srvSeq, loop>>
  BY DEF ClientReads, Dropped, backendVars, serverVars
<1>2. IsSeq(out) /\ IsSeq(answers) /\ IsSeq(requests) /\ Len(answers) = Len(requests)
  BY DEF Shapes, Sequential
<1>3. IsSeq(out') /\ m = out[1] /\ 1 \in DOMAIN out
  BY <1>1, <1>2, TailIs
<1>4. IsSeq(answers') /\ Len(answers') = Len(answers) /\ AnswerSequences'
  <2>1. CASE m.kind = "response"
    <3>1. PICK S : answers \in Seq(S)
      BY <1>2 DEF IsSeq
    <3>2. m.n \in DOMAIN answers
      BY <1>2, <1>3, <2>1, SeqIs DEF OnePlace, OnItsWay, In, Number
    <3>3. PICK l : Extended(answers[m.n], m.says, l)
      BY DEF Extended
    <3>4. IsSeq(l)
      BY <3>2, <3>3, AppendIs DEF Shapes, AnswerSequences
    <3>5. answers' = [answers EXCEPT ![m.n] = l]
      BY <1>1, <2>1, <3>3 DEF Extended
    <3>6. /\ answers' \in Seq(S \cup {l}) /\ Len(answers') = Len(answers)
          /\ DOMAIN answers' = DOMAIN answers
      BY <3>1, <3>2, <3>5
    <3>7. \A n \in DOMAIN answers' : IsSeq(answers'[n])
      BY <3>4, <3>5, <3>6 DEF Shapes, AnswerSequences
    <3> QED BY <3>6, <3>7 DEF IsSeq, AnswerSequences
  <2>2. CASE m.kind # "response"
    BY <1>1, <1>2, <2>2 DEF Shapes, AnswerSequences
  <2> QED BY <2>1, <2>2
<1>5. LoopShape'
  <2>1. late \in [Publishers -> Nat]
    BY DEF Shapes, LoopShape
  <2>2. ASSUME NEW x PROVE [late EXCEPT ![x] = @ + 1] \in [Publishers -> Nat]
    <3>1. CASE x \in Publishers
      BY <2>1, <3>1
    <3>2. CASE x \notin Publishers
      BY <2>1, <3>2
    <3> QED BY <3>1, <3>2
  <2> QED BY <1>1, <2>1, <2>2 DEF Shapes, LoopShape
<1>6. Sequential'
  BY <1>1, <1>3, <1>4 DEF Shapes, Sequential
<1>7. RequestKinds' /\ InboxKinds' /\ SinkKinds' /\ LinkShape' /\ BackShape' /\ BackendShape'
  BY <1>1 DEF Shapes, RequestKinds, InboxKinds, SinkKinds, LinkShape, BackShape, BackendShape
<1> QED BY <1>4, <1>5, <1>6, <1>7 DEF Shapes

\* A message put at the end of one backend's pipe, or taken from its front.
Pipes(p) == p = [x \in Backends |-> p[x]] /\ \A x \in Backends : IsSeq(p[x])
PutInto(p, b, e, q) == q = [p EXCEPT ![b] = Append(@, e)]
TakenFrom(p, b, q) == p[b] # <<>> /\ q = [p EXCEPT ![b] = Tail(@)]

LEMMA PutIn ==
  ASSUME NEW pipes, NEW next, NEW b \in Backends, NEW e, Pipes(pipes), PutInto(pipes, b, e, next)
  PROVE  /\ Pipes(next)
         /\ Extended(pipes[b], e, next[b]) /\ \A x \in Backends \ {b} : next[x] = pipes[x]
<1>1. /\ next = [x \in Backends |-> next[x]] /\ next[b] = Append(pipes[b], e)
      /\ \A x \in Backends \ {b} : next[x] = pipes[x]
  BY DEF Pipes, PutInto
<1>2. Extended(pipes[b], e, next[b])
  BY <1>1 DEF Extended
<1>3. IsSeq(next[b])
  BY <1>2, AppendIs DEF Pipes
<1> QED BY <1>1, <1>2, <1>3 DEF Pipes

LEMMA TakeFrom ==
  ASSUME NEW pipes, NEW next, NEW b \in Backends,
         Pipes(pipes), TakenFrom(pipes, b, next)
  PROVE  /\ Pipes(next)
         /\ Dropped(pipes[b], next[b]) /\ \A x \in Backends \ {b} : next[x] = pipes[x]
<1>1. /\ next = [x \in Backends |-> next[x]] /\ next[b] = Tail(pipes[b])
      /\ \A x \in Backends \ {b} : next[x] = pipes[x]
  BY DEF Pipes, TakenFrom
<1>2. Dropped(pipes[b], next[b])
  BY <1>1 DEF Dropped, TakenFrom
<1>3. IsSeq(next[b])
  BY <1>2, TailIs DEF Pipes
<1> QED BY <1>1, <1>2, <1>3 DEF Pipes

\* What the messages of a pipe are does not change with what is put or taken.
LEMMA LinkPut ==
  ASSUME LinkShape, NEW b \in Backends, NEW e, e.kind \in {"call", "reply", "cancel"},
         PutAt(link, b, e)
  PROVE  /\ LinkShape' /\ Extended(link[b], e, link'[b])
         /\ \A x \in Backends \ {b} : link'[x] = link[x]
<1>1. /\ link' = [x \in Backends |-> link'[x]] /\ \A x \in Backends : IsSeq(link'[x])
      /\ Extended(link[b], e, link'[b]) /\ \A x \in Backends \ {b} : link'[x] = link[x]
  <2>1. Pipes(link) /\ PutInto(link, b, e, link')
    BY DEF LinkShape, Pipes, PutAt, PutInto
  <2>2. Pipes(link')
    BY <2>1, PutIn
  <2>3. Extended(link[b], e, link'[b]) /\ \A x \in Backends \ {b} : link'[x] = link[x]
    BY <2>1, PutIn
  <2> QED BY <2>2, <2>3 DEF Pipes
<1>2. \A i \in DOMAIN link'[b] : link'[b][i].kind \in {"call", "reply", "cancel"}
  <2>1. IsSeq(link[b]) /\ \A i \in DOMAIN link[b] : link[b][i].kind \in {"call", "reply", "cancel"}
    BY DEF LinkShape
  <2> QED BY <1>1, <2>1, AppendIs
<1>3. \A x \in Backends : \A i \in DOMAIN link'[x] : link'[x][i].kind \in {"call", "reply", "cancel"}
  BY <1>1, <1>2 DEF LinkShape
<1> QED BY <1>1, <1>3 DEF LinkShape

LEMMA LinkTake ==
  ASSUME LinkShape, NEW b \in Backends, TakenFrom(link, b, link')
  PROVE  LinkShape' /\ Dropped(link[b], link'[b]) /\ \A x \in Backends \ {b} : link'[x] = link[x]
<1>1. /\ link' = [x \in Backends |-> link'[x]] /\ \A x \in Backends : IsSeq(link'[x])
      /\ Dropped(link[b], link'[b]) /\ \A x \in Backends \ {b} : link'[x] = link[x]
  <2>1. Pipes(link)
    BY DEF LinkShape, Pipes
  <2>2. Pipes(link')
    BY <2>1, TakeFrom
  <2>3. Dropped(link[b], link'[b]) /\ \A x \in Backends \ {b} : link'[x] = link[x]
    BY <2>1, TakeFrom
  <2> QED BY <2>2, <2>3 DEF Pipes
<1>2. \A i \in DOMAIN link'[b] : link'[b][i].kind \in {"call", "reply", "cancel"}
  <2>1. IsSeq(link[b]) /\ \A i \in DOMAIN link[b] : link[b][i].kind \in {"call", "reply", "cancel"}
    BY DEF LinkShape
  <2> QED BY <1>1, <2>1, TailIs
<1>3. \A x \in Backends : \A i \in DOMAIN link'[x] : link'[x][i].kind \in {"call", "reply", "cancel"}
  BY <1>1, <1>2 DEF LinkShape
<1> QED BY <1>1, <1>3 DEF LinkShape

LEMMA BackPut ==
  ASSUME BackShape, NEW b \in Backends, NEW e, e.kind \in {"answer", "ask"}, PutAt(back, b, e)
  PROVE  /\ BackShape' /\ Extended(back[b], e, back'[b])
         /\ \A x \in Backends \ {b} : back'[x] = back[x]
<1>1. /\ back' = [x \in Backends |-> back'[x]] /\ \A x \in Backends : IsSeq(back'[x])
      /\ Extended(back[b], e, back'[b]) /\ \A x \in Backends \ {b} : back'[x] = back[x]
  <2>1. Pipes(back) /\ PutInto(back, b, e, back')
    BY DEF BackShape, Pipes, PutAt, PutInto
  <2>2. Pipes(back')
    BY <2>1, PutIn
  <2>3. Extended(back[b], e, back'[b]) /\ \A x \in Backends \ {b} : back'[x] = back[x]
    BY <2>1, PutIn
  <2> QED BY <2>2, <2>3 DEF Pipes
<1>2. \A i \in DOMAIN back'[b] : back'[b][i].kind \in {"answer", "ask"}
  <2>1. IsSeq(back[b]) /\ \A i \in DOMAIN back[b] : back[b][i].kind \in {"answer", "ask"}
    BY DEF BackShape
  <2> QED BY <1>1, <2>1, AppendIs
<1>3. \A x \in Backends : \A i \in DOMAIN back'[x] : back'[x][i].kind \in {"answer", "ask"}
  BY <1>1, <1>2 DEF BackShape
<1> QED BY <1>1, <1>3 DEF BackShape

LEMMA BackTake ==
  ASSUME BackShape, NEW b \in Backends, TakenFrom(back, b, back')
  PROVE  BackShape' /\ Dropped(back[b], back'[b]) /\ \A x \in Backends \ {b} : back'[x] = back[x]
<1>1. /\ back' = [x \in Backends |-> back'[x]] /\ \A x \in Backends : IsSeq(back'[x])
      /\ Dropped(back[b], back'[b]) /\ \A x \in Backends \ {b} : back'[x] = back[x]
  <2>1. Pipes(back)
    BY DEF BackShape, Pipes
  <2>2. Pipes(back')
    BY <2>1, TakeFrom
  <2>3. Dropped(back[b], back'[b]) /\ \A x \in Backends \ {b} : back'[x] = back[x]
    BY <2>1, TakeFrom
  <2> QED BY <2>2, <2>3 DEF Pipes
<1>2. \A i \in DOMAIN back'[b] : back'[b][i].kind \in {"answer", "ask"}
  <2>1. IsSeq(back[b]) /\ \A i \in DOMAIN back[b] : back[b][i].kind \in {"answer", "ask"}
    BY DEF BackShape
  <2> QED BY <1>1, <2>1, TailIs
<1>3. \A x \in Backends : \A i \in DOMAIN back'[x] : back'[x][i].kind \in {"answer", "ask"}
  BY <1>1, <1>2 DEF BackShape
<1> QED BY <1>1, <1>3 DEF BackShape

\* What Route does to the pipe of one backend.
HoldsFor(srv, b) == \E s \in serverRequests : s.srv = srv /\ s.b = b

Forwarded(m, held, p, q) ==
  \E s \in held : s.srv = m.srv /\ \E e : e.kind = m.kind /\ e.orig = s.orig /\ e.what = m.what /\ q = p \o <<e>>

LEMMA Routed ==
  ASSUME NEW m, Route(m), NEW b \in Backends
  PROVE  /\ ~HoldsFor(m.srv, b) => link'[b] = link[b] \o <<>>
         /\ HoldsFor(m.srv, b) => Forwarded(m, serverRequests, link[b], link'[b])
<1>1. CASE HoldsFor(m.srv, b)
  <2> DEFINE s == CHOOSE s \in serverRequests : s.srv = m.srv
             e == [kind |-> m.kind, orig |-> s.orig, what |-> m.what]
  <2>1. link'[b] = link[b] \o <<e>>
    BY <1>1 DEF Route, HoldsFor
  <2>2. s \in serverRequests /\ s.srv = m.srv
    BY <1>1 DEF HoldsFor
  <2>3. e.kind = m.kind /\ e.orig = s.orig /\ e.what = m.what
    OBVIOUS
  <2> HIDE DEF e, s
  <2> QED BY <1>1, <2>1, <2>2, <2>3 DEF Forwarded
<1>2. CASE ~HoldsFor(m.srv, b)
  BY <1>2 DEF Route, HoldsFor
<1> QED BY <1>1, <1>2

LEMMA ShapesLoopReads ==
  ASSUME Shapes, InOrder, LoopReads
  PROVE  Shapes'
<1> DEFINE m == Head(inbox)
<1>1. Dropped(inbox, inbox') /\ UNCHANGED <<requests, answers, sink, out, back, owing, resolved, initiated, srvSeq, late>>
  BY DEF LoopReads, Dropped, clientVars, backendVars
<1>2. /\ IsSeq(inbox) /\ IsSeq(inbox') /\ m = inbox[1] /\ 1 \in DOMAIN inbox /\ InboxKinds'
  <2>1. IsSeq(inbox)
    BY DEF Shapes, Sequential
  <2> QED BY <1>1, <2>1, TailIs DEF Shapes, InboxKinds
<1>3. LinkShape' /\ LoopShape'
  <2>1. CASE m.kind # "request"
    <3>1. Route(m) /\ loop' = loop
      BY <2>1 DEF LoopReads
    <3>2. m.kind \in {"reply", "cancel"}
      BY <1>2, <2>1 DEF Shapes, InboxKinds
    <3>3. link' = [b \in Backends |-> link'[b]]
      BY <3>1 DEF Route
    <3>4. ASSUME NEW b \in Backends
          PROVE  IsSeq(link'[b]) /\ \A i \in DOMAIN link'[b] : link'[b][i].kind \in {"call", "reply", "cancel"}
      <4>1. IsSeq(link[b]) /\ \A i \in DOMAIN link[b] : link[b][i].kind \in {"call", "reply", "cancel"}
        BY DEF Shapes, LinkShape
      <4>2. CASE link'[b] = link[b] \o <<>>
        BY <4>1, <4>2, ConcatIs
      <4>3. ASSUME NEW e, link'[b] = link[b] \o <<e>>, e.kind = m.kind
            PROVE  IsSeq(link'[b]) /\ \A i \in DOMAIN link'[b] : link'[b][i].kind \in {"call", "reply", "cancel"}
        <5>1. Extended(link[b], e, link'[b])
          BY <4>1, <4>3, ConcatIs DEF Extended
        <5>2. IsSeq(link'[b])
          BY <4>1, <5>1, AppendIs
        <5>3. ASSUME NEW i \in DOMAIN link'[b]
              PROVE  link'[b][i].kind \in {"call", "reply", "cancel"}
          <6>1. (i \in DOMAIN link[b] /\ link'[b][i] = link[b][i]) \/ link'[b][i] = e
            BY <4>1, <5>1, <5>3, AppendIs
          <6> QED BY <3>2, <4>1, <4>3, <6>1
        <5> QED BY <5>2, <5>3
      <4>4. PICK k : k = m
        OBVIOUS
      <4>5. link'[b] = link[b] \o <<>> \/ \E e : e.kind = k.kind /\ link'[b] = link[b] \o <<e>>
        <5>1. Route(k)
          BY <3>1, <4>4
        <5>2. CASE ~HoldsFor(k.srv, b)
          BY <5>1, <5>2, Routed
        <5>3. CASE HoldsFor(k.srv, b)
          <6>1. PICK s \in serverRequests : \E e : e.kind = k.kind /\ link'[b] = link[b] \o <<e>>
            BY <5>1, <5>3, Routed DEF Forwarded
          <6> QED BY <6>1
        <5> QED BY <5>2, <5>3
      <4> QED BY <4>2, <4>3, <4>4, <4>5
    <3>5. LinkShape'
      BY <3>3, <3>4 DEF LinkShape
    <3> QED BY <1>1, <3>1, <3>5 DEF Shapes, LoopShape
  <2>2. CASE m.kind = "request"
    <3> DEFINE r == requests[m.n]
    <3>1. m.n \in DOMAIN requests
      BY <1>2, <2>2 DEF InOrder, Unread, In, Number
    <3>2. r.kind \in Kinds /\ (r.kind = "call" => r.b \in Backends)
      BY <3>1 DEF Shapes, RequestKinds
    <3>3. /\ loop' = [at |-> loop'.at, n |-> loop'.n, says |-> loop'.says]
          /\ link' = link \/ (r.kind = "call" /\ PutAt(link, r.b, [kind |-> "call", n |-> m.n]))
      BY <2>2, <3>2 DEF LoopReads, Responds, Kinds
    <3>4. LinkShape'
      <4>1. CASE link' = link
        BY <4>1 DEF Shapes, LinkShape
      <4>2. CASE r.kind = "call" /\ PutAt(link, r.b, [kind |-> "call", n |-> m.n])
        <5> DEFINE e == [kind |-> "call", n |-> m.n]
        <5>1. e.kind = "call" /\ PutAt(link, r.b, e)
          BY <4>2
        <5> HIDE DEF e
        <5> QED BY <3>2, <4>2, <5>1, LinkPut DEF Shapes
      <4> QED BY <3>3, <4>1, <4>2
    <3> QED BY <1>1, <3>3, <3>4 DEF Shapes, LoopShape
  <2> QED BY <2>1, <2>2
<1>4. Sequential'
  BY <1>1, <1>2 DEF Shapes, Sequential
<1>5. AnswerSequences' /\ RequestKinds' /\ SinkKinds' /\ BackShape' /\ BackendShape'
  BY <1>1 DEF Shapes, AnswerSequences, RequestKinds, SinkKinds, BackShape, BackendShape
<1> QED BY <1>2, <1>3, <1>4, <1>5 DEF Shapes

\* What a backend's reader does with a message: it goes to the call that is awaited under
\* its id, or on to the client.
LEMMA ReaderSays ==
  ASSUME BackShape, NEW b \in Backends, ReaderReads(b), NEW m, m = Head(back[b])
  PROVE  /\ TakenFrom(back, b, back') /\ m.kind \in {"answer", "ask"}
         /\ IsAwaited(b, Number(m)) =>
              /\ loop' = [at |-> "sending", n |-> loop.n, says |-> "ok"] /\ loop.at = "awaiting"
              /\ UNCHANGED <<serverRequests, srvSeq, sink>>
              /\ m.kind = "answer" => taken' = taken
              /\ m.kind = "ask" => taken' = taken \cup {<<b, loop.n>>}
         /\ ~IsAwaited(b, Number(m)) =>
              /\ UNCHANGED <<loop, taken>>
              /\ m.kind = "answer" => /\ UNCHANGED <<serverRequests, srvSeq>>
                                      /\ Put(sink, [kind |-> "stray", n |-> Number(m)])
              /\ m.kind = "ask" =>
                   /\ srvSeq' = srvSeq + 1 /\ Number(m) = m.orig
                   /\ serverRequests' = serverRequests \cup {[srv |-> srvSeq + 1, b |-> b, orig |-> m.orig]}
                   /\ Put(sink, [kind |-> "ask", srv |-> srvSeq + 1, what |-> <<b, m.orig>>])
<1>1. TakenFrom(back, b, back')
  BY DEF ReaderReads, TakenFrom
<1>2. m.kind \in {"answer", "ask"}
  <2>1. IsSeq(back[b]) /\ Dropped(back[b], back'[b])
    BY <1>1, BackTake DEF BackShape
  <2>2. m = back[b][1] /\ 1 \in DOMAIN back[b]
    BY <2>1, TailIs
  <2> QED BY <2>2 DEF BackShape
<1>3. CASE m.kind = "answer"
  <2>1. Number(m) = m.n
    BY <1>3 DEF Number
  <2>2. CASE IsAwaited(b, m.n)
    <3>1. loop.n = m.n /\ loop.at = "awaiting"
      BY <2>2 DEF IsAwaited
    <3>2. Responds(m.n, "ok") /\ UNCHANGED <<serverVars, sink, taken>>
      BY <1>3, <2>2 DEF ReaderReads
    <3> QED BY <1>1, <1>2, <1>3, <2>1, <2>2, <3>1, <3>2 DEF Responds, serverVars
  <2>3. CASE ~IsAwaited(b, m.n)
    <3>1. Put(sink, [kind |-> "stray", n |-> m.n]) /\ UNCHANGED <<serverVars, loop, taken>>
      BY <1>3, <2>3 DEF ReaderReads
    <3> QED BY <1>1, <1>2, <1>3, <2>1, <2>3, <3>1 DEF serverVars
  <2> QED BY <2>2, <2>3
<1>4. CASE m.kind = "ask"
  <2>1. Number(m) = m.orig
    BY <1>4 DEF Number
  <2>2. CASE IsAwaited(b, m.orig)
    <3>1. loop.n = m.orig /\ loop.at = "awaiting"
      BY <2>2 DEF IsAwaited
    <3>2. Responds(m.orig, "ok") /\ taken' = taken \cup {<<b, m.orig>>} /\ UNCHANGED <<serverVars, sink>>
      BY <1>4, <2>2 DEF ReaderReads
    <3> QED BY <1>1, <1>2, <1>4, <2>1, <2>2, <3>1, <3>2 DEF Responds, serverVars
  <2>3. CASE ~IsAwaited(b, m.orig)
    <3>1. /\ srvSeq' = srvSeq + 1 /\ UNCHANGED <<loop, taken>>
          /\ serverRequests' = serverRequests \cup {[srv |-> srvSeq + 1, b |-> b, orig |-> m.orig]}
          /\ Put(sink, [kind |-> "ask", srv |-> srvSeq + 1, what |-> <<b, m.orig>>])
      BY <1>4, <2>3 DEF ReaderReads
    <3> QED BY <1>1, <1>2, <1>4, <2>1, <2>3, <3>1
  <2> QED BY <2>2, <2>3
<1> QED BY <1>2, <1>3, <1>4

LEMMA ShapesReaderReads ==
  ASSUME Shapes, NEW b \in Backends, ReaderReads(b)
  PROVE  Shapes'
<1> PICK m : m = Head(back[b])
  OBVIOUS
<1>1. /\ TakenFrom(back, b, back')
      /\ UNCHANGED <<inbox, requests, answers, out, link, owing, resolved, initiated, late>>
  BY DEF ReaderReads, TakenFrom, clientVars
<1>2. BackShape'
  BY <1>1, BackTake DEF Shapes
<1>3. BackShape
  BY DEF Shapes
<1>4. /\ loop' = [at |-> loop'.at, n |-> loop'.n, says |-> loop'.says]
      /\ srvSeq' \in {srvSeq, srvSeq + 1}
      /\ sink' = sink \/ \E e : Extended(sink, e, sink') /\ e.kind \in {"stray", "ask"}
  <2>0. loop = [at |-> loop.at, n |-> loop.n, says |-> loop.says] /\ m.kind \in {"answer", "ask"}
    BY <1>3, ReaderSays DEF Shapes, LoopShape
  <2>1. CASE IsAwaited(b, Number(m))
    <3>1. loop' = [at |-> "sending", n |-> loop.n, says |-> "ok"] /\ sink' = sink /\ srvSeq' = srvSeq
      BY <1>3, <2>1, ReaderSays
    <3>2. loop' = [at |-> loop'.at, n |-> loop'.n, says |-> loop'.says]
      BY <3>1
    <3> QED BY <3>1, <3>2
  <2>2. CASE ~IsAwaited(b, Number(m)) /\ m.kind = "answer"
    <3> DEFINE e == [kind |-> "stray", n |-> Number(m)]
    <3>1. e.kind = "stray" /\ Put(sink, e) /\ loop' = loop /\ srvSeq' = srvSeq
      BY <1>3, <2>2, ReaderSays
    <3> QED BY <2>0, <3>1 DEF Put, Extended
  <2>3. CASE ~IsAwaited(b, Number(m)) /\ m.kind = "ask"
    <3> DEFINE e == [kind |-> "ask", srv |-> srvSeq + 1, what |-> <<b, m.orig>>]
    <3>1. e.kind = "ask" /\ Put(sink, e) /\ loop' = loop /\ srvSeq' = srvSeq + 1
      BY <1>3, <2>3, ReaderSays
    <3> QED BY <2>0, <3>1 DEF Put, Extended
  <2> QED BY <2>0, <2>1, <2>2, <2>3
<1>5. IsSeq(sink') /\ SinkKinds'
  <2>1. IsSeq(sink)
    BY DEF Shapes, Sequential
  <2> QED BY <1>4, <2>1, AppendIs DEF Shapes, SinkKinds
<1>6. Sequential'
  BY <1>1, <1>5 DEF Shapes, Sequential
<1>7. LoopShape'
  BY <1>1, <1>4 DEF Shapes, LoopShape
<1>8. AnswerSequences' /\ RequestKinds' /\ InboxKinds' /\ LinkShape' /\ BackendShape'
  BY <1>1 DEF Shapes, AnswerSequences, RequestKinds, InboxKinds, LinkShape, BackendShape
<1> QED BY <1>2, <1>5, <1>6, <1>7, <1>8 DEF Shapes

LEMMA ShapesNext ==
  ASSUME Shapes, OnePlace, InOrder, [Next]_vars
  PROVE  Shapes'
<1> DEFINE Rest == LinkShape /\ BackShape /\ BackendShape
<1> DEFINE Kept == AnswerSequences /\ RequestKinds /\ InboxKinds /\ SinkKinds
<1>0. Sequential /\ LoopShape /\ Rest /\ Kept
  BY DEF Shapes
<1>1. ASSUME UNCHANGED <<requests, answers, sink, link, back, owing, resolved, initiated, srvSeq, late>>,
             IsSeq(inbox'), InboxKinds', IsSeq(out'),
             loop' = [at |-> loop'.at, n |-> loop'.n, says |-> loop'.says]
      PROVE  Shapes'
  BY <1>0, <1>1 DEF Shapes, Sequential, AnswerSequences, RequestKinds, SinkKinds, LinkShape, BackShape,
                    BackendShape, LoopShape
<1>2. ASSUME UNCHANGED <<inbox, requests, answers, sink, out, srvSeq, late, loop>>,
             LinkShape', BackShape', BackendShape'
      PROVE  Shapes'
  BY <1>0, <1>2 DEF Shapes, Sequential, AnswerSequences, RequestKinds, InboxKinds, SinkKinds, LoopShape
<1>3. IsSeq(inbox) /\ IsSeq(sink) /\ IsSeq(out)
  BY <1>0 DEF Sequential
<1>4. ASSUME NEW e, UNCHANGED <<requests, answers, sink, out, link, back, owing, resolved, initiated,
                                srvSeq, late, loop>>,
             Put(inbox, e), e.kind \in {"request", "reply", "cancel"}
      PROVE  Shapes'
  <2>1. Extended(inbox, e, inbox')
    BY <1>4 DEF Put, Extended
  <2>2. IsSeq(inbox') /\ InboxKinds'
    BY <1>0, <1>3, <1>4, <2>1, AppendIs DEF InboxKinds
  <2> QED BY <1>0, <1>1, <1>3, <1>4, <2>2 DEF LoopShape
<1>5. ASSUME NEW e, UNCHANGED <<inbox, requests, answers, sink, link, back, owing, resolved, initiated,
                                srvSeq, late>>,
             Put(out, e), loop' = [at |-> loop'.at, n |-> loop'.n, says |-> loop'.says]
      PROVE  Shapes'
  <2>1. Extended(out, e, out')
    BY <1>5 DEF Put, Extended
  <2>2. IsSeq(out')
    BY <1>3, <2>1, AppendIs
  <2> QED BY <1>0, <1>1, <1>3, <1>5, <2>2 DEF InboxKinds
<1>6. ASSUME ClientLists \/ (\E kind \in {"subscribe", "unsubscribe"} : ClientSubscribes(kind))
             \/ \E b \in Backends : ClientCalls(b)
      PROVE  Shapes'
  <2>1. PICK request : /\ Sends(request) /\ request.kind \in Kinds
                       /\ request.kind = "call" => request.b \in Backends
                       /\ (late' = late \/ late' = [p \in Publishers |-> 0])
    BY <1>6 DEF ClientLists, ClientSubscribes, ClientCalls, Kinds
  <2> QED BY <1>0, <2>1, ShapesSends DEF LoopShape
<1>7. CASE \E a \in asked : ClientReplies(a) \/ ClientCancels(a)
  <2>1. PICK e : /\ Put(inbox, e) /\ e.kind \in {"reply", "cancel"}
                 /\ UNCHANGED <<requests, answers, sink, out, link, back, owing, resolved, initiated,
                                srvSeq, late, loop>>
    BY <1>7 DEF ClientReplies, ClientCancels, serverVars, backendVars
  <2> QED BY <1>4, <2>1
<1>8. CASE ClientReads
  BY <1>8, ShapesReads
<1>9. CASE LoopReads
  BY <1>9, ShapesLoopReads
<1>10. CASE \/ Expire \/ (\E p \in Publishers : PublishChecks(p)) \/ \E t \in Tasks : Look(t) \/ Lock(t)
            \/ UNCHANGED vars \/ \E b \in Backends : BreakerFlips(b)
  <2>1. /\ UNCHANGED <<inbox, requests, answers, sink, out, link, back, owing, resolved, initiated,
                       srvSeq, late>>
        /\ loop' = loop \/ \E at_, n, says : loop' = [at |-> at_, n |-> n, says |-> says]
    BY <1>10 DEF Expire, PublishChecks, Look, Lock, Done, Responds, BreakerFlips, clientVars, serverVars,
                 backendVars, vars
  <2>2. loop' = [at |-> loop'.at, n |-> loop'.n, says |-> loop'.says]
    BY <1>0, <2>1 DEF LoopShape
  <2>3. IsSeq(inbox') /\ IsSeq(out') /\ InboxKinds'
    BY <1>0, <1>3, <2>1 DEF InboxKinds
  <2> QED BY <1>1, <2>1, <2>2, <2>3
<1>11. CASE LoopSends \/ (\E p \in Publishers : PublishSends(p)) \/ \E t \in Tasks : Announce(t)
  <2>1. PICK e : Put(out, e)
    BY <1>11 DEF LoopSends, PublishSends, Announce
  <2>2. UNCHANGED <<inbox, requests, answers, sink, link, back, owing, resolved, initiated, srvSeq, late>>
    <3>1. CASE LoopSends \/ \E t \in Tasks : Announce(t)
      BY <3>1 DEF LoopSends, Announce, Done, clientVars, serverVars, backendVars
    <3>2. CASE \E p \in Publishers : PublishSends(p)
      BY <3>2 DEF PublishSends, clientVars, serverVars, backendVars
    <3> QED BY <1>11, <3>1, <3>2
  <2>3. loop' = [at |-> loop'.at, n |-> loop'.n, says |-> loop'.says]
    <3>1. CASE LoopSends \/ \E t \in Tasks : Announce(t)
      BY <1>0, <3>1 DEF LoopSends, Announce, Done, LoopShape
    <3>2. CASE \E p \in Publishers : PublishSends(p)
      BY <1>0, <3>2 DEF PublishSends, LoopShape
    <3> QED BY <1>11, <3>1, <3>2
  <2> QED BY <1>5, <2>1, <2>2, <2>3
<1>12. CASE Drain
  <2>1. /\ Dropped(sink, sink') /\ Extended(out, Head(sink), out')
        /\ UNCHANGED <<inbox, requests, answers, link, back, owing, resolved, initiated, srvSeq, late, loop>>
    BY <1>12 DEF Drain, Put, Dropped, Extended, clientVars, serverVars, backendVars
  <2>2. IsSeq(sink') /\ IsSeq(out') /\ SinkKinds'
    <3>1. IsSeq(out')
      BY <1>3, <2>1, AppendIs
    <3> QED BY <1>0, <1>3, <2>1, <3>1, TailIs DEF SinkKinds
  <2> QED BY <1>0, <2>1, <2>2 DEF Shapes, Sequential, AnswerSequences, RequestKinds, InboxKinds, LinkShape,
                                  BackShape, BackendShape, LoopShape
<1>13. CASE \E b \in Backends : ReaderReads(b)
  BY <1>13, ShapesReaderReads
<1>14. ASSUME NEW b \in Backends, BackendReads(b) PROVE Shapes'
  <2>1. /\ TakenFrom(link, b, link')
        /\ UNCHANGED <<inbox, requests, answers, sink, out, srvSeq, late, loop, back, initiated>>
    BY <1>14 DEF BackendReads, TakenFrom, clientVars, serverVars
  <2>2. LinkShape' /\ BackShape'
    BY <1>0, <2>1, LinkTake DEF BackShape
  <2>3. BackendShape'
    BY <1>0, <1>14 DEF BackendReads, BackendShape
  <2> QED BY <1>2, <2>1, <2>2, <2>3
<1>15. ASSUME NEW b \in Backends, BackendAsks(b) \/ BackendAnswers(b) PROVE Shapes'
  <2>1. PICK e : PutAt(back, b, e) /\ e.kind \in {"answer", "ask"}
    <3>1. CASE BackendAsks(b)
      <4>1. PICK k \in AskIds : PutAt(back, b, [kind |-> "ask", orig |-> k])
        BY <3>1 DEF BackendAsks
      <4> DEFINE e == [kind |-> "ask", orig |-> k]
      <4>2. PutAt(back, b, e) /\ e.kind = "ask"
        BY <4>1
      <4> QED BY <4>2
    <3>2. CASE BackendAnswers(b)
      <4>1. PICK c \in owing[b] : PutAt(back, b, [kind |-> "answer", n |-> c.n])
        BY <3>2 DEF BackendAnswers
      <4> DEFINE e == [kind |-> "answer", n |-> c.n]
      <4>2. PutAt(back, b, e) /\ e.kind = "answer"
        BY <4>1
      <4> QED BY <4>2
    <3> QED BY <1>15, <3>1, <3>2
  <2>2. BackShape'
    BY <1>0, <2>1, BackPut
  <2>3. UNCHANGED <<inbox, requests, answers, sink, out, srvSeq, late, loop, link>>
    BY <1>15 DEF BackendAsks, BackendAnswers, clientVars, serverVars
  <2>4. LinkShape'
    BY <1>0, <2>3 DEF LinkShape
  <2>5. BackendShape'
    <3>1. CASE BackendAsks(b)
      <4>1. resolved' = resolved /\ \E S : initiated' = [initiated EXCEPT ![b] = S]
        BY <3>1 DEF BackendAsks
      <4>2. owing' = owing \/ \E S : owing' = [owing EXCEPT ![b] = S]
        BY <3>1 DEF BackendAsks
      <4> QED BY <1>0, <4>1, <4>2 DEF BackendShape
    <3>2. CASE BackendAnswers(b)
      <4>1. initiated' = initiated /\ resolved' = resolved /\ \E S : owing' = [owing EXCEPT ![b] = S]
        BY <3>2 DEF BackendAnswers
      <4> QED BY <1>0, <4>1 DEF BackendShape
    <3> QED BY <1>15, <3>1, <3>2
  <2> QED BY <1>2, <2>2, <2>3, <2>4, <2>5
<1> QED BY <1>6, <1>7, <1>8, <1>9, <1>10, <1>11, <1>12, <1>13, <1>14, <1>15 DEF Next

-------------------------------------------------------------------------------
\* Replies.

LEMMA StillMatches ==
  ASSUME Shapes, srvSeq' \in {srvSeq, srvSeq + 1}, NEW m, Matches(m, srvSeq, serverRequests),
         \A s \in serverRequests' : s \in serverRequests \/ s.srv = srvSeq + 1
  PROVE  Matches(m, srvSeq', serverRequests')
<1>1. srvSeq \in Nat
  BY DEF Shapes, LoopShape
<1> QED BY <1>1 DEF Matches

LEMMA CarriedNext ==
  ASSUME Shapes, Carried, Held, [Next]_vars
  PROVE  Carried'
<1>0. /\ IsSeq(sink) /\ IsSeq(out) /\ IsSeq(inbox) /\ srvSeq \in Nat /\ SinkKinds /\ InboxKinds
      /\ \A b \in Backends : IsSeq(back[b])
  BY DEF Shapes, Sequential, LoopShape, BackShape
<1>1. ASSUME NEW m, UNCHANGED <<serverRequests, srvSeq>>, Matches(m, srvSeq, serverRequests) PROVE Matches(m, srvSeq', serverRequests')
  BY <1>1 DEF Matches
<1>2. ASSUME UNCHANGED <<sink, out, serverRequests, srvSeq>> PROVE CarriedByRouter'
  BY <1>1, <1>2 DEF Carried, CarriedByRouter
<1>3. ASSUME UNCHANGED <<asked, inbox, serverRequests, srvSeq>> PROVE CarriedByClient'
  BY <1>1, <1>3 DEF Carried, CarriedByClient
<1>4. ASSUME NEW e, Put(out, e), e.kind # "ask", UNCHANGED <<sink, serverRequests, srvSeq>>
      PROVE  CarriedByRouter'
  <2>1. Extended(out, e, out')
    BY <1>4 DEF Put, Extended
  <2>2. ASSUME NEW i \in DOMAIN out', out'[i].kind = "ask" PROVE Matches(out'[i], srvSeq', serverRequests')
    <3>1. i \in DOMAIN out /\ out'[i] = out[i]
      BY <1>0, <1>4, <2>1, <2>2, AppendIs
    <3> QED BY <1>1, <1>4, <2>2, <3>1 DEF Carried, CarriedByRouter, Matches
  <2> QED BY <1>1, <1>4, <2>2 DEF Carried, CarriedByRouter, Matches
<1>5. ASSUME NEW e, Put(inbox, e), e.kind # "request" => Matches(e, srvSeq, serverRequests), UNCHANGED <<serverRequests, srvSeq>>,
             \A a \in asked' : \/ a \in asked
                               \/ a = [srv |-> a.srv, what |-> a.what, cancelled |-> a.cancelled] /\ Matches(a, srvSeq, serverRequests)
      PROVE  CarriedByClient'
  <2>1. Extended(inbox, e, inbox')
    BY <1>5 DEF Put, Extended
  <2>2. ASSUME NEW i \in DOMAIN inbox', inbox'[i].kind # "request" PROVE Matches(inbox'[i], srvSeq', serverRequests')
    <3>1. (i \in DOMAIN inbox /\ inbox'[i] = inbox[i]) \/ inbox'[i] = e
      BY <1>0, <2>1, <2>2, AppendIs
    <3> QED BY <1>5, <2>2, <3>1 DEF Carried, CarriedByClient, Matches
  <2>3. ASSUME NEW a \in asked'
        PROVE  a = [srv |-> a.srv, what |-> a.what, cancelled |-> a.cancelled] /\ Matches(a, srvSeq', serverRequests')
    BY <1>1, <1>5 DEF Carried, CarriedByClient
  <2> QED BY <2>2, <2>3 DEF CarriedByClient, Matches
<1>6. CASE ClientLists \/ (\E kind \in {"subscribe", "unsubscribe"} : ClientSubscribes(kind))
           \/ \E b \in Backends : ClientCalls(b)
  <2>1. PICK request : Sends(request)
    BY <1>6 DEF ClientLists, ClientSubscribes, ClientCalls
  <2>2. PICK e : e.kind = "request" /\ Put(inbox, e)
    <3> DEFINE e == [kind |-> "request", n |-> Len(requests) + 1]
    <3>1. e.kind = "request" /\ Put(inbox, e)
      BY <2>1 DEF Sends
    <3> QED BY <3>1
  <2>3. UNCHANGED <<asked, sink, out, serverRequests, srvSeq>>
    BY <2>1 DEF Sends, serverVars
  <2> QED BY <1>2, <1>5, <2>2, <2>3 DEF Carried
<1>7. ASSUME NEW a \in asked, ClientReplies(a) \/ ClientCancels(a) PROVE Carried'
  <2>1. a = [srv |-> a.srv, what |-> a.what, cancelled |-> a.cancelled] /\ Matches(a, srvSeq, serverRequests)
    BY DEF Carried, CarriedByClient
  <2>2. PICK e : Put(inbox, e) /\ e.srv = a.srv /\ e.what = a.what
    <3>1. CASE ClientReplies(a)
      <4> DEFINE e == [kind |-> "reply", srv |-> a.srv, what |-> a.what]
      <4>1. Put(inbox, e) /\ e.srv = a.srv /\ e.what = a.what
        BY <3>1 DEF ClientReplies
      <4> QED BY <4>1
    <3>2. CASE ClientCancels(a)
      <4> DEFINE e == [kind |-> "cancel", srv |-> a.srv, what |-> a.what]
      <4>1. Put(inbox, e) /\ e.srv = a.srv /\ e.what = a.what
        BY <3>2 DEF ClientCancels
      <4> QED BY <4>1
    <3> QED BY <1>7, <3>1, <3>2
  <2>3. Matches(e, srvSeq, serverRequests)
    BY <2>1, <2>2 DEF Matches
  <2>4. PICK c : c = [a EXCEPT !.cancelled = TRUE]
    OBVIOUS
  <2>5. c = [srv |-> c.srv, what |-> c.what, cancelled |-> c.cancelled] /\ c.srv = a.srv /\ c.what = a.what
    BY <2>1, <2>4
  <2>6. \A x \in asked' : x \in asked \/ x = c
    BY <1>7, <2>4 DEF ClientReplies, ClientCancels
  <2>7. Matches(c, srvSeq, serverRequests)
    BY <2>1, <2>5 DEF Matches
  <2>8. UNCHANGED <<sink, out, serverRequests, srvSeq>>
    BY <1>7 DEF ClientReplies, ClientCancels, serverVars
  <2>9. \A x \in asked' : \/ x \in asked
                          \/ x = [srv |-> x.srv, what |-> x.what, cancelled |-> x.cancelled] /\ Matches(x, srvSeq, serverRequests)
    BY <2>5, <2>6, <2>7
  <2> QED BY <1>2, <1>5, <2>2, <2>3, <2>8, <2>9 DEF Carried
<1>8. CASE ClientReads
  <2> DEFINE m == Head(out)
             a == [srv |-> m.srv, what |-> m.what, cancelled |-> FALSE]
  <2>1. /\ Dropped(out, out') /\ UNCHANGED <<sink, inbox, serverRequests, srvSeq>>
        /\ asked' = IF m.kind = "ask" THEN asked \cup {a} ELSE asked
    BY <1>8 DEF ClientReads, Dropped, serverVars
  <2>2. m = out[1] /\ 1 \in DOMAIN out /\ \A i \in DOMAIN out' : i + 1 \in DOMAIN out /\ out'[i] = out[i + 1]
    BY <1>0, <2>1, TailIs
  <2>3. CarriedByRouter'
    BY <2>1, <2>2 DEF Carried, CarriedByRouter, Matches
  <2>4. m.kind = "ask" => /\ a = [srv |-> a.srv, what |-> a.what, cancelled |-> a.cancelled]
                          /\ Matches(a, srvSeq, serverRequests)
    BY <2>2 DEF Carried, CarriedByRouter, Matches
  <2> HIDE DEF a, m
  <2>5. CarriedByClient'
    BY <2>1, <2>4 DEF Carried, CarriedByClient, Matches
  <2> QED BY <2>3, <2>5 DEF Carried
<1>9. CASE LoopReads
  <2>1. /\ Dropped(inbox, inbox') /\ UNCHANGED <<sink, out, asked, srvSeq>>
        /\ serverRequests' \subseteq serverRequests
    BY <1>9 DEF LoopReads, Dropped, Route, clientVars
  <2>2. \A i \in DOMAIN inbox' : i + 1 \in DOMAIN inbox /\ inbox'[i] = inbox[i + 1]
    BY <1>0, <2>1, TailIs
  <2>3. CarriedByRouter'
    BY <2>1 DEF Carried, CarriedByRouter, Matches
  <2>4. CarriedByClient'
    BY <2>1, <2>2 DEF Carried, CarriedByClient, Matches
  <2> QED BY <2>3, <2>4 DEF Carried
<1>10. CASE \/ Expire \/ (\E p \in Publishers : PublishChecks(p)) \/ \E t \in Tasks : Look(t) \/ Lock(t)
            \/ UNCHANGED vars
            \/ \E b \in Backends : BreakerFlips(b) \/ BackendReads(b) \/ BackendAsks(b) \/ BackendAnswers(b)
  <2>1. UNCHANGED <<inbox, asked, sink, out, serverRequests, srvSeq>>
    BY <1>10 DEF Expire, PublishChecks, Look, Lock, BreakerFlips, BackendReads, BackendAsks, BackendAnswers,
                 clientVars, serverVars, vars
  <2> QED BY <1>2, <1>3, <2>1 DEF Carried
<1>11. CASE LoopSends \/ (\E p \in Publishers : PublishSends(p)) \/ \E t \in Tasks : Announce(t)
  <2>1. PICK e : Put(out, e) /\ e.kind # "ask"
    <3>1. \/ Put(out, [kind |-> "response", n |-> loop.n, says |-> loop.says])
          \/ \E p \in Publishers : Put(out, [kind |-> "updated", p |-> p])
          \/ Put(out, [kind |-> "changed"])
      BY <1>11 DEF LoopSends, PublishSends, Announce
    <3>2. [kind |-> "response", n |-> loop.n, says |-> loop.says].kind # "ask"
      OBVIOUS
    <3>3. /\ \A p : [kind |-> "updated", p |-> p].kind # "ask"
          /\ [kind |-> "changed"].kind # "ask"
      OBVIOUS
    <3> QED BY <3>1, <3>2, <3>3
  <2>2. UNCHANGED <<inbox, asked, sink, serverRequests, srvSeq>>
    BY <1>11 DEF LoopSends, PublishSends, Announce, clientVars, serverVars
  <2> QED BY <1>3, <1>4, <2>1, <2>2 DEF Carried
<1>12. CASE Drain
  <2>1. /\ Dropped(sink, sink') /\ Extended(out, Head(sink), out')
        /\ UNCHANGED <<inbox, asked, serverRequests, srvSeq>>
    BY <1>12 DEF Drain, Put, Dropped, Extended, clientVars, serverVars
  <2>2. /\ Head(sink) = sink[1] /\ 1 \in DOMAIN sink
        /\ \A i \in DOMAIN sink' : i + 1 \in DOMAIN sink /\ sink'[i] = sink[i + 1]
    BY <1>0, <2>1, TailIs
  <2>3. \A i \in DOMAIN out' : (i \in DOMAIN out /\ out'[i] = out[i]) \/ out'[i] = Head(sink)
    BY <1>0, <2>1, AppendIs
  <2>4. CarriedByRouter'
    BY <2>1, <2>2, <2>3 DEF Carried, CarriedByRouter, Matches
  <2> QED BY <1>3, <2>1, <2>4 DEF Carried
<1>13. ASSUME NEW b \in Backends, ReaderReads(b) PROVE Carried'
  <2> DEFINE m == Head(back[b])
             e == [kind |-> "ask", srv |-> srvSeq + 1, what |-> <<b, m.orig>>]
             s == [srv |-> srvSeq + 1, b |-> b, orig |-> m.orig]
  <2>1. UNCHANGED <<inbox, asked, out>> /\ BackShape
    BY <1>13 DEF ReaderReads, clientVars, Shapes
  <2>2. m.kind \in {"answer", "ask"}
    BY <1>13, <2>1, ReaderSays
  <2>3. CASE IsAwaited(b, Number(m)) \/ m.kind = "answer"
    <3>1. UNCHANGED <<serverRequests, srvSeq>> /\ (sink' = sink \/ \E x : Put(sink, x) /\ x.kind # "ask")
      <4>1. CASE IsAwaited(b, Number(m))
        BY <1>13, <2>1, <4>1, ReaderSays
      <4>2. CASE ~IsAwaited(b, Number(m))
        <5>1. Put(sink, [kind |-> "stray", n |-> Number(m)]) /\ UNCHANGED <<serverRequests, srvSeq>>
          BY <1>13, <2>1, <2>3, <4>2, ReaderSays
        <5>2. [kind |-> "stray", n |-> Number(m)].kind # "ask"
          OBVIOUS
        <5> QED BY <5>1, <5>2
      <4> QED BY <4>1, <4>2
    <3>2. CASE sink' = sink
      BY <1>2, <1>3, <2>1, <3>1, <3>2 DEF Carried
    <3>3. ASSUME NEW x, Put(sink, x), x.kind # "ask" PROVE Carried'
      <4>1. Extended(sink, x, sink')
        BY <3>3 DEF Put, Extended
      <4>2. \A i \in DOMAIN sink' : (i \in DOMAIN sink /\ sink'[i] = sink[i]) \/ sink'[i] = x
        BY <1>0, <4>1, AppendIs
      <4>3. CarriedByRouter'
        BY <2>1, <3>1, <3>3, <4>2 DEF Carried, CarriedByRouter, Matches
      <4> QED BY <1>3, <2>1, <3>1, <4>3 DEF Carried
    <3> QED BY <3>1, <3>2, <3>3
  <2>4. CASE ~IsAwaited(b, Number(m)) /\ m.kind = "ask"
    <3>1. srvSeq' = srvSeq + 1 /\ serverRequests' = serverRequests \cup {s} /\ Put(sink, e)
      BY <1>13, <2>1, <2>4, ReaderSays
    <3>2. s.srv = srvSeq + 1 /\ s.b = b /\ s.orig = m.orig
      OBVIOUS
    <3>3. e.srv = srvSeq + 1 /\ e.what = <<b, m.orig>>
      OBVIOUS
    <3> HIDE DEF s, e
    <3>4. Extended(sink, e, sink')
      BY <3>1 DEF Put, Extended
    <3>5. \A i \in DOMAIN sink' : (i \in DOMAIN sink /\ sink'[i] = sink[i]) \/ sink'[i] = e
      BY <1>0, <3>4, AppendIs
    <3>6. ASSUME NEW x, Matches(x, srvSeq, serverRequests) PROVE Matches(x, srvSeq', serverRequests')
      BY <3>1, <3>2, <3>6, StillMatches
    <3>7. PICK k : k = e
      OBVIOUS
    <3>8. Matches(k, srvSeq', serverRequests')
      BY <1>0, <3>1, <3>2, <3>3, <3>7 DEF Matches, Held
    <3>9. CarriedByClient'
      BY <2>1, <3>6 DEF Carried, CarriedByClient
    <3>10. ASSUME NEW i \in DOMAIN sink', sink'[i].kind = "ask" PROVE Matches(sink'[i], srvSeq', serverRequests')
      <4>1. PICK x : x = sink'[i]
        OBVIOUS
      <4>2. x = k \/ Matches(x, srvSeq, serverRequests)
        BY <3>5, <3>7, <3>10, <4>1 DEF Carried, CarriedByRouter
      <4>3. Matches(x, srvSeq', serverRequests')
        BY <3>6, <3>8, <4>2
      <4> QED BY <4>1, <4>3 DEF Matches
    <3>11. \A i \in DOMAIN out' : out'[i].kind = "ask" => Matches(out'[i], srvSeq', serverRequests')
      BY <2>1, <3>6 DEF Carried, CarriedByRouter
    <3>12. CarriedByRouter'
      BY <3>10, <3>11 DEF CarriedByRouter, Matches
    <3> QED BY <3>9, <3>12 DEF Carried
  <2> QED BY <2>2, <2>3, <2>4
<1> QED BY <1>6, <1>7, <1>8, <1>9, <1>10, <1>11, <1>12, <1>13 DEF Next

\* A message put in a pipe or taken from it leaves alone what the pipe says of others.
LEMMA LinkPutSays ==
  ASSUME LinkShape, NEW b \in Backends, NEW e, e.kind \in {"call", "reply", "cancel"},
         PutAt(link, b, e), NEW kinds
  PROVE  /\ \A x \in Backends \ {b} : link'[x] = link[x]
         /\ \A n : In(link'[b], kinds, n) <=> In(link[b], kinds, n) \/ (e.kind \in kinds /\ Number(e) = n)
         /\ Sole(link[b], kinds) /\ (e.kind \in kinds => ~In(link[b], kinds, Number(e)))
              => Sole(link'[b], kinds)
         /\ Named(link[b], b) /\ (e.kind \in Replies => e.what = <<b, e.orig>>) => Named(link'[b], b)
<1>1. IsSeq(link[b])
  BY DEF LinkShape
<1>2. Extended(link[b], e, link'[b]) /\ \A x \in Backends \ {b} : link'[x] = link[x]
  BY LinkPut
<1>3. ASSUME Named(link[b], b), e.kind \in Replies => e.what = <<b, e.orig>> PROVE Named(link'[b], b)
  <2>1. \A i \in DOMAIN link'[b] : (i \in DOMAIN link[b] /\ link'[b][i] = link[b][i]) \/ link'[b][i] = e
    BY <1>1, <1>2, AppendIs
  <2> QED BY <1>3, <2>1 DEF Named
<1> QED BY <1>1, <1>2, <1>3, InPut

LEMMA LinkTakeSays ==
  ASSUME LinkShape, NEW b \in Backends, TakenFrom(link, b, link'), NEW kinds, NEW m, m = Head(link[b])
  PROVE  /\ \A x \in Backends \ {b} : link'[x] = link[x]
         /\ m.kind \in {"call", "reply", "cancel"}
         /\ \A n : In(link[b], kinds, n) <=> In(link'[b], kinds, n) \/ (m.kind \in kinds /\ Number(m) = n)
         /\ Sole(link[b], kinds) => /\ Sole(link'[b], kinds)
                                    /\ m.kind \in kinds => ~In(link'[b], kinds, Number(m))
         /\ Named(link[b], b) => Named(link'[b], b)
<1>1. IsSeq(link[b])
  BY DEF LinkShape
<1>2. Dropped(link[b], link'[b]) /\ \A x \in Backends \ {b} : link'[x] = link[x]
  BY LinkTake
<1>3. ASSUME Named(link[b], b) PROVE Named(link'[b], b)
  <2>1. \A i \in DOMAIN link'[b] : i + 1 \in DOMAIN link[b] /\ link'[b][i] = link[b][i + 1]
    BY <1>1, <1>2, TailIs
  <2> QED BY <1>3, <2>1 DEF Named
<1>4. m.kind \in {"call", "reply", "cancel"}
  <2>1. 1 \in DOMAIN link[b] /\ m = link[b][1]
    BY <1>1, <1>2, TailIs
  <2> QED BY <2>1 DEF LinkShape
<1> QED BY <1>1, <1>2, <1>3, <1>4, InTake

LEMMA BackPutSays ==
  ASSUME BackShape, NEW b \in Backends, NEW e, e.kind \in {"answer", "ask"}, PutAt(back, b, e), NEW kinds
  PROVE  /\ \A x \in Backends \ {b} : back'[x] = back[x]
         /\ \A n : In(back'[b], kinds, n) <=> In(back[b], kinds, n) \/ (e.kind \in kinds /\ Number(e) = n)
         /\ Sole(back[b], kinds) /\ (e.kind \in kinds => ~In(back[b], kinds, Number(e)))
              => Sole(back'[b], kinds)
<1>1. IsSeq(back[b])
  BY DEF BackShape
<1>2. Extended(back[b], e, back'[b]) /\ \A x \in Backends \ {b} : back'[x] = back[x]
  BY BackPut
<1> QED BY <1>1, <1>2, InPut

LEMMA BackTakeSays ==
  ASSUME BackShape, NEW b \in Backends, TakenFrom(back, b, back'), NEW kinds, NEW m, m = Head(back[b])
  PROVE  /\ \A x \in Backends \ {b} : back'[x] = back[x]
         /\ m.kind \in {"answer", "ask"}
         /\ \A n : In(back[b], kinds, n) <=> In(back'[b], kinds, n) \/ (m.kind \in kinds /\ Number(m) = n)
         /\ Sole(back[b], kinds) => /\ Sole(back'[b], kinds)
                                    /\ m.kind \in kinds => ~In(back'[b], kinds, Number(m))
<1>1. IsSeq(back[b])
  BY DEF BackShape
<1>2. Dropped(back[b], back'[b]) /\ \A x \in Backends \ {b} : back'[x] = back[x]
  BY BackTake
<1>3. m.kind \in {"answer", "ask"}
  <2>1. 1 \in DOMAIN back[b] /\ m = back[b][1]
    BY <1>1, <1>2, TailIs
  <2> QED BY <2>1 DEF BackShape
<1> QED BY <1>1, <1>2, <1>3, InTake

LEMMA RepliesLoopReads ==
  ASSUME Shapes, InOrder, Carried, Held, Coming, Going, LoopReads
  PROVE  Held' /\ Coming' /\ Going'
<1> PICK m : m = Head(inbox)
  OBVIOUS
<1>1. UNCHANGED <<srvSeq, back, initiated, resolved>> /\ Dropped(inbox, inbox')
  BY DEF LoopReads, Dropped, backendVars
<1>2. /\ IsSeq(inbox) /\ m = inbox[1] /\ 1 \in DOMAIN inbox /\ LinkShape
      /\ m.kind \in {"request", "reply", "cancel"}
  <2>1. IsSeq(inbox) /\ LinkShape /\ InboxKinds
    BY DEF Shapes, Sequential
  <2>2. m = inbox[1] /\ 1 \in DOMAIN inbox
    BY <1>1, <2>1, TailIs
  <2> QED BY <2>1, <2>2 DEF InboxKinds
<1>3. ASSUME serverRequests' = serverRequests,
             \A b \in Backends : /\ \A n : In(link'[b], Replies, n) <=> In(link[b], Replies, n)
                                 /\ Sole(link'[b], Replies) /\ Named(link'[b], b)
      PROVE  Held' /\ Coming' /\ Going'
  BY <1>1, <1>3 DEF Held, Coming, Going, Replied, Asking
<1>4. CASE m.kind = "request"
  <2>1. m.n \in DOMAIN requests
    BY <1>2, <1>4 DEF InOrder, Unread, In, Number
  <2>2. PICK r : r = requests[m.n]
    OBVIOUS
  <2>3. r.kind \in Kinds /\ (r.kind = "call" => r.b \in Backends)
    BY <2>1, <2>2 DEF Shapes, RequestKinds
  <2>4. /\ serverRequests' = serverRequests
        /\ link' = link \/ (r.kind = "call" /\ PutAt(link, r.b, [kind |-> "call", n |-> m.n]))
    BY <1>4, <2>2, <2>3 DEF LoopReads, Responds, Kinds
  <2>5. CASE link' = link
    BY <1>3, <2>4, <2>5 DEF Going
  <2>6. CASE r.kind = "call" /\ PutAt(link, r.b, [kind |-> "call", n |-> m.n])
    <3>1. PICK e : e = [kind |-> "call", n |-> m.n]
      OBVIOUS
    <3>2. e.kind = "call" /\ PutAt(link, r.b, e) /\ e.kind \notin Replies
      BY <2>6, <3>1 DEF Replies
    <3>3. /\ \A x \in Backends \ {r.b} : link'[x] = link[x]
          /\ \A n : In(link'[r.b], Replies, n) <=> In(link[r.b], Replies, n)
          /\ Sole(link[r.b], Replies) => Sole(link'[r.b], Replies)
          /\ Named(link[r.b], r.b) => Named(link'[r.b], r.b)
      BY <1>2, <2>3, <2>6, <3>2, LinkPutSays
    <3> QED BY <1>3, <2>4, <3>3 DEF Going
  <2> QED BY <2>4, <2>5, <2>6
<1>5. CASE m.kind # "request"
  <2>1. Route(m)
    BY <1>5 DEF LoopReads
  <2>2. serverRequests' = {s \in serverRequests : s.srv # m.srv}
    BY <2>1 DEF Route
  <2>3. m.kind \in Replies /\ Matches(m, srvSeq, serverRequests)
    BY <1>2, <1>5 DEF Replies, Carried, CarriedByClient
  <2>4. ASSUME NEW b \in Backends, ~HoldsFor(m.srv, b) PROVE link'[b] = link[b]
    BY <1>2, <2>1, <2>4, Routed, ConcatIs DEF LinkShape
  <2>5. CASE \A s \in serverRequests : s.srv # m.srv
    BY <1>3, <2>2, <2>4, <2>5 DEF HoldsFor, Going
  <2>6. ASSUME NEW h \in serverRequests, h.srv = m.srv PROVE Held' /\ Coming' /\ Going'
    <3>1. /\ h.b \in Backends /\ h.orig \in initiated[h.b] /\ h.orig \notin resolved[h.b]
          /\ ~In(link[h.b], Replies, h.orig) /\ ~In(back[h.b], {"ask"}, h.orig)
          /\ \A t \in serverRequests : t.srv = m.srv \/ (t.b = h.b /\ t.orig = h.orig) => t = h
      BY <2>6 DEF Held, Replied, Asking
    <3>2. HoldsFor(m.srv, h.b) /\ \A x \in Backends \ {h.b} : ~HoldsFor(m.srv, x)
      BY <2>6, <3>1 DEF HoldsFor
    <3>3. PICK e : e.kind = m.kind /\ e.orig = h.orig /\ e.what = m.what /\ link'[h.b] = link[h.b] \o <<e>>
      <4>1. PICK s \in serverRequests : /\ s.srv = m.srv
                                        /\ \E e : /\ e.kind = m.kind /\ e.orig = s.orig /\ e.what = m.what
                                                 /\ link'[h.b] = link[h.b] \o <<e>>
        <5>1. Forwarded(m, serverRequests, link[h.b], link'[h.b])
          BY <2>1, <3>1, <3>2, Routed
        <5> QED BY <5>1 DEF Forwarded
      <4>2. s = h
        BY <3>1, <4>1
      <4> QED BY <4>1, <4>2
    <3>4. IsSeq(link[h.b]) /\ Extended(link[h.b], e, link'[h.b])
      BY <1>2, <3>1, <3>3, ConcatIs DEF LinkShape, Extended
    <3>5. e.kind \in Replies /\ Number(e) = h.orig /\ e.what = <<h.b, e.orig>>
      BY <2>3, <2>6, <3>3 DEF Number, Replies, Matches
    <3>6. /\ \A n : In(link'[h.b], Replies, n) <=> In(link[h.b], Replies, n) \/ n = h.orig
          /\ Sole(link'[h.b], Replies)
      BY <3>1, <3>4, <3>5, InPut DEF Going
    <3>7. Named(link'[h.b], h.b)
      <4>1. \A i \in DOMAIN link'[h.b] : \/ i \in DOMAIN link[h.b] /\ link'[h.b][i] = link[h.b][i]
                                         \/ link'[h.b][i] = e
        BY <3>4, AppendIs
      <4> QED BY <3>1, <3>5, <4>1 DEF Going, Named
    <3>8. \A x \in Backends \ {h.b} : link'[x] = link[x]
      BY <2>4, <3>2
    <3>9. serverRequests' = serverRequests \ {h}
      BY <2>2, <2>6, <3>1
    <3>10. Held'
      <4>1. ASSUME NEW s \in serverRequests, s # h
            PROVE  /\ s.b \in Backends /\ s.orig \notin resolved[s.b] /\ ~In(link'[s.b], Replies, s.orig)
                   /\ ~In(back[s.b], {"ask"}, s.orig)
        <5>1. /\ s.b \in Backends /\ s.orig \notin resolved[s.b] /\ ~In(link[s.b], Replies, s.orig)
              /\ ~In(back[s.b], {"ask"}, s.orig)
          BY DEF Held, Replied, Asking
        <5> QED BY <3>1, <3>6, <3>8, <4>1, <5>1
      <4> QED BY <1>1, <3>9, <4>1 DEF Held, Replied, Asking
    <3>11. Coming'
      BY <1>1, <3>1, <3>6, <3>8 DEF Coming, Replied, Asking
    <3>12. Going'
      BY <1>1, <3>1, <3>6, <3>7, <3>8 DEF Going, Replied
    <3> QED BY <3>10, <3>11, <3>12
  <2> QED BY <2>5, <2>6
<1> QED BY <1>2, <1>4, <1>5

LEMMA RepliesReaderReads ==
  ASSUME Shapes, Held, Coming, Going, NEW b \in Backends, ReaderReads(b)
  PROVE  Held' /\ Coming' /\ Going'
<1> PICK m : m = Head(back[b])
  OBVIOUS
<1>1. UNCHANGED <<link, initiated, resolved>> /\ TakenFrom(back, b, back') /\ BackShape /\ srvSeq \in Nat
  BY DEF ReaderReads, TakenFrom, backendVars, Shapes, LoopShape
<1>2. /\ \A x \in Backends \ {b} : back'[x] = back[x]
      /\ m.kind \in {"answer", "ask"}
      /\ \A n : In(back[b], {"ask"}, n) <=> In(back'[b], {"ask"}, n) \/ (m.kind = "ask" /\ Number(m) = n)
      /\ Sole(back'[b], {"ask"}) /\ (m.kind = "ask" => ~In(back'[b], {"ask"}, Number(m)))
  <2>1. Sole(back[b], {"ask"})
    BY DEF Coming
  <2>2. /\ \A x \in Backends \ {b} : back'[x] = back[x]
        /\ m.kind \in {"answer", "ask"}
        /\ \A n : In(back[b], {"ask"}, n) <=> In(back'[b], {"ask"}, n) \/ (m.kind \in {"ask"} /\ Number(m) = n)
        /\ Sole(back[b], {"ask"}) => /\ Sole(back'[b], {"ask"})
                                     /\ m.kind \in {"ask"} => ~In(back'[b], {"ask"}, Number(m))
    BY <1>1, BackTakeSays
  <2> QED BY <2>1, <2>2
<1>3. Coming'
  BY <1>1, <1>2 DEF Coming, Asking, Replied
<1>4. Going'
  BY <1>1 DEF Going, Replied
<1>5. CASE IsAwaited(b, Number(m)) \/ m.kind = "answer"
  <2>1. UNCHANGED <<serverRequests, srvSeq>>
    BY <1>1, <1>5, ReaderSays
  <2>2. \A x \in Backends : \A n : In(back'[x], {"ask"}, n) => In(back[x], {"ask"}, n)
    BY <1>2
  <2> QED BY <1>1, <1>3, <1>4, <2>1, <2>2 DEF Held, Asking, Replied
<1>6. CASE ~IsAwaited(b, Number(m)) /\ m.kind = "ask"
  <2>1. PICK s : s = [srv |-> srvSeq + 1, b |-> b, orig |-> m.orig]
    OBVIOUS
  <2>2. srvSeq' = srvSeq + 1 /\ serverRequests' = serverRequests \cup {s}
    BY <1>1, <1>6, <2>1, ReaderSays
  <2>3. s.srv = srvSeq + 1 /\ s.b = b /\ s.orig = m.orig
    BY <2>1
  <2>4. Number(m) = m.orig
    BY <1>6 DEF Number
  <2>5. /\ In(back[b], {"ask"}, m.orig) /\ ~In(back'[b], {"ask"}, m.orig)
        /\ m.orig \in initiated[b] /\ m.orig \notin resolved[b] /\ ~In(link[b], Replies, m.orig)
    BY <1>2, <1>6, <2>4 DEF Coming, Asking, Replied
  <2>6. ASSUME NEW t \in serverRequests
        PROVE  /\ t.srv \in 1..srvSeq /\ t.b \in Backends /\ t.orig \in initiated[t.b]
               /\ t.orig \notin resolved[t.b] /\ ~In(link[t.b], Replies, t.orig)
               /\ ~In(back'[t.b], {"ask"}, t.orig) /\ ~(t.b = b /\ t.orig = m.orig)
    <3>1. /\ t.srv \in 1..srvSeq /\ t.b \in Backends /\ t.orig \in initiated[t.b]
          /\ t.orig \notin resolved[t.b] /\ ~In(link[t.b], Replies, t.orig)
          /\ ~In(back[t.b], {"ask"}, t.orig)
      BY DEF Held, Asking, Replied
    <3> QED BY <1>2, <2>5, <3>1
  <2>7. ASSUME NEW t \in serverRequests', NEW u \in serverRequests',
               u.srv = t.srv \/ (u.b = t.b /\ u.orig = t.orig)
        PROVE  u = t
    <3>1. CASE t \in serverRequests /\ u \in serverRequests
      BY <2>7, <3>1 DEF Held
    <3>2. CASE t = s /\ u = s
      BY <3>2
    <3>3. CASE t = s /\ u \in serverRequests
      BY <1>1, <2>3, <2>6, <2>7, <3>3
    <3>4. CASE u = s /\ t \in serverRequests
      BY <1>1, <2>3, <2>6, <2>7, <3>4
    <3> QED BY <2>2, <2>7, <3>1, <3>2, <3>3, <3>4
  <2>8. ASSUME NEW t \in serverRequests'
        PROVE  /\ t.srv \in 1..srvSeq' /\ t.b \in Backends /\ t.orig \in initiated[t.b]
               /\ t.orig \notin resolved[t.b] /\ ~In(link[t.b], Replies, t.orig)
               /\ ~In(back'[t.b], {"ask"}, t.orig)
    BY <1>1, <2>2, <2>3, <2>5, <2>6
  <2>9. Held'
    BY <1>1, <2>7, <2>8 DEF Held, Asking, Replied
  <2> QED BY <1>3, <1>4, <2>9
<1> QED BY <1>2, <1>5, <1>6

LEMMA RepliesBackendReads ==
  ASSUME Shapes, Held, Coming, Going, NEW b \in Backends, BackendReads(b)
  PROVE  Held' /\ Coming' /\ Going'
<1> PICK m : m = Head(link[b])
  OBVIOUS
<1>1. /\ UNCHANGED <<serverRequests, srvSeq, back, initiated>> /\ TakenFrom(link, b, link') /\ LinkShape
      /\ resolved = [x \in Backends |-> resolved[x]]
  BY DEF BackendReads, TakenFrom, serverVars, Shapes, BackendShape
<1>2. /\ \A x \in Backends \ {b} : link'[x] = link[x]
      /\ m.kind \in {"call", "reply", "cancel"}
      /\ \A n : In(link[b], Replies, n) <=> In(link'[b], Replies, n) \/ (m.kind \in Replies /\ Number(m) = n)
      /\ Sole(link'[b], Replies) /\ (m.kind \in Replies => ~In(link'[b], Replies, Number(m)))
      /\ Named(link'[b], b)
  <2>1. Sole(link[b], Replies) /\ Named(link[b], b)
    BY DEF Going
  <2>2. /\ \A x \in Backends \ {b} : link'[x] = link[x]
        /\ m.kind \in {"call", "reply", "cancel"}
        /\ \A n : In(link[b], Replies, n) <=> In(link'[b], Replies, n) \/ (m.kind \in Replies /\ Number(m) = n)
        /\ Sole(link[b], Replies) => /\ Sole(link'[b], Replies)
                                     /\ m.kind \in Replies => ~In(link'[b], Replies, Number(m))
        /\ Named(link[b], b) => Named(link'[b], b)
    BY <1>1, LinkTakeSays
  <2> QED BY <2>1, <2>2
<1>3. CASE m.kind = "call"
  <2>1. resolved' = resolved
    BY <1>3 DEF BackendReads
  <2>2. \A x \in Backends : \A n : In(link'[x], Replies, n) <=> In(link[x], Replies, n)
    BY <1>2, <1>3 DEF Replies
  <2>3. \A x \in Backends : Sole(link'[x], Replies) /\ Named(link'[x], x)
    BY <1>2 DEF Going
  <2> QED BY <1>1, <2>1, <2>2, <2>3 DEF Held, Coming, Going, Asking, Replied
<1>4. CASE m.kind \in Replies
  <2>1. resolved' = [resolved EXCEPT ![b] = @ \cup {m.orig}]
    BY <1>4 DEF BackendReads, Replies
  <2>2. /\ \A x \in Backends \ {b} : resolved'[x] = resolved[x]
        /\ resolved'[b] = resolved[b] \cup {m.orig}
    BY <1>1, <2>1
  <2>3. Number(m) = m.orig
    BY <1>4 DEF Number, Replies
  <2>4. In(link[b], Replies, m.orig) /\ ~In(link'[b], Replies, m.orig) /\ m.orig \in initiated[b]
    BY <1>2, <1>4, <2>3 DEF Going, Replied
  <2>5. \A x \in Backends : \A n : In(link'[x], Replies, n) => In(link[x], Replies, n)
    BY <1>2
  <2>6. Held'
    <3>1. ASSUME NEW s \in serverRequests PROVE s.orig \notin resolved'[s.b] /\ ~In(link'[s.b], Replies, s.orig)
      <4>1. s.b \in Backends /\ s.orig \notin resolved[s.b] /\ ~In(link[s.b], Replies, s.orig)
        BY DEF Held, Replied
      <4> QED BY <2>2, <2>4, <2>5, <4>1
    <3> QED BY <1>1, <3>1 DEF Held, Asking, Replied
  <2>7. Coming'
    BY <1>1, <2>2, <2>4, <2>5 DEF Coming, Asking, Replied
  <2>8. Going'
    <3>1. \A x \in Backends : Sole(link'[x], Replies) /\ Named(link'[x], x)
      BY <1>2 DEF Going
    <3> QED BY <1>1, <2>2, <2>4, <2>5, <3>1 DEF Going, Replied
  <2> QED BY <2>6, <2>7, <2>8
<1> QED BY <1>2, <1>3, <1>4 DEF Replies

LEMMA RepliesBackendAsks ==
  ASSUME Shapes, Held, Coming, Going, NEW b \in Backends, BackendAsks(b)
  PROVE  Held' /\ Coming' /\ Going'
<1>0. PICK k \in AskIds \ initiated[b] :
        /\ initiated' = [initiated EXCEPT ![b] = @ \cup {k}]
        /\ PutAt(back, b, [kind |-> "ask", orig |-> k])
  BY DEF BackendAsks
<1>1. PICK e : e = [kind |-> "ask", orig |-> k]
  OBVIOUS
<1>2. UNCHANGED <<serverRequests, srvSeq, link, resolved>> /\ PutAt(back, b, e)
  BY <1>0, <1>1 DEF BackendAsks, serverVars
<1>3. e.kind = "ask" /\ Number(e) = k
  BY <1>1 DEF Number
<1>4. BackShape /\ initiated = [x \in Backends |-> initiated[x]]
  BY DEF Shapes, BackendShape
<1>5. /\ \A x \in Backends \ {b} : initiated'[x] = initiated[x]
      /\ initiated'[b] = initiated[b] \cup {k}
  BY <1>0, <1>4
<1>6. /\ k \notin resolved[b] /\ ~In(link[b], Replies, k)
      /\ ~In(back[b], {"ask"}, k)
      /\ \A s \in serverRequests : s.b = b => s.orig # k
  <2>1. k \notin initiated[b]
    OBVIOUS
  <2> QED BY <2>1 DEF Held, Coming, Going, Asking, Replied
<1>7. /\ \A x \in Backends \ {b} : back'[x] = back[x]
      /\ \A n : In(back'[b], {"ask"}, n) <=> In(back[b], {"ask"}, n) \/ n = k
      /\ Sole(back'[b], {"ask"})
  <2>1. Sole(back[b], {"ask"})
    BY DEF Coming
  <2>2. /\ \A x \in Backends \ {b} : back'[x] = back[x]
        /\ \A n : In(back'[b], {"ask"}, n) <=> In(back[b], {"ask"}, n) \/ (e.kind \in {"ask"} /\ Number(e) = n)
        /\ Sole(back[b], {"ask"}) /\ (e.kind \in {"ask"} => ~In(back[b], {"ask"}, Number(e)))
             => Sole(back'[b], {"ask"})
    BY <1>2, <1>3, <1>4, BackPutSays
  <2> QED BY <1>3, <1>6, <2>1, <2>2
<1>8. \A x \in Backends : \A n : n \in initiated[x] => n \in initiated'[x]
  BY <1>5
<1>9. Held'
  <2>1. ASSUME NEW s \in serverRequests
        PROVE  s.b \in Backends /\ s.orig \in initiated'[s.b] /\ ~In(back'[s.b], {"ask"}, s.orig)
    <3>1. s.b \in Backends /\ s.orig \in initiated[s.b] /\ ~In(back[s.b], {"ask"}, s.orig)
      BY DEF Held, Asking
    <3> QED BY <1>6, <1>7, <1>8, <3>1
  <2> QED BY <1>2, <2>1 DEF Held, Asking, Replied
<1>10. Coming'
  <2>1. k \in initiated'[b]
    BY <1>5
  <2> QED BY <1>2, <1>6, <1>7, <1>8, <2>1 DEF Coming, Asking, Replied
<1>11. Going'
  BY <1>2, <1>8 DEF Going, Replied
<1> QED BY <1>9, <1>10, <1>11

LEMMA RepliesBackendAnswers ==
  ASSUME Shapes, Held, Coming, Going, NEW b \in Backends, BackendAnswers(b)
  PROVE  Held' /\ Coming' /\ Going'
<1>1. PICK e : e.kind = "answer" /\ PutAt(back, b, e)
  <2>1. PICK c \in owing[b] : PutAt(back, b, [kind |-> "answer", n |-> c.n])
    BY DEF BackendAnswers
  <2>2. [kind |-> "answer", n |-> c.n].kind = "answer"
    OBVIOUS
  <2> QED BY <2>1, <2>2
<1>2. UNCHANGED <<serverRequests, srvSeq, link, resolved, initiated>> /\ BackShape
  BY DEF BackendAnswers, serverVars, Shapes
<1>3. /\ \A x \in Backends \ {b} : back'[x] = back[x]
      /\ \A n : In(back'[b], {"ask"}, n) <=> In(back[b], {"ask"}, n) \/ (e.kind \in {"ask"} /\ Number(e) = n)
      /\ Sole(back[b], {"ask"}) /\ (e.kind \in {"ask"} => ~In(back[b], {"ask"}, Number(e)))
           => Sole(back'[b], {"ask"})
  BY <1>1, <1>2, BackPutSays
<1>4. \A x \in Backends : /\ \A n : In(back'[x], {"ask"}, n) <=> In(back[x], {"ask"}, n)
                          /\ Sole(back'[x], {"ask"})
  BY <1>1, <1>3 DEF Coming
<1> QED BY <1>2, <1>4 DEF Held, Coming, Going, Asking, Replied

LEMMA RepliesNext ==
  ASSUME Shapes, InOrder, ReplyInv, [Next]_vars
  PROVE  ReplyInv'
<1>0. Carried /\ Held /\ Coming /\ Going
  BY DEF ReplyInv
<1>1. Carried'
  BY <1>0, CarriedNext
<1>2. ASSUME UNCHANGED <<serverRequests, srvSeq, link, back, initiated, resolved>>
      PROVE  Held' /\ Coming' /\ Going'
  BY <1>0, <1>2 DEF Held, Coming, Going, Asking, Replied
<1>3. ASSUME \/ ClientLists \/ ClientReads \/ Expire \/ LoopSends \/ Drain \/ (\E p \in Publishers : PublishChecks(p)) \/ (\E p \in Publishers : PublishSends(p))
             \/ \E kind \in {"subscribe", "unsubscribe"} : ClientSubscribes(kind)
             \/ \E a \in asked : ClientReplies(a) \/ ClientCancels(a)
             \/ \E t \in Tasks : Look(t) \/ Lock(t) \/ Announce(t)
             \/ \E b \in Backends : ClientCalls(b) \/ BreakerFlips(b)
             \/ UNCHANGED vars
      PROVE  Held' /\ Coming' /\ Going'
  <2>1. UNCHANGED <<serverRequests, srvSeq, link, back, initiated, resolved>>
    BY <1>3 DEF ClientLists, ClientReads, Expire, LoopSends, Drain, PublishChecks, PublishSends,
                ClientSubscribes, ClientReplies, ClientCancels, Look, Lock, Announce, ClientCalls,
                BreakerFlips, Sends, vars, serverVars, backendVars
  <2> QED BY <1>2, <2>1
<1>4. ASSUME LoopReads PROVE Held' /\ Coming' /\ Going'
  BY <1>0, <1>4, RepliesLoopReads
<1>5. ASSUME NEW b \in Backends, ReaderReads(b) PROVE Held' /\ Coming' /\ Going'
  BY <1>0, <1>5, RepliesReaderReads
<1>6. ASSUME NEW b \in Backends, BackendReads(b) PROVE Held' /\ Coming' /\ Going'
  BY <1>0, <1>6, RepliesBackendReads
<1>7. ASSUME NEW b \in Backends, BackendAsks(b) PROVE Held' /\ Coming' /\ Going'
  BY <1>0, <1>7, RepliesBackendAsks
<1>8. ASSUME NEW b \in Backends, BackendAnswers(b) PROVE Held' /\ Coming' /\ Going'
  BY <1>0, <1>8, RepliesBackendAnswers
<1>9. Held' /\ Coming' /\ Going'
  BY <1>3, <1>4, <1>5, <1>6, <1>7, <1>8 DEF Next
<1> QED BY <1>1, <1>9 DEF ReplyInv

LEMMA RepliesAreHome == Shapes /\ Going => RepliesGoHome
<1> SUFFICES ASSUME Shapes, Going, NEW b \in Backends, NEW i \in DOMAIN link[b], link[b][i].kind # "call"
             PROVE  /\ link[b][i].what = <<b, link[b][i].orig>>
                    /\ link[b][i].orig \notin resolved[b]
                    /\ \A j \in DOMAIN link[b] : j # i /\ link[b][j].kind # "call" =>
                         link[b][j].orig # link[b][i].orig
  BY DEF RepliesGoHome
<1>1. \A j \in DOMAIN link[b] : link[b][j].kind # "call" => link[b][j].kind \in Replies
  BY DEF Shapes, LinkShape, Replies
<1>2. \A j \in DOMAIN link[b] : link[b][j].kind # "call" => Number(link[b][j]) = link[b][j].orig
  BY <1>1 DEF Replies, Number
<1>3. In(link[b], Replies, link[b][i].orig)
  BY <1>1, <1>2 DEF In
<1>4. Sole(link[b], Replies) /\ Named(link[b], b) /\ link[b][i].orig \notin resolved[b]
  BY <1>3 DEF Going, Replied
<1>5. link[b][i].what = <<b, link[b][i].orig>>
  BY <1>1, <1>4 DEF Named
<1>6. \A j \in DOMAIN link[b] : j # i /\ link[b][j].kind # "call" => link[b][j].orig # link[b][i].orig
  BY <1>1, <1>2, <1>4 DEF Sole
<1> QED BY <1>4, <1>5, <1>6

LEMMA RepliesInit == Init => ReplyInv
<1> SUFFICES ASSUME Init PROVE ReplyInv
  OBVIOUS
<1>1. Carried
  BY EmptyIs DEF Init, Carried, CarriedByRouter, CarriedByClient
<1>2. \A b \in Backends : link[b] = <<>> /\ back[b] = <<>> /\ resolved[b] = {}
  BY DEF Init
<1>3. Held /\ Coming /\ Going
  BY <1>2, EmptyIs, InEmpty DEF Init, Held, Coming, Going, Asking, Replied, Named
<1> QED BY <1>1, <1>3 DEF ReplyInv

-------------------------------------------------------------------------------
\* Answers.

\* What a backend works on, and which of it waits for the client.
LEMMA OwesAdd ==
  ASSUME NEW o, NEW k, NEW p, Single(o), ~Owes(o, k), p = o \cup {[n |-> k, ask |-> 0]}
  PROVE  Single(p) /\ \A n : Owes(p, n) <=> Owes(o, n) \/ n = k
<1>1. PICK c : c = [n |-> k, ask |-> 0]
  OBVIOUS
<1>2. c.n = k /\ c = [n |-> c.n, ask |-> c.ask] /\ p = o \cup {c}
  BY <1>1
<1> QED BY <1>2 DEF Single, Owes

Reworked(o, f, p) ==
  /\ p = {f[c] : c \in o}
  /\ \A c \in o : f[c].n = c.n /\ f[c] = [n |-> f[c].n, ask |-> f[c].ask]

LEMMA OwesKept ==
  ASSUME NEW o, NEW p, NEW f, Single(o), Reworked(o, f, p)
  PROVE  Single(p) /\ \A n : Owes(p, n) <=> Owes(o, n)
<1>1. \A c \in o : f[c] \in p /\ f[c].n = c.n
  BY DEF Reworked
<1>2. ASSUME NEW x \in p PROVE \E c \in o : x = f[c] /\ x.n = c.n /\ x = [n |-> x.n, ask |-> x.ask]
  <2>1. PICK c \in o : x = f[c]
    BY DEF Reworked
  <2> QED BY <2>1 DEF Reworked
<1>3. \A n : Owes(p, n) <=> Owes(o, n)
  BY <1>1, <1>2 DEF Owes
<1>4. ASSUME NEW x \in p, NEW y \in p, x.n = y.n PROVE x = y
  <2>1. PICK c \in o : x = f[c] /\ x.n = c.n
    BY <1>2
  <2>2. PICK d \in o : y = f[d] /\ y.n = d.n
    BY <1>2
  <2>3. c = d
    BY <1>4, <2>1, <2>2 DEF Single
  <2> QED BY <2>1, <2>2, <2>3
<1> QED BY <1>2, <1>3, <1>4 DEF Single

LEMMA OwesDrop ==
  ASSUME NEW o, NEW c \in o, NEW p, Single(o), p = o \ {c}
  PROVE  Single(p) /\ \A n : Owes(p, n) <=> Owes(o, n) /\ n # c.n
  BY DEF Single, Owes

LEMMA InOrderNext ==
  ASSUME Shapes, InOrder, OnePlace, [Next]_vars
  PROVE  InOrder'
<1>0. IsSeq(inbox) /\ IsSeq(requests) /\ InboxKinds
  BY DEF Shapes, Sequential
<1>1. ASSUME UNCHANGED <<inbox, requests>> PROVE InOrder'
  BY <1>1 DEF InOrder, Unread
<1>2. ASSUME NEW request, Sends(request) PROVE InOrder'
  <2>1. PICK e : e = [kind |-> "request", n |-> Len(requests) + 1]
    OBVIOUS
  <2>2. Extended(inbox, e, inbox') /\ Extended(requests, request, requests')
    BY <1>2, <2>1 DEF Sends, Put, Extended
  <2>3. e.kind = "request" /\ e.n = Len(requests) + 1 /\ Number(e) = Len(requests) + 1
    BY <2>1 DEF Number
  <2>4. /\ Len(requests) \in Nat /\ DOMAIN requests = 1..Len(requests)
        /\ DOMAIN requests' = 1..(Len(requests) + 1)
    BY <1>0, <2>2, SeqIs, AppendIs
  <2>5. \A n : Unread(n)' <=> Unread(n) \/ n = Len(requests) + 1
    BY <1>0, <2>2, <2>3, InPut DEF Unread
  <2>6. \A n : Unread(n) => n \in Nat /\ n < Len(requests) + 1
    BY <2>4 DEF InOrder
  <2>7. Increasing(inbox')
    <3>1. Increasing(inbox) /\ \A n : In(inbox, {"request"}, n) => n \in Nat /\ n < e.n
      BY <2>3, <2>6 DEF InOrder, Unread
    <3>2. e.n \in Nat
      BY <2>3, <2>4
    <3> QED BY <1>0, <2>2, <3>1, <3>2, IncreasingPut
  <2>8. ASSUME NEW n, Unread(n)' PROVE n \in DOMAIN requests' /\ \A m \in DOMAIN requests' : m > n => Unread(m)'
    <3>1. CASE Unread(n)
      BY <2>4, <2>5, <3>1 DEF InOrder
    <3>2. CASE n = Len(requests) + 1
      BY <2>4, <3>2
    <3> QED BY <2>5, <2>8, <3>1, <3>2
  <2> QED BY <2>7, <2>8 DEF InOrder
<1>3. ASSUME NEW e, Put(inbox, e), e.kind # "request", UNCHANGED requests PROVE InOrder'
  <2>1. Extended(inbox, e, inbox')
    BY <1>3 DEF Put, Extended
  <2>2. \A n : Unread(n)' <=> Unread(n)
    BY <1>0, <1>3, <2>1, InPut DEF Unread
  <2>3. Increasing(inbox')
    BY <1>0, <1>3, <2>1, IncreasingPut DEF InOrder
  <2> QED BY <1>3, <2>2, <2>3 DEF InOrder
<1>4. ASSUME LoopReads PROVE InOrder'
  <2>1. Dropped(inbox, inbox') /\ UNCHANGED requests
    BY <1>4 DEF LoopReads, Dropped, clientVars
  <2>2. PICK h : h = Head(inbox)
    OBVIOUS
  <2>3. /\ Increasing(inbox')
        /\ h.kind = "request" => \A n : In(inbox', {"request"}, n) => h.n \in Nat /\ n \in Nat /\ h.n < n
    BY <1>0, <2>1, <2>2, IncreasingTake DEF InOrder
  <2>4. \A n : Unread(n) <=> Unread(n)' \/ (h.kind = "request" /\ h.n = n)
    <3>1. \A n : Unread(n) <=> Unread(n)' \/ (h.kind \in {"request"} /\ Number(h) = n)
      BY <1>0, <2>1, <2>2, InTake DEF Unread
    <3>2. h.kind = "request" => Number(h) = h.n
      BY DEF Number
    <3> QED BY <3>1, <3>2
  <2>5. ASSUME NEW n, Unread(n)' PROVE n \in DOMAIN requests' /\ \A m \in DOMAIN requests' : m > n => Unread(m)'
    <3>1. n \in DOMAIN requests' /\ \A m \in DOMAIN requests' : m > n => Unread(m)
      BY <2>1, <2>4, <2>5 DEF InOrder
    <3>2. h.kind = "request" => \A m \in DOMAIN requests' : m > n => h.n # m
      BY <1>0, <2>1, <2>3, <2>5, SeqIs DEF Unread
    <3> QED BY <2>4, <3>1, <3>2
  <2> QED BY <2>3, <2>5 DEF InOrder
<1>5. CASE ClientLists \/ (\E kind \in {"subscribe", "unsubscribe"} : ClientSubscribes(kind))
           \/ \E b \in Backends : ClientCalls(b)
  BY <1>2, <1>5 DEF ClientLists, ClientSubscribes, ClientCalls
<1>6. ASSUME NEW a, ClientReplies(a) \/ ClientCancels(a) PROVE InOrder'
  <2>1. UNCHANGED requests
    BY <1>6 DEF ClientReplies, ClientCancels
  <2>2. PICK e : Put(inbox, e) /\ e.kind # "request"
    <3>1. \/ Put(inbox, [kind |-> "reply", srv |-> a.srv, what |-> a.what])
          \/ Put(inbox, [kind |-> "cancel", srv |-> a.srv, what |-> a.what])
      BY <1>6 DEF ClientReplies, ClientCancels
    <3>2. /\ [kind |-> "reply", srv |-> a.srv, what |-> a.what].kind # "request"
          /\ [kind |-> "cancel", srv |-> a.srv, what |-> a.what].kind # "request"
      OBVIOUS
    <3> QED BY <3>1, <3>2
  <2> QED BY <1>3, <2>1, <2>2
<1>7. ASSUME \/ ClientReads \/ Expire \/ LoopSends \/ Drain \/ (\E p \in Publishers : PublishChecks(p)) \/ (\E p \in Publishers : PublishSends(p))
             \/ \E t \in Tasks : Look(t) \/ Lock(t) \/ Announce(t)
             \/ \E b \in Backends : BreakerFlips(b) \/ ReaderReads(b) \/ BackendReads(b) \/ BackendAsks(b)
                                    \/ BackendAnswers(b)
             \/ UNCHANGED vars
      PROVE  InOrder'
  <2>1. UNCHANGED <<inbox, requests>>
    BY <1>7 DEF ClientReads, Expire, LoopSends, Drain, PublishChecks, PublishSends, Look, Lock, Announce,
                BreakerFlips, ReaderReads, BackendReads, BackendAsks, BackendAnswers, vars, clientVars
  <2> QED BY <1>1, <2>1
<1> QED BY <1>4, <1>5, <1>6, <1>7 DEF Next

LEMMA EmittingNext ==
  ASSUME Shapes, Emitting, [Next]_vars
  PROVE  Emitting'
<1>0. Loop \in Tasks
  BY DEF Tasks
<1>1. ASSUME at' = at, at[Loop] # "idle" => loop' = loop PROVE Emitting'
  BY <1>1 DEF Emitting
<1>2. ASSUME LoopReads \/ Expire \/ LoopSends \/ \E b \in Backends : ReaderReads(b) PROVE Emitting'
  <2>1. at' = at
    BY <1>2 DEF LoopReads, Expire, LoopSends, ReaderReads, watchVars
  <2>2. at[Loop] # "idle" => loop' = loop
    <3>1. CASE LoopReads \/ Expire \/ LoopSends
      BY <3>1 DEF LoopReads, Expire, LoopSends, Emitting
    <3>2. ASSUME NEW b \in Backends, ReaderReads(b), loop.at # "awaiting" PROVE loop' = loop
      <4>1. PICK m : m = Head(back[b])
        OBVIOUS
      <4>2. ~IsAwaited(b, Number(m)) /\ BackShape
        BY <3>2 DEF IsAwaited, Shapes
      <4> QED BY <3>2, <4>1, <4>2, ReaderSays
    <3> QED BY <1>2, <3>1, <3>2 DEF Emitting
  <2> QED BY <1>1, <2>1, <2>2
<1>3. ASSUME NEW t \in Tasks, Look(t) PROVE Emitting'
  BY <1>0, <1>3 DEF Look, Emitting
<1>4. ASSUME NEW t \in Tasks, Lock(t) \/ Announce(t) PROVE Emitting'
  <2>1. CASE Announce(t)
    BY <1>0, <2>1 DEF Announce, Done, Emitting
  <2>2. CASE Lock(t) /\ Changed(t)
    BY <1>0, <2>2 DEF Lock, Emitting
  <2>3. CASE Lock(t) /\ ~Changed(t)
    BY <1>0, <2>3 DEF Lock, Done, Emitting
  <2> QED BY <1>4, <2>1, <2>2, <2>3
<1>5. ASSUME \/ ClientLists \/ ClientReads \/ Drain \/ (\E p \in Publishers : PublishChecks(p)) \/ (\E p \in Publishers : PublishSends(p))
             \/ \E kind \in {"subscribe", "unsubscribe"} : ClientSubscribes(kind)
             \/ \E a \in asked : ClientReplies(a) \/ ClientCancels(a)
             \/ \E b \in Backends : ClientCalls(b) \/ BreakerFlips(b) \/ BackendReads(b) \/ BackendAsks(b)
                                    \/ BackendAnswers(b)
             \/ UNCHANGED vars
      PROVE  Emitting'
  <2>1. UNCHANGED <<at, loop>>
    BY <1>5 DEF ClientLists, ClientReads, Drain, PublishChecks, PublishSends, ClientSubscribes, ClientReplies,
                ClientCancels, ClientCalls, BreakerFlips, BackendReads, BackendAsks, BackendAnswers, Sends,
                vars, watchVars
  <2> QED BY <1>1, <2>1
<1> QED BY <1>2, <1>3, <1>4, <1>5 DEF Next

LEMMA OnePlaceNext ==
  ASSUME Shapes, InOrder, OnePlace, Emitting, [Next]_vars
  PROVE  OnePlace'
<1>0. /\ IsSeq(inbox) /\ IsSeq(requests) /\ IsSeq(answers) /\ IsSeq(out) /\ IsSeq(sink)
      /\ Len(answers) = Len(requests) /\ SinkKinds
      /\ DOMAIN answers = DOMAIN requests /\ DOMAIN requests = 1..Len(requests) /\ Len(requests) \in Nat
  <2>1. /\ IsSeq(inbox) /\ IsSeq(requests) /\ IsSeq(answers) /\ IsSeq(out) /\ IsSeq(sink)
        /\ Len(answers) = Len(requests) /\ SinkKinds
    BY DEF Shapes, Sequential
  <2> QED BY <2>1, SeqIs
<1>1. ASSUME UNCHANGED <<requests, answers, out, inbox>>, loop' = loop \/ loop'.at \in {"reading", "emitting"}
      PROVE  OnePlace'
  BY <1>1 DEF OnePlace, Unread, InHand, OnItsWay
<1>2. ASSUME NEW request, Sends(request) PROVE OnePlace'
  <2>1. PICK e : e = [kind |-> "request", n |-> Len(requests) + 1]
    OBVIOUS
  <2>2. /\ Extended(inbox, e, inbox') /\ Extended(requests, request, requests')
        /\ Extended(answers, <<>>, answers') /\ UNCHANGED <<loop, out>>
    BY <1>2, <2>1 DEF Sends, Put, Extended
  <2>3. e.kind = "request" /\ Number(e) = Len(requests) + 1
    BY <2>1 DEF Number
  <2>4. /\ DOMAIN requests' = DOMAIN requests \cup {Len(requests) + 1} /\ Len(requests) + 1 \notin DOMAIN requests
        /\ \A n \in DOMAIN requests : answers'[n] = answers[n]
        /\ answers'[Len(requests) + 1] = <<>>
    <3>1. IsSeq(requests') /\ Len(requests') = Len(requests) + 1
      BY <1>0, <2>2, AppendIs
    <3>2. DOMAIN requests' = 1..(Len(requests) + 1)
      BY <3>1, SeqIs
    <3>3. /\ Len(answers') = Len(answers) + 1 /\ answers'[Len(answers')] = <<>>
          /\ \A n \in DOMAIN answers : answers'[n] = answers[n]
      BY <1>0, <2>2, AppendIs
    <3> QED BY <1>0, <3>2, <3>3
  <2>5. \A n : Unread(n)' <=> Unread(n) \/ n = Len(requests) + 1
    BY <1>0, <2>2, <2>3, InPut DEF Unread
  <2>6. \A n : (InHand(n)' <=> InHand(n)) /\ (OnItsWay(n)' <=> OnItsWay(n))
    BY <2>2 DEF InHand, OnItsWay
  <2>7. \A n : InHand(n) \/ OnItsWay(n) => n \in DOMAIN requests
    BY DEF OnePlace, InHand
  <2>8. Len(<<>>) <= 1
    BY EmptyIs
  <2> QED BY <2>2, <2>4, <2>5, <2>6, <2>7, <2>8 DEF OnePlace
<1>3. ASSUME NEW e, Put(inbox, e), e.kind # "request", UNCHANGED <<requests, answers, out, loop>> PROVE OnePlace'
  <2>1. Extended(inbox, e, inbox')
    BY <1>3 DEF Put, Extended
  <2>2. \A n : Unread(n)' <=> Unread(n)
    BY <1>0, <1>3, <2>1, InPut DEF Unread
  <2> QED BY <1>3, <2>2 DEF OnePlace, InHand, OnItsWay
<1>4. ASSUME NEW e, Put(out, e), e.kind # "response", UNCHANGED <<requests, answers, inbox>>,
             loop' = loop \/ loop'.at \in {"reading", "emitting"}
      PROVE  OnePlace'
  <2>1. Extended(out, e, out')
    BY <1>4 DEF Put, Extended
  <2>2. (\A n : OnItsWay(n)' <=> OnItsWay(n)) /\ Sole(out', {"response"})
    BY <1>0, <1>4, <2>1, InPut DEF OnItsWay, OnePlace
  <2> QED BY <1>4, <2>2 DEF OnePlace, InHand, Unread
<1>5. ASSUME ClientReads PROVE OnePlace'
  <2>1. PICK m : m = Head(out)
    OBVIOUS
  <2>2. /\ Dropped(out, out') /\ UNCHANGED <<requests, inbox, loop>>
        /\ answers' = IF m.kind = "response" THEN [answers EXCEPT ![m.n] = Append(@, m.says)] ELSE answers
    BY <1>5, <2>1 DEF ClientReads, Dropped
  <2>3. /\ \A n : OnItsWay(n) <=> OnItsWay(n)' \/ (m.kind = "response" /\ Number(m) = n)
        /\ Sole(out', {"response"}) /\ (m.kind = "response" => ~OnItsWay(Number(m))')
    <3>1. Sole(out, {"response"})
      BY DEF OnePlace
    <3>2. /\ \A n : In(out, {"response"}, n) <=> In(out', {"response"}, n)
                                                \/ (m.kind \in {"response"} /\ Number(m) = n)
          /\ Sole(out, {"response"}) => /\ Sole(out', {"response"})
                                        /\ m.kind \in {"response"} => ~In(out', {"response"}, Number(m))
      BY <1>0, <2>1, <2>2, InTake
    <3> QED BY <3>1, <3>2 DEF OnItsWay
  <2>4. CASE m.kind # "response"
    BY <2>2, <2>3, <2>4 DEF OnePlace, InHand, Unread
  <2>5. CASE m.kind = "response"
    <3>1. Number(m) = m.n
      BY <2>5 DEF Number
    <3>2. /\ OnItsWay(m.n) /\ m.n \in DOMAIN requests /\ ~OnItsWay(m.n)'
          /\ answers[m.n] = <<>> /\ ~Unread(m.n) /\ ~InHand(m.n)
      BY <2>3, <2>5, <3>1 DEF OnePlace
    <3>3. Extended(answers[m.n], m.says, answers'[m.n])
          /\ \A n \in DOMAIN requests : n # m.n => answers'[n] = answers[n]
      BY <1>0, <2>2, <2>5, <3>2, SeqIs DEF Extended, IsSeq
    <3>4. Len(answers'[m.n]) = 1
      <4>1. PICK s, t : s = answers[m.n] /\ t = answers'[m.n]
        OBVIOUS
      <4>2. IsSeq(s) /\ Len(s) = 0 /\ Extended(s, m.says, t)
        BY <3>2, <3>3, <4>1, EmptyIs
      <4>3. Len(t) = Len(s) + 1
        BY <4>2, AppendIs
      <4> QED BY <4>1, <4>2, <4>3
    <3>5. \A n : (Unread(n)' <=> Unread(n)) /\ (InHand(n)' <=> InHand(n))
      BY <2>2 DEF Unread, InHand
    <3>6. ASSUME NEW n \in DOMAIN requests'
          PROVE  /\ Unread(n)' => ~InHand(n)' /\ ~OnItsWay(n)' /\ answers'[n] = <<>>
                 /\ InHand(n)' => ~OnItsWay(n)' /\ answers'[n] = <<>>
                 /\ OnItsWay(n)' => answers'[n] = <<>>
                 /\ Len(answers'[n]) <= 1
      <4>1. n \in DOMAIN requests
        BY <2>2
      <4>2. CASE n = m.n
        <5>1. ~Unread(n) /\ ~InHand(n) /\ ~OnItsWay(n)' /\ Len(answers'[n]) = 1
          BY <3>2, <3>4, <4>2
        <5> QED BY <3>5, <5>1
      <4>3. CASE n # m.n
        <5>1. answers'[n] = answers[n]
          BY <3>3, <4>1, <4>3
        <5> QED BY <2>3, <3>5, <4>1, <5>1 DEF OnePlace
      <4> QED BY <4>2, <4>3
    <3> QED BY <2>2, <2>3, <3>6 DEF OnePlace
  <2> QED BY <2>4, <2>5
<1>6. ASSUME LoopReads PROVE OnePlace'
  <2>1. PICK h : h = Head(inbox)
    OBVIOUS
  <2>2. Dropped(inbox, inbox') /\ UNCHANGED <<requests, answers, out>> /\ loop.at = "reading"
    BY <1>6 DEF LoopReads, Dropped, clientVars
  <2>3. /\ h.kind \in {"request", "reply", "cancel"}
        /\ \A n : Unread(n) <=> Unread(n)' \/ (h.kind = "request" /\ Number(h) = n)
    <3>1. h = inbox[1] /\ 1 \in DOMAIN inbox
      BY <1>0, <2>1, <2>2, TailIs
    <3>2. \A n : In(inbox, {"request"}, n) <=> In(inbox', {"request"}, n)
                                               \/ (h.kind \in {"request"} /\ Number(h) = n)
      BY <1>0, <2>1, <2>2, InTake
    <3> QED BY <3>1, <3>2 DEF Unread, Shapes, InboxKinds
  <2>4. CASE h.kind # "request"
    <3>1. loop' = loop
      BY <1>6, <2>1, <2>4 DEF LoopReads
    <3> QED BY <2>2, <2>3, <3>1 DEF OnePlace, InHand, OnItsWay
  <2>5. CASE h.kind = "request"
    <3>1. Number(h) = h.n
      BY <2>5 DEF Number
    <3>2. h.n \in DOMAIN requests /\ Unread(h.n) /\ ~Unread(h.n)'
      <4>1. h.kind = "request" => \A n : In(inbox', {"request"}, n) => h.n \in Nat /\ n \in Nat /\ h.n < n
        BY <1>0, <2>1, <2>2, IncreasingTake DEF InOrder
      <4>2. ~Unread(h.n)'
        BY <2>5, <4>1 DEF Unread
      <4> QED BY <2>3, <2>5, <3>1, <4>2 DEF InOrder
    <3>3. loop'.at \in {"awaiting", "sending"} /\ loop'.n = h.n
      BY <1>6, <2>1, <2>5 DEF LoopReads, Responds
    <3>4. ~OnItsWay(h.n) /\ answers[h.n] = <<>>
      BY <3>2 DEF OnePlace
    <3>5. \A n : /\ InHand(n)' => n = h.n
                 /\ Unread(n)' => Unread(n) /\ n # h.n
                 /\ OnItsWay(n)' <=> OnItsWay(n)
      BY <2>2, <2>3, <3>2, <3>3 DEF InHand, OnItsWay
    <3> QED BY <2>2, <3>2, <3>3, <3>4, <3>5 DEF OnePlace
  <2> QED BY <2>4, <2>5
<1>7. ASSUME loop.at = "awaiting", loop'.at = "sending", loop'.n = loop.n, UNCHANGED <<requests, answers, out, inbox>>
      PROVE  OnePlace'
  <2>1. \A n : (InHand(n)' <=> InHand(n)) /\ (Unread(n)' <=> Unread(n)) /\ (OnItsWay(n)' <=> OnItsWay(n))
    BY <1>7 DEF InHand, Unread, OnItsWay
  <2> QED BY <1>7, <2>1 DEF OnePlace
<1>8. ASSUME Expire PROVE OnePlace'
  BY <1>7, <1>8 DEF Expire, Responds, clientVars
<1>9. ASSUME LoopSends PROVE OnePlace'
  <2>1. PICK e : e = [kind |-> "response", n |-> loop.n, says |-> loop.says]
    OBVIOUS
  <2>2. /\ Extended(out, e, out') /\ UNCHANGED <<requests, answers, inbox>>
        /\ loop.at = "sending" /\ loop' = [loop EXCEPT !.at = "emitting"]
    BY <1>9, <2>1 DEF LoopSends, Put, Extended, clientVars
  <2>3. loop'.at = "emitting"
    BY <2>2 DEF Shapes, LoopShape
  <2>4. e.kind = "response" /\ Number(e) = loop.n
    BY <2>1 DEF Number
  <2>5. InHand(loop.n) /\ loop.n \in DOMAIN requests
    BY <2>2 DEF InHand, OnePlace
  <2>6. ~OnItsWay(loop.n) /\ answers[loop.n] = <<>> /\ ~Unread(loop.n)
    BY <2>5 DEF OnePlace
  <2>7. (\A n : OnItsWay(n)' <=> OnItsWay(n) \/ n = loop.n) /\ Sole(out', {"response"})
    <3>1. /\ \A n : In(out', {"response"}, n) <=> In(out, {"response"}, n)
                                                  \/ (e.kind \in {"response"} /\ Number(e) = n)
          /\ Sole(out, {"response"}) /\ (e.kind \in {"response"} => ~In(out, {"response"}, Number(e)))
               => Sole(out', {"response"})
      BY <1>0, <2>2, InPut
    <3> QED BY <2>4, <2>6, <3>1 DEF OnItsWay, OnePlace
  <2>8. \A n : ~InHand(n)' /\ (Unread(n)' <=> Unread(n))
    BY <2>2, <2>3 DEF InHand, Unread
  <2> QED BY <2>2, <2>3, <2>5, <2>6, <2>7, <2>8 DEF OnePlace
<1>10. ASSUME Drain PROVE OnePlace'
  <2>1. Dropped(sink, sink') /\ Put(out, Head(sink)) /\ UNCHANGED <<requests, answers, inbox, loop>>
    BY <1>10 DEF Drain, Dropped, clientVars
  <2>2. Head(sink).kind # "response"
    <3>1. 1 \in DOMAIN sink /\ Head(sink) = sink[1]
      BY <1>0, <2>1, TailIs
    <3> QED BY <1>0, <3>1 DEF SinkKinds
  <2> QED BY <1>4, <2>1, <2>2
<1>11. ASSUME NEW b \in Backends, ReaderReads(b) PROVE OnePlace'
  <2>1. UNCHANGED <<requests, answers, inbox, out>> /\ BackShape
    BY <1>11 DEF ReaderReads, clientVars, Shapes
  <2>2. PICK m : m = Head(back[b])
    OBVIOUS
  <2>3. CASE IsAwaited(b, Number(m))
    <3>1. loop' = [at |-> "sending", n |-> loop.n, says |-> "ok"] /\ loop.at = "awaiting"
      BY <1>11, <2>1, <2>2, <2>3, ReaderSays
    <3>2. loop'.at = "sending" /\ loop'.n = loop.n
      BY <3>1
    <3> QED BY <1>7, <2>1, <3>1, <3>2
  <2>4. CASE ~IsAwaited(b, Number(m))
    <3>1. loop' = loop
      BY <1>11, <2>1, <2>2, <2>4, ReaderSays
    <3> QED BY <1>1, <2>1, <3>1
  <2> QED BY <2>3, <2>4
<1>12. ASSUME NEW a, ClientReplies(a) \/ ClientCancels(a) PROVE OnePlace'
  <2>1. UNCHANGED <<requests, answers, out, loop>>
    BY <1>12 DEF ClientReplies, ClientCancels
  <2>2. PICK e : Put(inbox, e) /\ e.kind # "request"
    <3>1. \/ Put(inbox, [kind |-> "reply", srv |-> a.srv, what |-> a.what])
          \/ Put(inbox, [kind |-> "cancel", srv |-> a.srv, what |-> a.what])
      BY <1>12 DEF ClientReplies, ClientCancels
    <3>2. /\ [kind |-> "reply", srv |-> a.srv, what |-> a.what].kind # "request"
          /\ [kind |-> "cancel", srv |-> a.srv, what |-> a.what].kind # "request"
      OBVIOUS
    <3> QED BY <3>1, <3>2
  <2> QED BY <1>3, <2>1, <2>2
<1>13. ASSUME NEW t \in Tasks, Lock(t) \/ Look(t) \/ Announce(t) PROVE OnePlace'
  <2>1. loop' = loop \/ loop'.at = "reading"
    BY <1>13 DEF Lock, Look, Announce, Done
  <2>2. UNCHANGED <<requests, answers, inbox>>
    BY <1>13 DEF Lock, Look, Announce, clientVars
  <2>3. CASE Lock(t) \/ Look(t)
    BY <1>1, <2>1, <2>2, <2>3 DEF Lock, Look
  <2>4. CASE Announce(t)
    <3>1. Put(out, [kind |-> "changed"])
      BY <2>4 DEF Announce
    <3>2. [kind |-> "changed"].kind # "response"
      OBVIOUS
    <3> QED BY <1>4, <2>1, <2>2, <3>1, <3>2
  <2> QED BY <1>13, <2>3, <2>4
<1>14. ASSUME NEW p \in Publishers, PublishSends(p) PROVE OnePlace'
  <2>1. Put(out, [kind |-> "updated", p |-> p]) /\ UNCHANGED <<requests, answers, inbox, loop>>
    BY <1>14 DEF PublishSends, clientVars
  <2>2. [kind |-> "updated", p |-> p].kind # "response"
    OBVIOUS
  <2> QED BY <1>4, <2>1, <2>2
<1>15. ASSUME \/ (\E p \in Publishers : PublishChecks(p)) \/ UNCHANGED vars
              \/ \E b \in Backends : BreakerFlips(b) \/ BackendReads(b) \/ BackendAsks(b) \/ BackendAnswers(b)
       PROVE  OnePlace'
  <2>1. UNCHANGED <<requests, answers, inbox, out, loop>>
    BY <1>15 DEF PublishChecks, BreakerFlips, BackendReads, BackendAsks, BackendAnswers, vars, clientVars
  <2> QED BY <1>1, <2>1
<1>16. CASE ClientLists \/ (\E kind \in {"subscribe", "unsubscribe"} : ClientSubscribes(kind))
            \/ \E b \in Backends : ClientCalls(b)
  BY <1>2, <1>16 DEF ClientLists, ClientSubscribes, ClientCalls
<1> QED BY <1>5, <1>6, <1>8, <1>9, <1>10, <1>11, <1>12, <1>13, <1>14, <1>15, <1>16 DEF Next

LEMMA WorksWait ==
  ASSUME Works, UNCHANGED <<link, owing, back>>, expired \subseteq expired', taken \subseteq taken',
         \A n \in DOMAIN requests : /\ n \in DOMAIN requests' /\ requests'[n] = requests[n]
                                    /\ ~Unread(n) => ~Unread(n)',
         loop.at = "awaiting" => loop.n \in expired' \/ (loop'.at = "awaiting" /\ loop'.n = loop.n)
  PROVE  Works'
<1>1. ASSUME NEW b \in Backends, NEW n, Worked(b, n)' PROVE Awaited(b, n)'
  <2>1. Worked(b, n)
    BY <1>1 DEF Worked
  <2>2. Awaited(b, n)
    BY <2>1 DEF Works
  <2>3. n \in expired' \/ <<b, n>> \in taken' \/ (loop'.at = "awaiting" /\ loop'.n = n)
    BY <2>2 DEF Awaited
  <2> QED BY <2>2, <2>3 DEF Awaited
<1> QED BY <1>1 DEF Works

\* A step that moves work between places of one backend.
LEMMA WorksMove ==
  ASSUME Works, NEW b \in Backends, UNCHANGED <<requests, inbox, expired, taken>>,
         \A x \in Backends \ {b} : link'[x] = link[x] /\ owing'[x] = owing[x] /\ back'[x] = back[x],
         Once(link'[b], owing'[b], back'[b]),
         \A n : Worked(b, n)' => Worked(b, n),
         loop' = loop \/ \A x \in Backends : \A n : Worked(x, n)' => n # loop.n
  PROVE  Works'
<1>1. ASSUME NEW x \in Backends, NEW n, Worked(x, n)' PROVE Awaited(x, n)'
  <2>1. Worked(x, n)
    <3>1. CASE x = b
      BY <1>1, <3>1
    <3>2. CASE x # b
      BY <1>1, <3>2 DEF Worked
    <3> QED BY <3>1, <3>2
  <2>2. Awaited(x, n)
    BY <2>1 DEF Works
  <2>3. n \in expired \/ <<x, n>> \in taken \/ (loop'.at = "awaiting" /\ loop'.n = n)
    <3>1. CASE loop' = loop
      BY <2>2, <3>1 DEF Awaited
    <3>2. CASE loop' # loop
      <4>1. n # loop.n
        BY <1>1, <3>2
      <4> QED BY <2>2, <4>1 DEF Awaited
    <3> QED BY <3>1, <3>2
  <2> QED BY <2>2, <2>3 DEF Awaited, Unread
<1>2. ASSUME NEW x \in Backends PROVE Once(link'[x], owing'[x], back'[x])
  BY DEF Works
<1> QED BY <1>1, <1>2 DEF Works

LEMMA RouteKeepsCalls ==
  ASSUME LinkShape, NEW m, m.kind # "call", Route(m), NEW b \in Backends
  PROVE  /\ \A n : In(link'[b], {"call"}, n) <=> In(link[b], {"call"}, n)
         /\ Sole(link[b], {"call"}) => Sole(link'[b], {"call"})
<1>1. IsSeq(link[b])
  BY DEF LinkShape
<1>2. CASE ~HoldsFor(m.srv, b)
  <2>1. link'[b] = link[b]
    BY <1>1, <1>2, Routed, ConcatIs
  <2> QED BY <2>1
<1>3. CASE HoldsFor(m.srv, b)
  <2>1. PICK e : e.kind # "call" /\ link'[b] = link[b] \o <<e>>
    <3>1. Forwarded(m, serverRequests, link[b], link'[b])
      BY <1>3, Routed
    <3> QED BY <3>1 DEF Forwarded
  <2>2. Extended(link[b], e, link'[b])
    BY <1>1, <2>1, ConcatIs DEF Extended
  <2> QED BY <1>1, <2>1, <2>2, InPut
<1> QED BY <1>2, <1>3

LEMMA WorksLoopReads ==
  ASSUME Shapes, InOrder, Works, LoopReads
  PROVE  Works'
<1>1. PICK h : h = Head(inbox)
  OBVIOUS
<1>2. /\ Dropped(inbox, inbox') /\ UNCHANGED <<requests, owing, back, expired, taken>> /\ loop.at = "reading"
      /\ IsSeq(inbox) /\ LinkShape
  BY DEF LoopReads, Dropped, clientVars, backendVars, Shapes, Sequential
<1>3. /\ h.kind \in {"request", "reply", "cancel"}
      /\ \A n : Unread(n) <=> Unread(n)' \/ (h.kind = "request" /\ Number(h) = n)
  <2>1. h = inbox[1] /\ 1 \in DOMAIN inbox
    BY <1>1, <1>2, TailIs
  <2>2. \A n : In(inbox, {"request"}, n) <=> In(inbox', {"request"}, n)
                                             \/ (h.kind \in {"request"} /\ Number(h) = n)
    BY <1>1, <1>2, InTake
  <2> QED BY <2>1, <2>2 DEF Unread, Shapes, InboxKinds
<1>4. \A n : ~Unread(n) => ~Unread(n)'
  BY <1>3
<1>5. ASSUME NEW b \in Backends, NEW n, Worked(b, n) PROVE Awaited(b, n)'
  <2>1. Awaited(b, n)
    BY <1>5 DEF Works
  <2> QED BY <1>2, <1>4, <2>1 DEF Awaited
<1>6. CASE h.kind # "request"
  <2>1. Route(h)
    BY <1>1, <1>6 DEF LoopReads
  <2>2. \A b \in Backends : /\ \A n : In(link'[b], {"call"}, n) <=> In(link[b], {"call"}, n)
                            /\ Sole(link[b], {"call"}) => Sole(link'[b], {"call"})
    BY <1>2, <1>3, <1>6, <2>1, RouteKeepsCalls
  <2>3. \A b \in Backends : \A n : Worked(b, n)' => Worked(b, n)
    BY <1>2, <2>2 DEF Worked
  <2>4. \A b \in Backends : Once(link'[b], owing'[b], back'[b])
    BY <1>2, <2>2 DEF Works, Once
  <2> QED BY <1>5, <2>3, <2>4 DEF Works
<1>7. CASE h.kind = "request"
  <2>1. Number(h) = h.n
    BY <1>7 DEF Number
  <2>2. h.n \in DOMAIN requests /\ Unread(h.n) /\ ~Unread(h.n)'
    <3>1. h.kind = "request" => \A n : In(inbox', {"request"}, n) => h.n \in Nat /\ n \in Nat /\ h.n < n
      BY <1>1, <1>2, IncreasingTake DEF InOrder
    <3>2. ~Unread(h.n)'
      BY <1>7, <3>1 DEF Unread
    <3> QED BY <1>3, <1>7, <2>1, <3>2 DEF InOrder
  <2>3. PICK r : r = requests[h.n]
    OBVIOUS
  <2>4. r.kind \in Kinds /\ (r.kind = "call" => r.b \in Backends)
    BY <2>2, <2>3 DEF Shapes, RequestKinds
  <2>5. \/ link' = link
        \/ /\ r.kind = "call" /\ PutAt(link, r.b, [kind |-> "call", n |-> h.n])
           /\ loop' = [at |-> "awaiting", n |-> h.n, says |-> "ok"]
    BY <1>1, <1>7, <2>3, <2>4 DEF LoopReads, Responds, Kinds
  <2>6. CASE link' = link
    BY <1>2, <1>4, <2>6, WorksWait
  <2>7. CASE r.kind = "call" /\ PutAt(link, r.b, [kind |-> "call", n |-> h.n])
             /\ loop' = [at |-> "awaiting", n |-> h.n, says |-> "ok"]
    <3>1. PICK e : e = [kind |-> "call", n |-> h.n]
      OBVIOUS
    <3>2. e.kind = "call" /\ Number(e) = h.n /\ PutAt(link, r.b, e) /\ r.b \in Backends
      BY <2>4, <2>7, <3>1 DEF Number
    <3>3. \A b \in Backends : ~Worked(b, h.n)
      BY <2>2 DEF Works, Awaited
    <3>4. /\ \A x \in Backends \ {r.b} : link'[x] = link[x]
          /\ \A n : In(link'[r.b], {"call"}, n) <=> In(link[r.b], {"call"}, n) \/ n = h.n
          /\ Sole(link[r.b], {"call"}) => Sole(link'[r.b], {"call"})
      <4>1. ~In(link[r.b], {"call"}, h.n)
        BY <3>2, <3>3 DEF Worked
      <4>2. /\ \A x \in Backends \ {r.b} : link'[x] = link[x]
            /\ \A n : In(link'[r.b], {"call"}, n) <=> In(link[r.b], {"call"}, n)
                                                      \/ (e.kind \in {"call"} /\ Number(e) = n)
            /\ Sole(link[r.b], {"call"}) /\ (e.kind \in {"call"} => ~In(link[r.b], {"call"}, Number(e)))
                 => Sole(link'[r.b], {"call"})
        BY <1>2, <3>2, LinkPutSays
      <4> QED BY <3>2, <4>1, <4>2
    <3>5. \A b \in Backends : Once(link'[b], owing'[b], back'[b])
      <4>1. ~Owes(owing[r.b], h.n) /\ ~In(back[r.b], {"answer"}, h.n)
        BY <3>2, <3>3 DEF Worked
      <4>2. Once(link[r.b], owing[r.b], back[r.b])
        BY <3>2 DEF Works
      <4>3. Once(link'[r.b], owing[r.b], back[r.b])
        BY <3>4, <4>1, <4>2 DEF Once
      <4> QED BY <1>2, <3>4, <4>3 DEF Works
    <3>6. ASSUME NEW b \in Backends, NEW n, Worked(b, n)' PROVE Awaited(b, n)'
      <4>1. CASE Worked(b, n)
        BY <1>5, <4>1
      <4>2. CASE ~Worked(b, n)
        <5>1. b = r.b /\ n = h.n
          BY <1>2, <3>4, <3>6, <4>2 DEF Worked
        <5>2. loop'.at = "awaiting" /\ loop'.n = h.n
          BY <2>7
        <5>3. ~Unread(n)'
          BY <2>2, <5>1
        <5> QED BY <1>2, <2>2, <2>3, <2>7, <5>1, <5>2, <5>3 DEF Awaited
      <4> QED BY <4>1, <4>2
    <3> QED BY <3>5, <3>6 DEF Works
  <2> QED BY <2>5, <2>6, <2>7
<1> QED BY <1>6, <1>7

LEMMA WorksReaderReads ==
  ASSUME Shapes, Works, Strays, NEW b \in Backends, ReaderReads(b)
  PROVE  Works' /\ Strays'
<1>1. PICK m : m = Head(back[b])
  OBVIOUS
<1>2. /\ UNCHANGED <<link, owing, expired, requests, inbox>> /\ TakenFrom(back, b, back') /\ BackShape
      /\ IsSeq(sink)
  BY DEF ReaderReads, TakenFrom, clientVars, Shapes, Sequential
<1>3. Once(link[b], owing[b], back[b])
  BY DEF Works
<1>4. /\ \A x \in Backends \ {b} : back'[x] = back[x]
      /\ m.kind \in {"answer", "ask"}
      /\ \A n : In(back[b], {"answer"}, n) <=> In(back'[b], {"answer"}, n)
                                               \/ (m.kind \in {"answer"} /\ Number(m) = n)
      /\ Sole(back[b], {"answer"}) => /\ Sole(back'[b], {"answer"})
                                      /\ m.kind \in {"answer"} => ~In(back'[b], {"answer"}, Number(m))
  BY <1>1, <1>2, BackTakeSays
<1>5. Once(link'[b], owing'[b], back'[b])
  BY <1>2, <1>3, <1>4 DEF Once
<1>6. \A n : Worked(b, n)' => Worked(b, n)
  BY <1>2, <1>4 DEF Worked
<1>7. \A x \in Backends \ {b} : link'[x] = link[x] /\ owing'[x] = owing[x] /\ back'[x] = back[x]
  BY <1>2, <1>4
<1>8. ASSUME UNCHANGED <<loop, taken>> PROVE Works'
  BY <1>2, <1>5, <1>6, <1>7, <1>8, WorksMove
<1>9. ASSUME NEW e, Put(sink, e), taken' = taken,
             e.kind = "stray" => e.n \in expired \/ \E x \in Backends : <<x, e.n>> \in taken
      PROVE  Strays'
  <2>1. Extended(sink, e, sink')
    BY <1>9 DEF Put, Extended
  <2>2. \A i \in DOMAIN sink' : (i \in DOMAIN sink /\ sink'[i] = sink[i]) \/ sink'[i] = e
    BY <1>2, <2>1, AppendIs
  <2> QED BY <1>2, <1>9, <2>2 DEF Strays
<1>10. CASE ~IsAwaited(b, Number(m)) /\ m.kind = "ask"
  <2>1. PICK e : e = [kind |-> "ask", srv |-> srvSeq + 1, what |-> <<b, m.orig>>]
    OBVIOUS
  <2>2. e.kind # "stray" /\ Put(sink, e) /\ UNCHANGED <<loop, taken>>
    BY <1>1, <1>2, <1>10, <2>1, ReaderSays
  <2> QED BY <1>8, <1>9, <2>2
<1>11. CASE IsAwaited(b, Number(m)) /\ m.kind = "ask"
  <2>1. /\ taken' = taken \cup {<<b, loop.n>>} /\ sink' = sink
        /\ loop.at = "awaiting" /\ requests[loop.n].b = b
    BY <1>1, <1>2, <1>11, ReaderSays DEF IsAwaited
  <2>2. ASSUME NEW x \in Backends, NEW n, Worked(x, n)' PROVE Awaited(x, n)'
    <3>1. Worked(x, n)
      BY <1>6, <1>7, <2>2 DEF Worked
    <3>2. Awaited(x, n)
      BY <3>1 DEF Works
    <3>3. n \in expired \/ <<x, n>> \in taken'
      BY <2>1, <3>2 DEF Awaited
    <3> QED BY <1>2, <3>2, <3>3 DEF Awaited, Unread
  <2>3. \A x \in Backends : Once(link'[x], owing'[x], back'[x])
    BY <1>5, <1>7 DEF Works
  <2>4. Strays'
    BY <1>2, <2>1 DEF Strays
  <2> QED BY <2>2, <2>3, <2>4 DEF Works
<1>12. CASE m.kind = "answer"
  <2>1. Number(m) = m.n /\ In(back[b], {"answer"}, m.n) /\ ~In(back'[b], {"answer"}, m.n)
    BY <1>3, <1>4, <1>12 DEF Number, Once
  <2>2. Worked(b, m.n) /\ Awaited(b, m.n)
    BY <2>1 DEF Worked, Works
  <2>3. CASE IsAwaited(b, m.n)
    <3>1. UNCHANGED <<sink, taken>> /\ loop.n = m.n
      BY <1>1, <1>2, <1>12, <2>1, <2>3, ReaderSays DEF IsAwaited
    <3>2. ASSUME NEW x \in Backends PROVE ~Worked(x, m.n)'
      <4>1. CASE x = b
        <5>1. \A n : In(back[b], {"answer"}, n) => ~In(link[b], {"call"}, n) /\ ~Owes(owing[b], n)
          BY <1>3 DEF Once
        <5>2. ~In(link[b], {"call"}, m.n) /\ ~Owes(owing[b], m.n)
          BY <2>1, <5>1
        <5> QED BY <1>2, <2>1, <4>1, <5>1, <5>2 DEF Worked
      <4>2. CASE x # b
        <5>1. ~Worked(x, m.n)
          BY <2>2, <4>2 DEF Works, Awaited
        <5> QED BY <1>2, <1>4, <4>2, <5>1 DEF Worked
      <4> QED BY <4>1, <4>2
    <3>3. \A x \in Backends : \A n : Worked(x, n)' => n # loop.n
      BY <3>1, <3>2
    <3>4. Works'
      BY <1>2, <1>5, <1>6, <1>7, <3>1, <3>3, WorksMove
    <3> QED BY <1>2, <3>1, <3>4 DEF Strays
  <2>4. CASE ~IsAwaited(b, m.n)
    <3>1. PICK e : e = [kind |-> "stray", n |-> m.n]
      OBVIOUS
    <3>2. e.n = m.n /\ Put(sink, e) /\ UNCHANGED <<loop, taken>>
      BY <1>1, <1>2, <1>12, <2>1, <2>4, <3>1, ReaderSays
    <3>3. e.n \in expired \/ <<b, e.n>> \in taken
      BY <2>2, <2>4, <3>2 DEF Awaited, IsAwaited
    <3> QED BY <1>8, <1>9, <3>2, <3>3
  <2> QED BY <2>3, <2>4
<1> QED BY <1>4, <1>10, <1>11, <1>12

LEMMA WorksBackendReads ==
  ASSUME Shapes, Works, NEW b \in Backends, BackendReads(b)
  PROVE  Works'
<1>1. PICK m : m = Head(link[b])
  OBVIOUS
<1>2. /\ UNCHANGED <<requests, inbox, loop, expired, taken, back>> /\ TakenFrom(link, b, link') /\ LinkShape
      /\ owing = [x \in Backends |-> owing[x]]
  BY DEF BackendReads, TakenFrom, clientVars, Shapes, BackendShape
<1>3. Once(link[b], owing[b], back[b])
  BY DEF Works
<1>4. /\ \A x \in Backends \ {b} : link'[x] = link[x]
      /\ m.kind \in {"call", "reply", "cancel"}
      /\ \A n : In(link[b], {"call"}, n) <=> In(link'[b], {"call"}, n)
                                             \/ (m.kind \in {"call"} /\ Number(m) = n)
      /\ Sole(link[b], {"call"}) => /\ Sole(link'[b], {"call"})
                                    /\ m.kind \in {"call"} => ~In(link'[b], {"call"}, Number(m))
  BY <1>1, <1>2, LinkTakeSays
<1>5. CASE m.kind = "call"
  <2>1. PICK k : k = m.n
    OBVIOUS
  <2>2. Number(m) = k
    BY <1>5, <2>1 DEF Number
  <2>3. owing' = [owing EXCEPT ![b] = @ \cup {[n |-> k, ask |-> 0]}]
    BY <1>1, <1>5, <2>1 DEF BackendReads
  <2>4. /\ owing'[b] = owing[b] \cup {[n |-> k, ask |-> 0]}
        /\ \A x \in Backends \ {b} : owing'[x] = owing[x]
    BY <1>2, <2>3
  <2>5. /\ Single(owing[b]) /\ Sole(link[b], {"call"}) /\ Sole(back[b], {"answer"})
        /\ \A n : In(link[b], {"call"}, n) => ~Owes(owing[b], n) /\ ~In(back[b], {"answer"}, n)
        /\ \A n : Owes(owing[b], n) => ~In(back[b], {"answer"}, n)
    BY <1>3 DEF Once
  <2>6. In(link[b], {"call"}, k) /\ ~In(link'[b], {"call"}, k)
    BY <1>4, <1>5, <2>2, <2>5
  <2>7. ~Owes(owing[b], k) /\ ~In(back[b], {"answer"}, k)
    BY <2>5, <2>6
  <2>8. Single(owing'[b]) /\ \A n : Owes(owing'[b], n) <=> Owes(owing[b], n) \/ n = k
    BY <2>4, <2>5, <2>7, OwesAdd
  <2>9. Once(link'[b], owing'[b], back'[b])
    <3>1. Sole(link'[b], {"call"})
      BY <1>4, <2>5
    <3>2. \A n : In(link'[b], {"call"}, n) => ~Owes(owing'[b], n) /\ ~In(back[b], {"answer"}, n)
      BY <1>4, <2>5, <2>6, <2>8
    <3>3. \A n : Owes(owing'[b], n) => ~In(back[b], {"answer"}, n)
      BY <2>5, <2>7, <2>8
    <3> QED BY <1>2, <2>5, <2>8, <3>1, <3>2, <3>3 DEF Once
  <2>10. \A n : Worked(b, n)' => Worked(b, n)
    BY <1>2, <1>4, <2>6, <2>8 DEF Worked
  <2> QED BY <1>2, <1>4, <2>4, <2>9, <2>10, WorksMove
<1>6. CASE m.kind # "call"
  <2> DEFINE F(c) == IF c.ask = m.orig THEN [c EXCEPT !.ask = 0] ELSE c
  <2>1. owing' = [owing EXCEPT ![b] = {F(c) : c \in @}]
    BY <1>1, <1>6 DEF BackendReads
  <2>2. /\ owing'[b] = {F(c) : c \in owing[b]}
        /\ \A x \in Backends \ {b} : owing'[x] = owing[x]
    BY <1>2, <2>1
  <2>3. PICK f : f = [c \in owing[b] |-> F(c)]
    OBVIOUS
  <2>4. ASSUME NEW c \in owing[b] PROVE f[c].n = c.n /\ f[c] = [n |-> f[c].n, ask |-> f[c].ask]
    <3>1. c = [n |-> c.n, ask |-> c.ask]
      BY <1>3 DEF Once, Single
    <3>2. [c EXCEPT !.ask = 0] = [n |-> c.n, ask |-> 0]
      BY <3>1
    <3>3. F(c) = c \/ F(c) = [n |-> c.n, ask |-> 0]
      BY <3>2
    <3>4. f[c] = F(c)
      BY <2>3
    <3> HIDE DEF F
    <3> QED BY <3>1, <3>3, <3>4
  <2>5. owing'[b] = {f[c] : c \in owing[b]}
    BY <2>2, <2>3
  <2>6. Single(owing[b])
    BY <1>3 DEF Once
  <2> HIDE DEF F
  <2>7. Single(owing'[b]) /\ \A n : Owes(owing'[b], n) <=> Owes(owing[b], n)
    <3>1. Reworked(owing[b], f, owing'[b])
      BY <2>4, <2>5 DEF Reworked
    <3> QED BY <2>6, <3>1, OwesKept
  <2>8. Once(link'[b], owing'[b], back'[b])
    BY <1>2, <1>3, <1>4, <2>7 DEF Once
  <2>9. \A n : Worked(b, n)' => Worked(b, n)
    BY <1>2, <1>4, <2>7 DEF Worked
  <2> QED BY <1>2, <1>4, <2>2, <2>8, <2>9, WorksMove
<1> QED BY <1>5, <1>6

LEMMA WorksBackendAsks ==
  ASSUME Shapes, Works, NEW b \in Backends, BackendAsks(b)
  PROVE  Works'
<1>0. PICK k \in AskIds : PutAt(back, b, [kind |-> "ask", orig |-> k])
  BY DEF BackendAsks
<1>1. PICK e : e = [kind |-> "ask", orig |-> k]
  OBVIOUS
<1>2. /\ UNCHANGED <<requests, inbox, loop, expired, taken, link>> /\ PutAt(back, b, e) /\ BackShape
      /\ owing = [x \in Backends |-> owing[x]] /\ e.kind = "ask"
  BY <1>0, <1>1 DEF BackendAsks, clientVars, Shapes, BackendShape
<1>3. Once(link[b], owing[b], back[b])
  BY DEF Works
<1>4. /\ \A x \in Backends \ {b} : back'[x] = back[x]
      /\ \A n : In(back'[b], {"answer"}, n) <=> In(back[b], {"answer"}, n)
      /\ Sole(back[b], {"answer"}) => Sole(back'[b], {"answer"})
  <2>1. /\ \A x \in Backends \ {b} : back'[x] = back[x]
        /\ \A n : In(back'[b], {"answer"}, n) <=> In(back[b], {"answer"}, n)
                                                  \/ (e.kind \in {"answer"} /\ Number(e) = n)
        /\ Sole(back[b], {"answer"}) /\ (e.kind \in {"answer"} => ~In(back[b], {"answer"}, Number(e)))
             => Sole(back'[b], {"answer"})
    BY <1>2, BackPutSays
  <2> QED BY <1>2, <2>1
<1>5. Single(owing[b])
  BY <1>3 DEF Once
<1>6. /\ \A x \in Backends \ {b} : owing'[x] = owing[x]
      /\ Single(owing'[b]) /\ \A n : Owes(owing'[b], n) <=> Owes(owing[b], n)
  <2>1. CASE owing' = owing
    BY <1>5, <2>1
  <2>2. ASSUME NEW d \in owing[b], NEW a,
               owing' = [owing EXCEPT ![b] = (@ \ {d}) \cup {[d EXCEPT !.ask = a]}]
        PROVE  /\ \A x \in Backends \ {b} : owing'[x] = owing[x]
               /\ Single(owing'[b]) /\ \A n : Owes(owing'[b], n) <=> Owes(owing[b], n)
    <3>1. /\ owing'[b] = (owing[b] \ {d}) \cup {[d EXCEPT !.ask = a]}
          /\ \A x \in Backends \ {b} : owing'[x] = owing[x]
      BY <1>2, <2>2
    <3>2. d = [n |-> d.n, ask |-> d.ask]
      BY <1>5 DEF Single
    <3>3. PICK g : g = [n |-> d.n, ask |-> a]
      OBVIOUS
    <3>4. [d EXCEPT !.ask = a] = g
      BY <3>2, <3>3
    <3>5. g.n = d.n /\ g = [n |-> g.n, ask |-> g.ask]
      BY <3>3
    <3>6. PICK f : f = [c \in owing[b] |-> IF c = d THEN g ELSE c]
      OBVIOUS
    <3>7. \A c \in owing[b] : f[c] = IF c = d THEN g ELSE c
      BY <3>6
    <3>8. \A c \in owing[b] : f[c].n = c.n /\ f[c] = [n |-> f[c].n, ask |-> f[c].ask]
      <4>1. \A c \in owing[b] : c = [n |-> c.n, ask |-> c.ask]
        BY <1>5 DEF Single
      <4>2. ASSUME NEW c \in owing[b] PROVE f[c].n = c.n /\ f[c] = [n |-> f[c].n, ask |-> f[c].ask]
        <5>1. CASE c = d
          BY <3>5, <3>7, <5>1
        <5>2. CASE c # d
          BY <3>7, <4>1, <5>2
        <5> QED BY <5>1, <5>2
      <4> QED BY <4>2
    <3>9. owing'[b] = {f[c] : c \in owing[b]}
      BY <3>1, <3>4, <3>7
    <3>10. Single(owing'[b]) /\ \A n : Owes(owing'[b], n) <=> Owes(owing[b], n)
      <4>1. Reworked(owing[b], f, owing'[b])
        BY <3>8, <3>9 DEF Reworked
      <4> QED BY <1>5, <4>1, OwesKept
    <3> QED BY <3>1, <3>10
  <2>3. \/ owing' = owing
        \/ \E d \in owing[b] : \E a : owing' = [owing EXCEPT ![b] = (@ \ {d}) \cup {[d EXCEPT !.ask = a]}]
    BY DEF BackendAsks
  <2> QED BY <2>1, <2>2, <2>3
<1>7. Once(link'[b], owing'[b], back'[b])
  BY <1>2, <1>3, <1>4, <1>6 DEF Once
<1>8. \A n : Worked(b, n)' => Worked(b, n)
  BY <1>2, <1>4, <1>6 DEF Worked
<1> QED BY <1>2, <1>4, <1>6, <1>7, <1>8, WorksMove

LEMMA WorksBackendAnswers ==
  ASSUME Shapes, Works, NEW b \in Backends, BackendAnswers(b)
  PROVE  Works'
<1>1. PICK c \in owing[b] : /\ owing' = [owing EXCEPT ![b] = @ \ {c}]
                            /\ PutAt(back, b, [kind |-> "answer", n |-> c.n])
  BY DEF BackendAnswers
<1>2. PICK e : e = [kind |-> "answer", n |-> c.n]
  OBVIOUS
<1>3. /\ UNCHANGED <<requests, inbox, loop, expired, taken, link>> /\ PutAt(back, b, e) /\ BackShape
      /\ owing = [x \in Backends |-> owing[x]] /\ e.kind = "answer" /\ Number(e) = c.n
  BY <1>1, <1>2 DEF BackendAnswers, clientVars, Shapes, BackendShape, Number
<1>4. Once(link[b], owing[b], back[b])
  BY DEF Works
<1>5. /\ owing'[b] = owing[b] \ {c}
      /\ \A x \in Backends \ {b} : owing'[x] = owing[x]
  BY <1>1, <1>3
<1>6. /\ Single(owing[b]) /\ Sole(link[b], {"call"}) /\ Sole(back[b], {"answer"})
      /\ \A n : In(link[b], {"call"}, n) => ~Owes(owing[b], n) /\ ~In(back[b], {"answer"}, n)
      /\ \A n : Owes(owing[b], n) => ~In(back[b], {"answer"}, n)
  BY <1>4 DEF Once
<1>7. Owes(owing[b], c.n)
  BY DEF Owes
<1>8. ~In(back[b], {"answer"}, c.n)
  BY <1>6, <1>7
<1>9. Single(owing'[b]) /\ \A n : Owes(owing'[b], n) <=> Owes(owing[b], n) /\ n # c.n
  BY <1>5, <1>6, OwesDrop
<1>10. /\ \A x \in Backends \ {b} : back'[x] = back[x]
       /\ \A n : In(back'[b], {"answer"}, n) <=> In(back[b], {"answer"}, n) \/ n = c.n
       /\ Sole(back'[b], {"answer"})
  <2>1. /\ \A x \in Backends \ {b} : back'[x] = back[x]
        /\ \A n : In(back'[b], {"answer"}, n) <=> In(back[b], {"answer"}, n)
                                                  \/ (e.kind \in {"answer"} /\ Number(e) = n)
        /\ Sole(back[b], {"answer"}) /\ (e.kind \in {"answer"} => ~In(back[b], {"answer"}, Number(e)))
             => Sole(back'[b], {"answer"})
    BY <1>3, BackPutSays
  <2> QED BY <1>3, <1>6, <1>8, <2>1
<1>11. Once(link'[b], owing'[b], back'[b])
  <2>1. \A n : In(link[b], {"call"}, n) => ~Owes(owing'[b], n) /\ ~In(back'[b], {"answer"}, n)
    BY <1>6, <1>7, <1>9, <1>10
  <2>2. \A n : Owes(owing'[b], n) => ~In(back'[b], {"answer"}, n)
    BY <1>6, <1>9, <1>10
  <2> QED BY <1>3, <1>6, <1>9, <1>10, <2>1, <2>2 DEF Once
<1>12. \A n : Worked(b, n)' => Worked(b, n)
  BY <1>3, <1>7, <1>9, <1>10 DEF Worked
<1> QED BY <1>3, <1>5, <1>10, <1>11, <1>12, WorksMove

LEMMA WorksNext ==
  ASSUME Shapes, InOrder, OnePlace, Works, Strays, Emitting, [Next]_vars
  PROVE  Works' /\ Strays'
<1>0. IsSeq(inbox) /\ IsSeq(requests) /\ IsSeq(sink)
  BY DEF Shapes, Sequential
<1>1. ASSUME UNCHANGED <<sink, expired, taken>> PROVE Strays'
  BY <1>1 DEF Strays
<1>2. ASSUME UNCHANGED <<link, owing, back, requests, inbox>>, expired \subseteq expired', taken' = taken,
             loop.at = "awaiting" => loop.n \in expired' \/ (loop'.at = "awaiting" /\ loop'.n = loop.n)
      PROVE  Works'
  <2>1. \A n \in DOMAIN requests : /\ n \in DOMAIN requests' /\ requests'[n] = requests[n]
                                   /\ ~Unread(n) => ~Unread(n)'
    BY <1>2 DEF Unread
  <2> QED BY <1>2, <2>1, WorksWait
<1>3. ASSUME NEW request, Sends(request) PROVE Works' /\ Strays'
  <2>1. PICK e : e = [kind |-> "request", n |-> Len(requests) + 1]
    OBVIOUS
  <2>2. /\ Extended(inbox, e, inbox') /\ Extended(requests, request, requests')
        /\ UNCHANGED <<link, owing, back, expired, taken, loop, sink>>
    BY <1>3, <2>1 DEF Sends, Put, Extended, backendVars
  <2>3. e.kind = "request" /\ Number(e) = Len(requests) + 1
    BY <2>1 DEF Number
  <2>4. \A n : Unread(n)' <=> Unread(n) \/ n = Len(requests) + 1
    BY <1>0, <2>2, <2>3, InPut DEF Unread
  <2>5. \A n \in DOMAIN requests : n \in DOMAIN requests' /\ requests'[n] = requests[n] /\ n # Len(requests) + 1
    BY <1>0, <2>2, AppendIs
  <2> QED BY <1>1, <2>2, <2>4, <2>5, WorksWait
<1>4. ASSUME NEW a, ClientReplies(a) \/ ClientCancels(a) PROVE Works' /\ Strays'
  <2>1. UNCHANGED <<requests, link, owing, back, expired, taken, loop, sink>>
    BY <1>4 DEF ClientReplies, ClientCancels, backendVars
  <2>2. PICK e : Put(inbox, e) /\ e.kind # "request"
    <3>1. \/ Put(inbox, [kind |-> "reply", srv |-> a.srv, what |-> a.what])
          \/ Put(inbox, [kind |-> "cancel", srv |-> a.srv, what |-> a.what])
      BY <1>4 DEF ClientReplies, ClientCancels
    <3>2. /\ [kind |-> "reply", srv |-> a.srv, what |-> a.what].kind # "request"
          /\ [kind |-> "cancel", srv |-> a.srv, what |-> a.what].kind # "request"
      OBVIOUS
    <3> QED BY <3>1, <3>2
  <2>3. Extended(inbox, e, inbox')
    BY <2>2 DEF Put, Extended
  <2>4. \A n : Unread(n)' <=> Unread(n)
    BY <1>0, <2>2, <2>3, InPut DEF Unread
  <2> QED BY <1>1, <2>1, <2>4, WorksWait
<1>5. ASSUME LoopReads PROVE Works' /\ Strays'
  <2>1. UNCHANGED <<sink, expired, taken>>
    BY <1>5 DEF LoopReads, backendVars
  <2> QED BY <1>1, <1>5, <2>1, WorksLoopReads
<1>6. ASSUME Expire PROVE Works' /\ Strays'
  <2>1. UNCHANGED <<link, owing, back, requests, inbox, sink, taken>> /\ expired' = expired \cup {loop.n}
    BY <1>6 DEF Expire, backendVars, clientVars
  <2>2. Strays'
    BY <2>1 DEF Strays
  <2> QED BY <1>2, <2>1, <2>2
<1>7. ASSUME LoopSends PROVE Works' /\ Strays'
  <2>1. UNCHANGED <<link, owing, back, requests, inbox, sink, expired, taken>> /\ loop.at = "sending"
    BY <1>7 DEF LoopSends, backendVars, clientVars
  <2> QED BY <1>1, <1>2, <2>1
<1>8. ASSUME Drain PROVE Works' /\ Strays'
  <2>1. /\ UNCHANGED <<link, owing, back, requests, inbox, expired, taken, loop>> /\ Dropped(sink, sink')
    BY <1>8 DEF Drain, Dropped, backendVars, clientVars
  <2>2. \A i \in DOMAIN sink' : i + 1 \in DOMAIN sink /\ sink'[i] = sink[i + 1]
    BY <1>0, <2>1, TailIs
  <2>3. Strays'
    BY <2>1, <2>2 DEF Strays
  <2> QED BY <1>2, <2>1, <2>3
<1>9. ASSUME NEW t \in Tasks, Look(t) \/ Lock(t) \/ Announce(t) PROVE Works' /\ Strays'
  <2>1. UNCHANGED <<link, owing, back, requests, inbox, sink, expired, taken>>
    BY <1>9 DEF Look, Lock, Announce, backendVars, clientVars
  <2>2. loop' = loop \/ loop.at = "emitting"
    <3>1. CASE Look(t)
      BY <3>1 DEF Look
    <3>2. CASE Lock(t) \/ Announce(t)
      BY <3>2 DEF Lock, Announce, Done, Emitting
    <3> QED BY <1>9, <3>1, <3>2
  <2> QED BY <1>1, <1>2, <2>1, <2>2
<1>10. ASSUME NEW b \in Backends, BackendReads(b) \/ BackendAsks(b) \/ BackendAnswers(b) PROVE Works' /\ Strays'
  <2>1. UNCHANGED <<sink, expired, taken>>
    BY <1>10 DEF BackendReads, BackendAsks, BackendAnswers
  <2>2. Works'
    BY <1>10, WorksBackendReads, WorksBackendAsks, WorksBackendAnswers
  <2> QED BY <1>1, <2>1, <2>2
<1>11. ASSUME NEW b \in Backends, ReaderReads(b) PROVE Works' /\ Strays'
  BY <1>11, WorksReaderReads
<1>12. ASSUME \/ ClientReads \/ (\E p \in Publishers : PublishChecks(p)) \/ (\E p \in Publishers : PublishSends(p)) \/ UNCHANGED vars
              \/ \E b \in Backends : BreakerFlips(b)
       PROVE  Works' /\ Strays'
  <2>1. UNCHANGED <<link, owing, back, requests, inbox, sink, expired, taken, loop>>
    BY <1>12 DEF ClientReads, PublishChecks, PublishSends, BreakerFlips, vars, backendVars, clientVars
  <2> QED BY <1>1, <1>2, <2>1
<1>13. ASSUME ClientLists \/ (\E kind \in {"subscribe", "unsubscribe"} : ClientSubscribes(kind))
              \/ \E b \in Backends : ClientCalls(b)
       PROVE  Works' /\ Strays'
  BY <1>3, <1>13 DEF ClientLists, ClientSubscribes, ClientCalls
<1> QED BY <1>4, <1>5, <1>6, <1>7, <1>8, <1>9, <1>10, <1>11, <1>12, <1>13 DEF Next

LEMMA AnswersInit == Init => AnswerInv
<1> SUFFICES ASSUME Init PROVE AnswerInv
  OBVIOUS
<1>1. /\ inbox = <<>> /\ requests = <<>> /\ out = <<>> /\ sink = <<>> /\ loop.at = "reading"
      /\ \A b \in Backends : link[b] = <<>> /\ back[b] = <<>> /\ owing[b] = {}
      /\ at = [t \in Tasks |-> "idle"] /\ Loop \in Tasks
  BY DEF Init, Tasks
<1>2. OnePlace /\ InOrder
  BY <1>1, EmptyIs, InEmpty DEF OnePlace, InOrder, Unread, OnItsWay
<1>3. Works
  BY <1>1, EmptyIs, InEmpty DEF Works, Once, Worked, Owes, Single
<1>4. Strays /\ Emitting
  BY <1>1, EmptyIs DEF Strays, Emitting
<1> QED BY <1>2, <1>3, <1>4 DEF AnswerInv

LEMMA AnsweredAtMostOnce == Shapes /\ OnePlace /\ Strays => AnsweredOnce
<1> SUFFICES ASSUME Shapes, OnePlace, Strays, NEW n \in DOMAIN requests
             PROVE  Len(answers[n]) + Cardinality({i \in DOMAIN out : out[i].kind = "response" /\ out[i].n = n}) <= 1
  BY DEF AnsweredOnce, Strays
<1> DEFINE R == {i \in DOMAIN out : out[i].kind = "response" /\ out[i].n = n}
<1>0. IsSeq(answers[n]) /\ Len(answers[n]) \in Nat
  <2>1. n \in DOMAIN answers
    BY SeqIs DEF Shapes, Sequential
  <2> QED BY <2>1, SeqIs DEF Shapes, AnswerSequences
<1>1. CASE R = {}
  <2>1. Cardinality(R) = 0
    BY <1>1, FS_EmptySet
  <2> HIDE DEF R
  <2>2. Len(answers[n]) <= 1
    BY DEF OnePlace
  <2>3. Len(answers[n]) + Cardinality(R) <= 1
    BY <1>0, <2>1, <2>2
  <2> QED BY <2>3 DEF R
<1>2. ASSUME NEW i \in R PROVE Len(answers[n]) + Cardinality(R) <= 1
  <2>1. \A j \in R : j = i
    BY DEF OnePlace, Sole, Number
  <2>2. OnItsWay(n)
    BY DEF OnItsWay, In, Number
  <2>3. answers[n] = <<>>
    BY <2>2 DEF OnePlace
  <2>4. Len(answers[n]) = 0
    BY <1>0, <2>3, SeqIs
  <2>5. R = {i}
    BY <2>1
  <2>6. Cardinality(R) = 1
    BY <2>5, FS_Singleton
  <2> HIDE DEF R
  <2> QED BY <2>4, <2>6
<1> QED BY <1>1, <1>2

-------------------------------------------------------------------------------
\* Subscriptions.

LEMMA BehindPut ==
  ASSUME NEW s, NEW e, NEW t, NEW subs, NEW p, IsSeq(s), Extended(s, e, t)
  PROVE  /\ e.kind = "updated" /\ e.p = p => Behind(t, subs, p) = Behind(s, subs, p) \cup {Len(t)}
         /\ e.kind = "response" /\ e.n \in subs => Behind(t, subs, p) = {}
         /\ ~(e.kind = "updated" /\ e.p = p) /\ ~(e.kind = "response" /\ e.n \in subs)
              => Behind(t, subs, p) = Behind(s, subs, p)
<1>1. /\ \A i \in DOMAIN s : i \in DOMAIN t /\ t[i] = s[i] /\ i < Len(t) /\ i \in Nat \ {0}
      /\ \A i \in DOMAIN t : i \in DOMAIN s \/ i = Len(t)
      /\ Len(t) \in DOMAIN t /\ t[Len(t)] = e /\ Len(t) \notin DOMAIN s /\ Len(t) \in Nat
  BY AppendIs
<1>2. CASE e.kind = "response" /\ e.n \in subs
  <2>1. ASSUME NEW i \in Behind(t, subs, p) PROVE FALSE
    <3>1. i \in DOMAIN t /\ t[i].kind = "updated" /\ Len(t) < i
      BY <1>1, <1>2 DEF Behind
    <3> QED BY <1>1, <3>1
  <2> QED BY <1>2, <2>1
<1>3. CASE ~(e.kind = "response" /\ e.n \in subs)
  <2>1. ASSUME NEW i \in DOMAIN s PROVE i \in Behind(t, subs, p) <=> i \in Behind(s, subs, p)
    BY <1>1, <1>3 DEF Behind
  <2>2. Len(t) \in Behind(t, subs, p) <=> e.kind = "updated" /\ e.p = p
    BY <1>1, <1>3 DEF Behind
  <2>3. Behind(t, subs, p) \subseteq DOMAIN t /\ Behind(s, subs, p) \subseteq DOMAIN s
    BY DEF Behind
  <2> QED BY <1>1, <1>3, <2>1, <2>2, <2>3
<1> QED BY <1>2, <1>3

LEMMA BehindTake ==
  ASSUME NEW s, NEW t, NEW subs, NEW p, IsSeq(s), Dropped(s, t)
  PROVE  \A i \in Behind(t, subs, p) : i \in Nat \ {0} /\ i + 1 \in Behind(s, subs, p)
<1>1. /\ \A i \in DOMAIN t : i \in Nat \ {0} /\ i + 1 \in DOMAIN s /\ t[i] = s[i + 1]
      /\ \A i \in DOMAIN s : i = 1 \/ (i \in Nat \ {0, 1} /\ i - 1 \in DOMAIN t /\ t[i - 1] = s[i])
  BY TailIs
<1>2. ASSUME NEW i \in Behind(t, subs, p), NEW j \in DOMAIN s, s[j].kind = "response", s[j].n \in subs
      PROVE  j < i + 1
  <2>1. i \in Nat \ {0}
    BY <1>1 DEF Behind
  <2>2. CASE j = 1
    BY <2>1, <2>2
  <2>3. CASE j # 1
    <3>1. j \in Nat /\ j - 1 \in DOMAIN t /\ t[j - 1] = s[j]
      BY <1>1, <2>3
    <3>2. j - 1 < i
      BY <1>2, <3>1 DEF Behind
    <3> QED BY <2>1, <3>1, <3>2
  <2> QED BY <2>2, <2>3
<1> QED BY <1>1, <1>2 DEF Behind

LEMMA QuietKept ==
  ASSUME Quiet, Pending' <=> Pending, Holding' <=> Holding, Last' <=> Last,
         \A p \in Publishers : Trailing(p)' = Trailing(p), UNCHANGED <<late, registry, publisher>>
  PROVE  Quiet'
<1>1. ASSUME NEW p \in Publishers PROVE QuietOf(p)'
  <2>1. QuietOf(p) /\ Trailing(p)' = Trailing(p)
    BY DEF Quiet
  <2> QED BY <2>1 DEF QuietOf, Over
<1> QED BY <1>1 DEF Quiet, Over

LEMMA QuietSends ==
  ASSUME Shapes, OnePlace, Quiet, NEW request, Sends(request), UNCHANGED late,
         request.kind \notin {"subscribe", "unsubscribe"}
  PROVE  Quiet'
<1>1. PICK e : e = [kind |-> "request", n |-> Len(requests) + 1]
  OBVIOUS
<1>2. /\ Extended(inbox, e, inbox') /\ Extended(requests, request, requests')
      /\ UNCHANGED <<loop, out, registry, publisher>>
      /\ IsSeq(inbox) /\ IsSeq(requests)
  BY <1>1 DEF Sends, Put, Extended, subVars, Shapes, Sequential
<1>3. e.kind = "request" /\ Number(e) = Len(requests) + 1
  BY <1>1 DEF Number
<1>4. \A n : Unread(n)' <=> Unread(n) \/ n = Len(requests) + 1
  BY <1>2, <1>3, InPut DEF Unread
<1>5. /\ \A n \in DOMAIN requests : n \in DOMAIN requests' /\ requests'[n] = requests[n] /\ n # Len(requests) + 1
      /\ \A n \in DOMAIN requests' : n \in DOMAIN requests \/ requests'[n] = request
  BY <1>2, AppendIs
<1>6. Subscriptions' = Subscriptions /\ \A n \in Subscriptions : requests'[n] = requests[n]
  BY <1>5 DEF Subscriptions
<1>7. \A n \in Subscriptions : n # Len(requests) + 1
  BY <1>5 DEF Subscriptions
<1>8. (Pending' <=> Pending) /\ (Holding' <=> Holding) /\ (Last' <=> Last)
  BY <1>2, <1>4, <1>6, <1>7 DEF Pending, Holding, InHand, Last
<1>9. \A p \in Publishers : Trailing(p)' = Trailing(p)
  BY <1>2, <1>6 DEF Trailing
<1> QED BY <1>2, <1>8, <1>9, QuietKept

LEMMA QuietSubscribes ==
  ASSUME Shapes, Quiet, NEW kind \in {"subscribe", "unsubscribe"}, ClientSubscribes(kind)
  PROVE  Quiet'
<1>1. PICK e, request : e = [kind |-> "request", n |-> Len(requests) + 1] /\ request = [kind |-> kind]
  OBVIOUS
<1>2. /\ Extended(inbox, e, inbox') /\ Extended(requests, request, requests')
      /\ UNCHANGED <<registry, publisher>> /\ late' = [p \in Publishers |-> 0]
      /\ IsSeq(inbox) /\ IsSeq(requests)
  BY <1>1 DEF ClientSubscribes, Sends, Put, Extended, subVars, Shapes, Sequential
<1>3. e.kind = "request" /\ Number(e) = Len(requests) + 1 /\ request.kind = kind
  BY <1>1 DEF Number
<1>4. Unread(Len(requests) + 1)' <=> In(inbox', {"request"}, Len(requests') + 1)
  BY DEF Unread
<1>5. In(inbox', {"request"}, Len(requests) + 1)
  BY <1>2, <1>3, InPut
<1>6. /\ Len(requests') = Len(requests) + 1
      /\ Len(requests') \in DOMAIN requests' /\ requests'[Len(requests')] = request
  BY <1>2, AppendIs
<1>7. Pending'
  BY <1>3, <1>5, <1>6 DEF Pending, Unread, Subscriptions
<1>8. ASSUME NEW p \in Publishers PROVE QuietOf(p)'
  <2>1. late'[p] = 0 /\ publisher[p] \in {"idle", "sending"}
    BY <1>2 DEF Quiet, QuietOf
  <2> QED BY <1>2, <1>7, <2>1 DEF QuietOf, Over
<1> QED BY <1>2, <1>7, <1>8 DEF Quiet, Over

LEMMA QuietClientReads ==
  ASSUME Shapes, OnePlace, Quiet, ClientReads
  PROVE  Quiet'
<1>1. PICK m : m = Head(out)
  OBVIOUS
<1>2. /\ Dropped(out, out') /\ UNCHANGED <<requests, inbox, loop, registry, publisher>>
      /\ late' = IF m.kind = "updated" /\ Unsubscribed THEN [late EXCEPT ![m.p] = @ + 1] ELSE late
      /\ IsSeq(out) /\ late \in [Publishers -> Nat]
  BY <1>1 DEF ClientReads, Dropped, subVars, Shapes, Sequential, LoopShape
<1>3. (Pending' <=> Pending) /\ (Holding' <=> Holding) /\ (Last' <=> Last) /\ Subscriptions' = Subscriptions
  BY <1>2 DEF Pending, Holding, Last, Unread, InHand, Subscriptions
<1>4. ASSUME NEW p \in Publishers PROVE QuietOf(p)'
  <2>0. QuietOf(p)
    BY DEF Quiet
  <2>1. \A i \in Trailing(p)' : i \in Nat \ {0} /\ i + 1 \in Trailing(p)
    BY <1>2, <1>3, BehindTake DEF Trailing
  <2>2. /\ Trailing(p) = {} => Trailing(p)' = {}
        /\ (\A i, j \in Trailing(p) : i = j) => \A i, j \in Trailing(p)' : i = j
    <3>1. Trailing(p) = {} => Trailing(p)' = {}
      BY <2>1
    <3>2. ASSUME \A i, j \in Trailing(p) : i = j, NEW i \in Trailing(p)', NEW j \in Trailing(p)' PROVE i = j
      <4>1. i + 1 = j + 1
        BY <2>1, <3>2
      <4> QED BY <2>1, <4>1
    <3> QED BY <3>1, <3>2
  <2>3. CASE ~(m.kind = "updated" /\ Unsubscribed /\ m.p = p)
    <3>1. late'[p] = late[p]
      BY <1>2, <2>3
    <3> QED BY <1>2, <1>3, <2>0, <2>2, <3>1 DEF QuietOf, Over
  <2>4. CASE m.kind = "updated" /\ Unsubscribed /\ m.p = p
    <3>1. \A n \in Subscriptions : ~Unread(n) /\ ~InHand(n) /\ ~OnItsWay(n)
      BY <2>4 DEF Unsubscribed, OnePlace, Subscriptions
    <3>2. Over /\ ~Holding
      BY <2>4, <3>1 DEF Over, Pending, Holding, Last, Unsubscribed
    <3>3. 1 \in Trailing(p)
      <4>1. 1 \in DOMAIN out /\ m = out[1]
        BY <1>1, <1>2, TailIs
      <4>2. \A j \in DOMAIN out : out[j].kind = "response" => OnItsWay(out[j].n)
        BY DEF OnItsWay, In, Number
      <4> QED BY <2>4, <3>1, <4>1, <4>2 DEF Trailing, Behind
    <3>4. late[p] = 0 /\ publisher[p] = "idle"
      BY <1>2, <2>0, <3>2, <3>3 DEF QuietOf
    <3>5. Trailing(p)' = {}
      <4>1. ASSUME NEW i \in Trailing(p)' PROVE FALSE
        <5>1. i + 1 = 1
          BY <2>0, <2>1, <3>2, <3>3 DEF QuietOf
        <5> QED BY <2>1, <5>1
      <4> QED BY <4>1
    <3>6. ~Pending /\ late'[p] = 1
      BY <1>2, <2>4, <3>2, <3>4 DEF Over
    <3> QED BY <1>2, <1>3, <3>2, <3>4, <3>5, <3>6 DEF QuietOf, Over
  <2> QED BY <2>3, <2>4
<1> QED BY <1>2, <1>3, <1>4 DEF Quiet, Over

LEMMA QuietLoopReads ==
  ASSUME Shapes, InOrder, OnePlace, Quiet, LoopReads
  PROVE  Quiet'
<1>1. PICK h : h = Head(inbox)
  OBVIOUS
<1>2. /\ Dropped(inbox, inbox') /\ UNCHANGED <<requests, out, late, publisher>> /\ loop.at = "reading"
      /\ IsSeq(inbox)
  BY DEF LoopReads, Dropped, clientVars, Shapes, Sequential
<1>3. /\ h.kind \in {"request", "reply", "cancel"}
      /\ \A n : Unread(n) <=> Unread(n)' \/ (h.kind = "request" /\ Number(h) = n)
  <2>1. h = inbox[1] /\ 1 \in DOMAIN inbox
    BY <1>1, <1>2, TailIs
  <2>2. \A n : In(inbox, {"request"}, n) <=> In(inbox', {"request"}, n)
                                             \/ (h.kind \in {"request"} /\ Number(h) = n)
    BY <1>1, <1>2, InTake
  <2> QED BY <2>1, <2>2 DEF Unread, Shapes, InboxKinds
<1>4. Subscriptions' = Subscriptions /\ (Last' <=> Last)
  BY <1>2 DEF Subscriptions, Last
<1>5. \A p \in Publishers : Trailing(p)' = Trailing(p)
  BY <1>2, <1>4 DEF Trailing
<1>6. ~Holding
  BY <1>2 DEF Holding, InHand
<1>7. CASE h.kind # "request"
  <2>1. UNCHANGED <<loop, registry>>
    BY <1>1, <1>7 DEF LoopReads
  <2>2. (Pending' <=> Pending) /\ (Holding' <=> Holding)
    BY <1>3, <1>4, <1>7, <2>1 DEF Pending, Holding, InHand
  <2> QED BY <1>2, <1>4, <1>5, <2>1, <2>2, QuietKept
<1>8. CASE h.kind = "request"
  <2>1. Number(h) = h.n
    BY <1>8 DEF Number
  <2>2. h.n \in DOMAIN requests /\ Unread(h.n) /\ h.n \in Nat
    BY <1>2, <1>3, <1>8, <2>1, SeqIs DEF InOrder, Shapes, Sequential
  <2>3. PICK r : r = requests[h.n]
    OBVIOUS
  <2>4. r.kind \in Kinds
    BY <2>2, <2>3 DEF Shapes, RequestKinds
  <2>5. loop'.n = h.n /\ loop'.at \in {"awaiting", "sending"}
    BY <1>1, <1>8 DEF LoopReads, Responds
  <2>6. CASE r.kind \in {"subscribe", "unsubscribe"}
    <3>1. registry' = (r.kind = "subscribe")
      BY <1>1, <1>8, <2>3, <2>6 DEF LoopReads, Register
    <3>2. h.n \in Subscriptions
      BY <2>2, <2>3, <2>6 DEF Subscriptions
    <3>3. Pending
      BY <2>2, <3>2 DEF Pending
    <3>4. Holding'
      BY <1>4, <2>5, <3>2 DEF Holding, InHand
    <3>5. ASSUME r.kind = "subscribe", Last PROVE Pending'
      <4>1. PICK m \in Subscriptions : m > h.n
        BY <2>3, <3>2, <3>5 DEF Last
      <4>2. m \in DOMAIN requests
        BY DEF Subscriptions
      <4>3. Unread(m) /\ m # h.n
        BY <2>2, <4>1, <4>2 DEF InOrder
      <4>4. Unread(m)'
        BY <1>3, <2>1, <4>3
      <4> QED BY <1>4, <4>4 DEF Pending
    <3>6. ASSUME NEW p \in Publishers PROVE QuietOf(p)'
      <4>1. late[p] = 0 /\ publisher[p] \in {"idle", "sending"}
        BY <3>3 DEF Quiet, QuietOf
      <4> QED BY <1>2, <3>4, <4>1 DEF QuietOf, Over
    <3> QED BY <1>2, <1>4, <3>1, <3>5, <3>6 DEF Quiet, Over
  <2>7. CASE r.kind \notin {"subscribe", "unsubscribe"}
    <3>1. registry' = registry
      BY <1>1, <1>8, <2>3, <2>4, <2>7 DEF LoopReads, Kinds
    <3>2. h.n \notin Subscriptions
      BY <2>3, <2>7 DEF Subscriptions
    <3>3. Pending' <=> Pending
      BY <1>3, <1>4, <2>1, <3>2 DEF Pending
    <3>4. ~Holding'
      BY <1>4, <2>5, <3>2 DEF Holding, InHand
    <3> QED BY <1>2, <1>4, <1>5, <1>6, <3>1, <3>3, <3>4, QuietKept
  <2> QED BY <2>6, <2>7
<1> QED BY <1>3, <1>7, <1>8

LEMMA QuietLoopSends ==
  ASSUME Shapes, OnePlace, Quiet, LoopSends
  PROVE  Quiet'
<1>1. PICK e : e = [kind |-> "response", n |-> loop.n, says |-> loop.says]
  OBVIOUS
<1>2. /\ Extended(out, e, out') /\ UNCHANGED <<requests, inbox, late, registry, publisher>>
      /\ loop.at = "sending" /\ loop' = [loop EXCEPT !.at = "emitting"] /\ IsSeq(out)
  BY <1>1 DEF LoopSends, Put, Extended, clientVars, subVars, Shapes, Sequential
<1>3. loop'.at = "emitting"
  BY <1>2 DEF Shapes, LoopShape
<1>4. e.kind = "response" /\ e.n = loop.n
  BY <1>1
<1>5. (Pending' <=> Pending) /\ (Last' <=> Last) /\ Subscriptions' = Subscriptions /\ ~Holding'
  BY <1>2, <1>3 DEF Pending, Last, Subscriptions, Unread, Holding, InHand
<1>6. ASSUME NEW p \in Publishers
      PROVE  /\ loop.n \in Subscriptions => Trailing(p)' = {}
             /\ loop.n \notin Subscriptions => Trailing(p)' = Trailing(p)
  BY <1>2, <1>4, <1>5, BehindPut DEF Trailing
<1>7. Holding <=> loop.n \in Subscriptions
  BY <1>2 DEF Holding, InHand
<1>8. CASE Holding
  <2>1. ASSUME NEW p \in Publishers PROVE QuietOf(p)'
    <3>1. Trailing(p)' = {}
      BY <1>6, <1>7, <1>8
    <3>2. late[p] = 0 /\ publisher[p] \in {"idle", "sending"}
      BY <1>8 DEF Quiet, QuietOf
    <3> QED BY <1>2, <1>5, <3>1, <3>2 DEF QuietOf, Over
  <2> QED BY <1>2, <1>5, <2>1 DEF Quiet, Over
<1>9. CASE ~Holding
  BY <1>2, <1>5, <1>6, <1>7, <1>9, QuietKept
<1> QED BY <1>8, <1>9

LEMMA QuietNext ==
  ASSUME Shapes, InOrder, OnePlace, Emitting, Quiet, [Next]_vars
  PROVE  Quiet'
<1>0. IsSeq(inbox) /\ IsSeq(out) /\ IsSeq(sink) /\ SinkKinds
  BY DEF Shapes, Sequential
<1>1. ASSUME UNCHANGED requests
      PROVE  Subscriptions' = Subscriptions /\ (Last' <=> Last)
  BY <1>1 DEF Subscriptions, Last
<1>2. ASSUME UNCHANGED <<requests, inbox, out, late, registry, publisher>>, \A n : InHand(n)' <=> InHand(n)
      PROVE  Quiet'
  <2>1. /\ (Pending' <=> Pending) /\ (Holding' <=> Holding)
        /\ \A p \in Publishers : Trailing(p)' = Trailing(p)
    BY <1>1, <1>2 DEF Pending, Unread, Holding, Trailing
  <2> QED BY <1>1, <1>2, <2>1, QuietKept
<1>3. ASSUME NEW e, Put(out, e), e.kind \notin {"updated", "response"},
             UNCHANGED <<requests, inbox, late, registry, publisher>>, \A n : InHand(n)' <=> InHand(n)
      PROVE  Quiet'
  <2>1. Extended(out, e, out')
    BY <1>3 DEF Put, Extended
  <2>2. (Pending' <=> Pending) /\ (Holding' <=> Holding)
    BY <1>1, <1>3 DEF Pending, Unread, Holding
  <2>3. \A p \in Publishers : Trailing(p)' = Trailing(p)
    BY <1>0, <1>1, <1>3, <2>1, BehindPut DEF Trailing
  <2> QED BY <1>1, <1>3, <2>2, <2>3, QuietKept
<1>4. ASSUME NEW b \in Backends, ClientCalls(b) PROVE Quiet'
  <2>1. PICK request : request = [kind |-> "call", b |-> b]
    OBVIOUS
  <2>2. Sends(request) /\ request.kind \notin {"subscribe", "unsubscribe"} /\ UNCHANGED late
    BY <1>4, <2>1 DEF ClientCalls
  <2> QED BY <2>2, QuietSends
<1>5. ASSUME ClientLists PROVE Quiet'
  <2>1. PICK request : request = [kind |-> "list"]
    OBVIOUS
  <2>2. Sends(request) /\ request.kind \notin {"subscribe", "unsubscribe"} /\ UNCHANGED late
    BY <1>5, <2>1 DEF ClientLists
  <2> QED BY <2>2, QuietSends
<1>6. ASSUME NEW a, ClientReplies(a) \/ ClientCancels(a) PROVE Quiet'
  <2>1. UNCHANGED <<requests, out, loop, late, registry, publisher>>
    BY <1>6 DEF ClientReplies, ClientCancels, subVars
  <2>2. PICK e : Put(inbox, e) /\ e.kind # "request"
    <3>1. \/ Put(inbox, [kind |-> "reply", srv |-> a.srv, what |-> a.what])
          \/ Put(inbox, [kind |-> "cancel", srv |-> a.srv, what |-> a.what])
      BY <1>6 DEF ClientReplies, ClientCancels
    <3>2. /\ [kind |-> "reply", srv |-> a.srv, what |-> a.what].kind # "request"
          /\ [kind |-> "cancel", srv |-> a.srv, what |-> a.what].kind # "request"
      OBVIOUS
    <3> QED BY <3>1, <3>2
  <2>3. Extended(inbox, e, inbox')
    BY <2>2 DEF Put, Extended
  <2>4. \A n : Unread(n)' <=> Unread(n)
    BY <1>0, <2>2, <2>3, InPut DEF Unread
  <2>5. /\ (Pending' <=> Pending) /\ (Holding' <=> Holding)
        /\ \A p \in Publishers : Trailing(p)' = Trailing(p)
    BY <1>1, <2>1, <2>4 DEF Pending, Holding, InHand, Trailing
  <2> QED BY <1>1, <2>1, <2>5, QuietKept
<1>7. ASSUME Expire \/ \E b \in Backends : ReaderReads(b) PROVE Quiet'
  <2>1. UNCHANGED <<requests, inbox, out, late, registry, publisher>>
    BY <1>7 DEF Expire, ReaderReads, clientVars, subVars
  <2>2. loop' = loop \/ (loop.at = "awaiting" /\ loop'.at = "sending" /\ loop'.n = loop.n)
    <3>1. CASE Expire
      BY <3>1 DEF Expire, Responds
    <3>2. ASSUME NEW b \in Backends, ReaderReads(b)
          PROVE  loop' = loop \/ (loop.at = "awaiting" /\ loop'.at = "sending" /\ loop'.n = loop.n)
      <4>1. PICK m : m = Head(back[b])
        OBVIOUS
      <4>2. BackShape
        BY DEF Shapes
      <4>3. CASE IsAwaited(b, Number(m))
        <5>1. loop' = [at |-> "sending", n |-> loop.n, says |-> "ok"] /\ loop.at = "awaiting"
          BY <3>2, <4>1, <4>2, <4>3, ReaderSays
        <5>2. loop'.at = "sending" /\ loop'.n = loop.n
          BY <5>1
        <5> QED BY <5>1, <5>2
      <4>4. CASE ~IsAwaited(b, Number(m))
        BY <3>2, <4>1, <4>2, <4>4, ReaderSays
      <4> QED BY <4>3, <4>4
    <3> QED BY <1>7, <3>1, <3>2
  <2>3. \A n : InHand(n)' <=> InHand(n)
    BY <2>2 DEF InHand
  <2> QED BY <1>2, <2>1, <2>3
<1>8. ASSUME Drain PROVE Quiet'
  <2>1. /\ Dropped(sink, sink') /\ Put(out, Head(sink))
        /\ UNCHANGED <<requests, inbox, loop, late, registry, publisher>>
    BY <1>8 DEF Drain, Dropped, clientVars, subVars
  <2>2. Head(sink).kind \notin {"updated", "response"}
    <3>1. 1 \in DOMAIN sink /\ Head(sink) = sink[1]
      BY <1>0, <2>1, TailIs
    <3> QED BY <1>0, <3>1 DEF SinkKinds
  <2>3. \A n : InHand(n)' <=> InHand(n)
    BY <2>1 DEF InHand
  <2> QED BY <1>3, <2>1, <2>2, <2>3
<1>9. ASSUME NEW t \in Tasks, Look(t) \/ Lock(t) \/ Announce(t) PROVE Quiet'
  <2>1. UNCHANGED <<requests, inbox, late, registry, publisher>>
    BY <1>9 DEF Look, Lock, Announce, clientVars, subVars
  <2>2. loop' = loop \/ (loop.at = "emitting" /\ loop'.at = "reading")
    <3>1. CASE Look(t)
      BY <3>1 DEF Look
    <3>2. CASE Lock(t) \/ Announce(t)
      BY <3>2 DEF Lock, Announce, Done, Emitting
    <3> QED BY <1>9, <3>1, <3>2
  <2>3. \A n : InHand(n)' <=> InHand(n)
    BY <2>2 DEF InHand
  <2>4. CASE Look(t) \/ Lock(t)
    <3>1. out' = out
      BY <2>4 DEF Look, Lock
    <3> QED BY <1>2, <2>1, <2>3, <3>1
  <2>5. CASE Announce(t)
    <3>1. Put(out, [kind |-> "changed"])
      BY <2>5 DEF Announce
    <3>2. [kind |-> "changed"].kind \notin {"updated", "response"}
      OBVIOUS
    <3> QED BY <1>3, <2>1, <2>3, <3>1, <3>2
  <2> QED BY <1>9, <2>4, <2>5
<1>10. ASSUME NEW p \in Publishers, PublishChecks(p) PROVE Quiet'
  <2>1. /\ UNCHANGED <<requests, inbox, loop, out, late, registry>>
        /\ publisher[p] = "idle"
        /\ publisher' = [publisher EXCEPT ![p] = IF registry THEN "sending" ELSE "idle"]
    BY <1>10 DEF PublishChecks, clientVars
  <2>2. /\ (Pending' <=> Pending) /\ (Holding' <=> Holding)
        /\ \A x \in Publishers : Trailing(x)' = Trailing(x)
    BY <1>1, <2>1 DEF Pending, Unread, Holding, InHand, Trailing
  <2>3. /\ publisher' = [x \in Publishers |-> publisher'[x]]
        /\ publisher'[p] = IF registry THEN "sending" ELSE "idle"
        /\ \A x \in Publishers \ {p} : publisher'[x] = publisher[x]
    BY <2>1 DEF Quiet
  <2>4. ASSUME NEW x \in Publishers PROVE QuietOf(x)'
    <3>1. QuietOf(x) /\ (Over => ~registry) /\ Trailing(x)' = Trailing(x)
      BY <2>2 DEF Quiet
    <3>2. publisher'[x] = publisher[x] \/ (publisher'[x] \in {"idle", "sending"} /\ ~Over)
          \/ (publisher'[x] = "idle" /\ x = p)
      BY <2>3, <3>1
    <3> QED BY <1>1, <2>1, <2>2, <3>1, <3>2 DEF QuietOf, Over
  <2> QED BY <1>1, <2>1, <2>2, <2>3, <2>4 DEF Quiet, Over
<1>11. ASSUME NEW p \in Publishers, PublishSends(p) PROVE Quiet'
  <2>1. PICK e : e = [kind |-> "updated", p |-> p]
    OBVIOUS
  <2>2. /\ Extended(out, e, out') /\ e.kind = "updated" /\ e.p = p
        /\ UNCHANGED <<requests, inbox, loop, late, registry>>
        /\ publisher[p] = "sending" /\ publisher' = [publisher EXCEPT ![p] = "idle"]
    BY <1>11, <2>1 DEF PublishSends, Put, Extended, clientVars
  <2>3. (Pending' <=> Pending) /\ (Holding' <=> Holding)
    BY <1>1, <2>2 DEF Pending, Unread, Holding, InHand
  <2>4. /\ publisher' = [x \in Publishers |-> publisher'[x]] /\ publisher'[p] = "idle"
        /\ \A x \in Publishers \ {p} : publisher'[x] = publisher[x]
    BY <2>2 DEF Quiet
  <2>5. ASSUME NEW x \in Publishers PROVE QuietOf(x)'
    <3>1. QuietOf(x)
      BY DEF Quiet
    <3>2. CASE x = p
      <4>1. Trailing(p)' = Trailing(p) \cup {Len(out')}
        BY <1>0, <1>1, <2>2, BehindPut DEF Trailing
      <4> QED BY <1>1, <2>2, <2>3, <2>4, <3>1, <3>2, <4>1 DEF QuietOf, Over
    <3>3. CASE x # p
      <4>1. Trailing(x)' = Trailing(x)
        BY <1>0, <1>1, <2>2, <3>3, BehindPut DEF Trailing
      <4> QED BY <1>1, <2>2, <2>3, <2>4, <3>1, <3>3, <4>1 DEF QuietOf, Over
    <3> QED BY <3>2, <3>3
  <2> QED BY <1>1, <2>2, <2>3, <2>4, <2>5 DEF Quiet, Over
<1>12. ASSUME \/ UNCHANGED vars
              \/ \E b \in Backends : BreakerFlips(b) \/ BackendReads(b) \/ BackendAsks(b) \/ BackendAnswers(b)
       PROVE  Quiet'
  <2>1. UNCHANGED <<requests, inbox, loop, out, late, registry, publisher>>
    BY <1>12 DEF BreakerFlips, BackendReads, BackendAsks, BackendAnswers, vars, clientVars, subVars
  <2>2. \A n : InHand(n)' <=> InHand(n)
    BY <2>1 DEF InHand
  <2> QED BY <1>2, <2>1, <2>2
<1>13. ASSUME \/ ClientReads \/ LoopReads \/ LoopSends
              \/ \E kind \in {"subscribe", "unsubscribe"} : ClientSubscribes(kind)
       PROVE  Quiet'
  BY <1>13, QuietClientReads, QuietLoopReads, QuietLoopSends, QuietSubscribes
<1> QED BY <1>4, <1>5, <1>6, <1>7, <1>8, <1>9, <1>10, <1>11, <1>12, <1>13 DEF Next

LEMMA QuietInit == Init => Quiet
<1> SUFFICES ASSUME Init PROVE Quiet
  OBVIOUS
<1>1. /\ inbox = <<>> /\ out = <<>> /\ requests = <<>> /\ registry = FALSE /\ loop.at = "reading"
      /\ late = [p \in Publishers |-> 0] /\ publisher = [p \in Publishers |-> "idle"]
  BY DEF Init
<1>2. ASSUME NEW p \in Publishers PROVE QuietOf(p)
  <2>1. Trailing(p) = {}
    BY <1>1, EmptyIs DEF Trailing, Behind
  <2>2. late[p] = 0 /\ publisher[p] = "idle"
    BY <1>1
  <2>3. late[p] <= 1 /\ late[p] # 1
    BY <2>2
  <2>4. publisher[p] # "sending" /\ publisher[p] \in {"idle", "sending"}
    BY <2>2
  <2> QED BY <2>1, <2>2, <2>3, <2>4, Zenon DEF QuietOf
<1>3. publisher = [p \in Publishers |-> publisher[p]]
  BY <1>1
<1>4. ~registry /\ registry \in BOOLEAN
  BY <1>1
<1> QED BY <1>2, <1>3, <1>4, Zenon DEF Quiet

-------------------------------------------------------------------------------
\* Theorems.
Inv == Shapes /\ AnswerInv /\ ReplyInv /\ Quiet

\* What holds of every behaviour of the router around its route loop (route_loop, the
\* readers, the drain task, the surface watcher and ResourcePublisher::publish).
THEOREM Invariance == Spec => []Inv
<1>1. Init => Inv
  BY ShapesInit, AnswersInit, RepliesInit, QuietInit DEF Inv
<1>2. Inv /\ [Next]_vars => Inv'
  <2> SUFFICES ASSUME Inv, [Next]_vars PROVE Inv'
    OBVIOUS
  <2>1. Shapes /\ OnePlace /\ InOrder /\ Works /\ Strays /\ Emitting /\ ReplyInv /\ Quiet
    BY DEF Inv, AnswerInv
  <2>2. Shapes'
    BY <2>1, ShapesNext
  <2>3. AnswerInv'
    BY <2>1, OnePlaceNext, InOrderNext, WorksNext, EmittingNext DEF AnswerInv
  <2>4. ReplyInv'
    BY <2>1, RepliesNext
  <2>5. Quiet'
    BY <2>1, QuietNext
  <2> QED BY <2>2, <2>3, <2>4, <2>5 DEF Inv
<1> QED BY <1>1, <1>2, PTL DEF Spec

\* A client's reply or cancellation reaches only the backend that asked, under its own
\* number, and one of the two is enough (route_client_reply, route_client_cancellation).
THEOREM RepliesReachTheirBackend == Spec => []RepliesGoHome
<1>1. Inv => RepliesGoHome
  BY RepliesAreHome DEF Inv, ReplyInv
<1> QED BY <1>1, Invariance, PTL

\* A request has one response however late its backend answers; an answer that goes to the
\* client as it is belongs to a call that was given up, or that a request of the backend
\* under the same id was taken to answer (BackendReader, call_with_timeout).
THEOREM RequestsAreAnsweredOnce == Spec => []AnsweredOnce
<1>1. Inv => AnsweredOnce
  BY AnsweredAtMostOnce DEF Inv, AnswerInv
<1> QED BY <1>1, Invariance, PTL

\* An unsubscribed client gets of each publisher at most the update that was under way,
\* however many publish at once (ResourcePublisher::publish, &self of a cloneable handle).
THEOREM UnsubscribedClientIsQuiet == Spec => []UnsubscribedIsQuiet
<1>1. Inv => UnsubscribedIsQuiet
  BY DEF Inv, Quiet, QuietOf, UnsubscribedIsQuiet
<1> QED BY <1>1, Invariance, PTL

-------------------------------------------------------------------------------
\* What a filter chain makes of a request.

\* Induction, with a set in place of a predicate.
LEMMA SetInduction ==
  ASSUME NEW N, 0 \in N, \A n \in Nat : n \in N => n + 1 \in N
  PROVE  Nat \subseteq N
<1> SUFFICES ASSUME Nat \ N # {} PROVE FALSE
  OBVIOUS
<1>1. PICK x \in Nat \ N : \A y \in Nat \ N : ~(<<y, x>> \in OpToRel(<, Nat))
  BY WFMin, NatLessThanWellFounded
<1>2. x # 0 /\ x - 1 \in Nat /\ x - 1 < x
  OBVIOUS
<1>3. <<x - 1, x>> \in OpToRel(<, Nat)
  BY <1>2, Zenon DEF OpToRel
<1>4. x - 1 \in N
  BY <1>1, <1>2, <1>3
<1>5. (x - 1) + 1 \in N
  BY <1>2, <1>4
<1> QED BY <1>2, <1>5

\* A message with the tool of the request.
Kept(m, request) ==
  /\ m = [method |-> m.method, tool |-> m.tool, arguments |-> m.arguments, meta |-> m.meta]
  /\ m.tool = request.tool

LEMMA ApplyKeeps ==
  ASSUME NEW m, NEW request, Kept(m, request), NEW verdict
  PROVE  Kept(apply_one(verdict, m), request)
<1>1. m = [method |-> m.method, tool |-> m.tool, arguments |-> m.arguments, meta |-> m.meta]
  BY DEF Kept
<1>2. CASE verdict.kind = "mutate"
  <2>1. apply_one(verdict, m) = [m EXCEPT !.arguments = verdict.arguments]
    BY <1>2 DEF apply_one
  <2> QED BY <1>1, <2>1 DEF Kept
<1>3. CASE verdict.kind = "annotate"
  <2>1. PICK meta : apply_one(verdict, m) = [m EXCEPT !.meta = meta]
    BY <1>3 DEF apply_one
  <2> QED BY <1>1, <2>1 DEF Kept
<1>4. CASE verdict.kind # "mutate" /\ verdict.kind # "annotate"
  BY <1>4 DEF apply_one
<1> QED BY <1>2, <1>3, <1>4

\* The turns of the loop, and the reduction, exist for every number of filters.
Turns(hs, request, n, f) ==
  f = [i \in 0..n |->
        IF i = 0 THEN [verdicts |-> <<>>, stopped |-> FALSE, message |-> request]
        ELSE Turn(hs[i], Context(request, "c2u"), f[i - 1])]

Reduction(verdicts, request, n, f) ==
  f = [i \in 0..n |->
        IF i = 0 THEN Forward(request)
        ELSE IF f[i - 1].action = "block" THEN f[i - 1]
        ELSE IF Blocking(verdicts[i]) THEN Block(verdicts[i])
        ELSE Forward(apply_one(verdicts[i], f[i - 1].message))]

LEMMA TurnsExist ==
  ASSUME NEW hs, NEW request, NEW n \in Nat
  PROVE  \E f : Turns(hs, request, n, f)
<1> DEFINE N == {k \in Nat : \E f : Turns(hs, request, k, f)}
<1>1. 0 \in N
  <2> DEFINE f == [i \in 0..0 |-> [verdicts |-> <<>>, stopped |-> FALSE, message |-> request]]
  <2>1. Turns(hs, request, 0, f)
    BY DEF Turns
  <2> QED BY <2>1
<1>2. ASSUME NEW k \in Nat, k \in N
      PROVE  k + 1 \in N
  <2>1. PICK f : Turns(hs, request, k, f)
    BY <1>2
  <2> DEFINE last == Turn(hs[k + 1], Context(request, "c2u"), f[k])
             g == [i \in 0..(k + 1) |-> IF i = k + 1 THEN last ELSE f[i]]
  <2>2. g[k + 1] = last /\ \A i \in 0..k : g[i] = f[i]
    OBVIOUS
  <2>3. ASSUME NEW i \in 0..(k + 1)
        PROVE  g[i] = IF i = 0 THEN [verdicts |-> <<>>, stopped |-> FALSE, message |-> request]
                      ELSE Turn(hs[i], Context(request, "c2u"), g[i - 1])
    <3>1. CASE i = k + 1
      <4>1. g[i - 1] = f[k]
        BY <2>2, <3>1
      <4>2. g[i] = last /\ i # 0
        BY <2>2, <3>1
      <4> QED BY <3>1, <4>1, <4>2
    <3>2. CASE i = 0
      BY <2>1, <2>2, <3>2 DEF Turns
    <3>3. CASE i \in 1..k
      <4>1. g[i] = f[i] /\ g[i - 1] = f[i - 1] /\ i # 0 /\ i \in 0..k
        BY <2>2, <3>3
      <4>2. f[i] = Turn(hs[i], Context(request, "c2u"), f[i - 1])
        BY <2>1, <4>1 DEF Turns
      <4> QED BY <4>1, <4>2
    <3> QED BY <3>1, <3>2, <3>3
  <2>4. g = [i \in 0..(k + 1) |-> g[i]]
    OBVIOUS
  <2> HIDE DEF g
  <2>5. Turns(hs, request, k + 1, g)
    BY <2>3, <2>4 DEF Turns
  <2> QED BY <2>5
<1> HIDE DEF N
<1>3. n \in N
  BY <1>1, <1>2, SetInduction
<1> QED BY <1>3 DEF N

LEMMA ReductionExists ==
  ASSUME NEW verdicts, NEW request, NEW n \in Nat
  PROVE  \E f : Reduction(verdicts, request, n, f)
<1> DEFINE N == {k \in Nat : \E f : Reduction(verdicts, request, k, f)}
           Next_(i, x) == IF x.action = "block" THEN x
                          ELSE IF Blocking(verdicts[i]) THEN Block(verdicts[i])
                          ELSE Forward(apply_one(verdicts[i], x.message))
<1>1. 0 \in N
  <2> DEFINE f == [i \in 0..0 |-> Forward(request)]
  <2>1. Reduction(verdicts, request, 0, f)
    BY DEF Reduction
  <2> QED BY <2>1
<1>2. ASSUME NEW k \in Nat, k \in N
      PROVE  k + 1 \in N
  <2>1. PICK f : Reduction(verdicts, request, k, f)
    BY <1>2
  <2> DEFINE last == Next_(k + 1, f[k])
             g == [i \in 0..(k + 1) |-> IF i = k + 1 THEN last ELSE f[i]]
  <2>2. g[k + 1] = last /\ \A i \in 0..k : g[i] = f[i]
    OBVIOUS
  <2>3. ASSUME NEW i \in 0..(k + 1)
        PROVE  g[i] = IF i = 0 THEN Forward(request) ELSE Next_(i, g[i - 1])
    <3>1. CASE i = k + 1
      <4>1. g[i - 1] = f[k]
        BY <2>2, <3>1
      <4>2. g[i] = last /\ i # 0
        BY <2>2, <3>1
      <4> QED BY <3>1, <4>1, <4>2
    <3>2. CASE i = 0
      BY <2>1, <2>2, <3>2 DEF Reduction
    <3>3. CASE i \in 1..k
      <4>1. g[i] = f[i] /\ g[i - 1] = f[i - 1] /\ i # 0 /\ i \in 0..k
        BY <2>2, <3>3
      <4>2. f[i] = Next_(i, f[i - 1])
        BY <2>1, <4>1 DEF Reduction
      <4> QED BY <4>1, <4>2
    <3> QED BY <3>1, <3>2, <3>3
  <2>4. g = [i \in 0..(k + 1) |-> g[i]]
    OBVIOUS
  <2> HIDE DEF g
  <2>5. Reduction(verdicts, request, k + 1, g)
    BY <2>3, <2>4 DEF Reduction
  <2> QED BY <2>5
<1> HIDE DEF N
<1>3. n \in N
  BY <1>1, <1>2, SetInduction
<1> QED BY <1>3 DEF N

StagesOf(hs, request, n, f) ==
  f = [i \in 0..n |->
        IF i = 0 THEN request
        ELSE IF Looks(hs[i], request) THEN apply_one(Evaluate(hs[i], f[i - 1]), f[i - 1])
        ELSE f[i - 1]]

LEMMA StagesExist ==
  ASSUME NEW hs, NEW request, NEW n \in Nat
  PROVE  \E f : StagesOf(hs, request, n, f)
<1> DEFINE N == {k \in Nat : \E f : StagesOf(hs, request, k, f)}
           Shaped(i, x) == IF Looks(hs[i], request) THEN apply_one(Evaluate(hs[i], x), x) ELSE x
<1>1. 0 \in N
  <2> DEFINE f == [i \in 0..0 |-> request]
  <2>1. StagesOf(hs, request, 0, f)
    BY DEF StagesOf
  <2> QED BY <2>1
<1>2. ASSUME NEW k \in Nat, k \in N
      PROVE  k + 1 \in N
  <2>1. PICK f : StagesOf(hs, request, k, f)
    BY <1>2
  <2> DEFINE last == Shaped(k + 1, f[k])
             g == [i \in 0..(k + 1) |-> IF i = k + 1 THEN last ELSE f[i]]
  <2>2. g[k + 1] = last /\ \A i \in 0..k : g[i] = f[i]
    OBVIOUS
  <2>3. ASSUME NEW i \in 0..(k + 1)
        PROVE  g[i] = IF i = 0 THEN request ELSE Shaped(i, g[i - 1])
    <3>1. CASE i = k + 1
      <4>1. g[i - 1] = f[k]
        BY <2>2, <3>1
      <4>2. g[i] = last /\ i # 0
        BY <2>2, <3>1
      <4> QED BY <3>1, <4>1, <4>2
    <3>2. CASE i = 0
      BY <2>1, <2>2, <3>2 DEF StagesOf
    <3>3. CASE i \in 1..k
      <4>1. g[i] = f[i] /\ g[i - 1] = f[i - 1] /\ i # 0 /\ i \in 0..k
        BY <2>2, <3>3
      <4>2. f[i] = Shaped(i, f[i - 1])
        BY <2>1, <4>1 DEF StagesOf
      <4> QED BY <4>1, <4>2
    <3> QED BY <3>1, <3>2, <3>3
  <2>4. g = [i \in 0..(k + 1) |-> g[i]]
    OBVIOUS
  <2> HIDE DEF g
  <2>5. StagesOf(hs, request, k + 1, g)
    BY <2>3, <2>4 DEF StagesOf
  <2> QED BY <2>5
<1> HIDE DEF N
<1>3. n \in N
  BY <1>1, <1>2, SetInduction
<1> QED BY <1>3 DEF N

LEMMA StagesAre ==
  ASSUME NEW hs, IsSeq(hs), NEW request
  PROVE  /\ Stages(hs, request)[0] = request
         /\ \A i \in 1..Len(hs) :
              /\ Looks(hs[i], request) =>
                   Stages(hs, request)[i] =
                     apply_one(Evaluate(hs[i], Stages(hs, request)[i - 1]),
                               Stages(hs, request)[i - 1])
              /\ ~Looks(hs[i], request) => Stages(hs, request)[i] = Stages(hs, request)[i - 1]
<1> DEFINE f == CHOOSE g : StagesOf(hs, request, Len(hs), g)
<1>0. Len(hs) \in Nat
  BY SeqIs
<1>1. StagesOf(hs, request, Len(hs), f)
  BY <1>0, StagesExist
<1>2. Stages(hs, request) = f
  BY Zenon DEF Stages, StagesOf
<1> HIDE DEF f
<1>3. f[0] = request
  BY <1>0, <1>1 DEF StagesOf
<1>4. ASSUME NEW i \in 1..Len(hs)
      PROVE  f[i] = IF Looks(hs[i], request) THEN apply_one(Evaluate(hs[i], f[i - 1]), f[i - 1])
                    ELSE f[i - 1]
  <2>1. i \in 0..Len(hs) /\ i # 0
    BY <1>0
  <2> QED BY <1>1, <2>1 DEF StagesOf
<1> QED BY <1>2, <1>3, <1>4

\* The turns of the loop that runs.
LEMMA TurnsAre ==
  ASSUME NEW hs, IsSeq(hs), NEW request
  PROVE  \E f : /\ RunLoop(hs, request) = f[Len(hs)]
                /\ f[0] = [verdicts |-> <<>>, stopped |-> FALSE, message |-> request]
                /\ \A i \in 1..Len(hs) : f[i] = Turn(hs[i], Context(request, "c2u"), f[i - 1])
<1> DEFINE f == CHOOSE g : Turns(hs, request, Len(hs), g)
<1>0. Len(hs) \in Nat
  BY SeqIs
<1>1. Turns(hs, request, Len(hs), f)
  BY <1>0, TurnsExist
<1>2. RunLoop(hs, request) = f[Len(hs)]
  BY Zenon DEF RunLoop, Turns
<1> HIDE DEF f
<1>3. f[0] = [verdicts |-> <<>>, stopped |-> FALSE, message |-> request]
  BY <1>0, <1>1 DEF Turns
<1>4. ASSUME NEW i \in 1..Len(hs)
      PROVE  f[i] = Turn(hs[i], Context(request, "c2u"), f[i - 1])
  <2>1. i \in 0..Len(hs) /\ i # 0
    BY <1>0
  <2> QED BY <1>1, <2>1 DEF Turns
<1> QED BY <1>2, <1>3, <1>4

\* The reduction of no verdict, and of one more.
Reduced(outcome, verdict) ==
  IF outcome.action = "block" THEN outcome
  ELSE IF Blocking(verdict) THEN Block(verdict)
  ELSE Forward(apply_one(verdict, outcome.message))

LEMMA ReductionIs ==
  ASSUME NEW verdicts, IsSeq(verdicts), NEW request
  PROVE  \E f : /\ chain_outcome(verdicts, request) = f[Len(verdicts)]
                /\ f[0] = Forward(request)
                /\ \A i \in 1..Len(verdicts) : f[i] = Reduced(f[i - 1], verdicts[i])
<1> DEFINE f == CHOOSE g : Reduction(verdicts, request, Len(verdicts), g)
<1>0. Len(verdicts) \in Nat
  BY SeqIs
<1>1. Reduction(verdicts, request, Len(verdicts), f)
  BY <1>0, ReductionExists
<1>2. chain_outcome(verdicts, request) = f[Len(verdicts)]
  BY Zenon DEF chain_outcome, Reduction
<1> HIDE DEF f
<1>3. f[0] = Forward(request)
  BY <1>0, <1>1 DEF Reduction
<1>4. ASSUME NEW i \in 1..Len(verdicts)
      PROVE  f[i] = Reduced(f[i - 1], verdicts[i])
  <2>1. i \in 0..Len(verdicts) /\ i # 0
    BY <1>0
  <2> QED BY <1>1, <2>1 DEF Reduction, Reduced
<1> QED BY <1>2, <1>3, <1>4

LEMMA NothingReduced ==
  ASSUME NEW request
  PROVE  chain_outcome(<<>>, request) = Forward(request)
BY EmptyIs, ReductionIs

LEMMA OneMoreReduced ==
  ASSUME NEW vs, IsSeq(vs), NEW v, NEW ws, Extended(vs, v, ws), NEW request
  PROVE  chain_outcome(ws, request) = Reduced(chain_outcome(vs, request), v)
<1>1. /\ IsSeq(ws) /\ Len(ws) = Len(vs) + 1 /\ Len(vs) \in Nat
      /\ \A i \in DOMAIN vs : ws[i] = vs[i]
      /\ ws[Len(ws)] = v /\ DOMAIN vs = 1..Len(vs)
  BY AppendIs, SeqIs
<1>2. PICK f : /\ chain_outcome(vs, request) = f[Len(vs)]
               /\ f[0] = Forward(request)
               /\ \A i \in 1..Len(vs) : f[i] = Reduced(f[i - 1], vs[i])
  BY ReductionIs
<1>3. PICK g : /\ chain_outcome(ws, request) = g[Len(ws)]
               /\ g[0] = Forward(request)
               /\ \A i \in 1..Len(ws) : g[i] = Reduced(g[i - 1], ws[i])
  BY <1>1, ReductionIs
<1> DEFINE N == {k \in Nat : k <= Len(vs) => g[k] = f[k]}
<1>4. 0 \in N
  BY <1>2, <1>3
<1>5. ASSUME NEW k \in Nat, k \in N
      PROVE  k + 1 \in N
  <2> SUFFICES ASSUME k + 1 <= Len(vs) PROVE g[k + 1] = f[k + 1]
    OBVIOUS
  <2>1. k + 1 \in 1..Len(vs) /\ k + 1 \in 1..Len(ws) /\ (k + 1) - 1 = k /\ g[k] = f[k]
    BY <1>1, <1>5
  <2> QED BY <1>1, <1>2, <1>3, <2>1
<1> HIDE DEF N
<1>6. Len(vs) \in N
  BY <1>1, <1>4, <1>5, SetInduction
<1>7. g[Len(vs)] = f[Len(vs)]
  BY <1>1, <1>6 DEF N
<1>8. Len(ws) \in 1..Len(ws) /\ Len(ws) - 1 = Len(vs)
  BY <1>1
<1> QED BY <1>1, <1>2, <1>3, <1>7, <1>8

\* Up to a filter, the message that runs and the message that comes of the verdicts are
\* the stage before it, unless one of the filters so far has objected.
Agrees(turn, request, stages, hs, k) ==
  /\ IsSeq(turn.verdicts) /\ turn.stopped \in BOOLEAN
  /\ turn.stopped => chain_outcome(turn.verdicts, request).action = "block"
  /\ ~turn.stopped =>
       /\ turn.message = stages[k]
       /\ chain_outcome(turn.verdicts, request) = Forward(stages[k])
       /\ \A i \in 1..k : Looks(hs[i], request) => ~Blocking(Evaluate(hs[i], stages[i - 1]))

LEMMA TurnAgrees ==
  ASSUME NEW hs, NEW request, NEW stages, NEW k \in Nat, NEW turn,
         Agrees(turn, request, stages, hs, k),
         Looks(hs[k + 1], request) =>
           stages[k + 1] = apply_one(Evaluate(hs[k + 1], stages[k]), stages[k]),
         ~Looks(hs[k + 1], request) => stages[k + 1] = stages[k]
  PROVE  Agrees(Turn(hs[k + 1], Context(request, "c2u"), turn), request, stages, hs, k + 1)
<1> DEFINE v == Evaluate(hs[k + 1], turn.message)
           next == Turn(hs[k + 1], Context(request, "c2u"), turn)
<1>1. CASE turn.stopped
  <2>1. next = turn
    BY <1>1 DEF Turn
  <2> QED BY <1>1, <2>1 DEF Agrees
<1>2. CASE ~turn.stopped /\ ~Looks(hs[k + 1], request)
  <2>1. next = turn
    BY <1>2 DEF Turn, Looks
  <2>2. \A i \in 1..(k + 1) : i \in 1..k \/ i = k + 1
    OBVIOUS
  <2> HIDE DEF next
  <2>3. Agrees(next, request, stages, hs, k + 1)
    BY <1>2, <2>1, <2>2 DEF Agrees
  <2> QED BY <2>3 DEF next
<1>3. CASE ~turn.stopped /\ Looks(hs[k + 1], request)
  <2>1. /\ next.verdicts = Append(turn.verdicts, v) /\ next.stopped = Blocking(v)
        /\ ~Blocking(v) => next.message = apply_one(v, turn.message)
    BY <1>3 DEF Turn, Looks
  <2>2. Extended(turn.verdicts, v, next.verdicts)
    BY <2>1 DEF Extended
  <2>3. v = Evaluate(hs[k + 1], stages[k])
    BY <1>3 DEF Agrees
  <2>4. stages[k + 1] = apply_one(v, stages[k])
    BY <1>3, <2>3
  <2>5. next.stopped \in BOOLEAN /\ (next.stopped <=> Blocking(v))
    <3>1. Blocking(v) \in BOOLEAN
      BY DEF Blocking
    <3>2. PICK stopped : stopped = next.stopped
      OBVIOUS
    <3>3. stopped = Blocking(v)
      BY <2>1, <3>2
    <3>4. stopped \in BOOLEAN /\ (stopped <=> Blocking(v))
      BY <3>1, <3>3, Zenon
    <3> QED BY <3>2, <3>4
  <2>6. turn.message = stages[k] /\ chain_outcome(turn.verdicts, request) = Forward(stages[k])
    BY <1>3 DEF Agrees
  <2> HIDE DEF v, next
  <2>7. IsSeq(next.verdicts)
        /\ chain_outcome(next.verdicts, request) = Reduced(Forward(stages[k]), v)
    BY <2>2, <2>6, AppendIs, OneMoreReduced DEF Agrees
  <2>8. CASE Blocking(v)
    <3>1. chain_outcome(next.verdicts, request) = Block(v)
      BY <2>7, <2>8 DEF Reduced, Forward
    <3>2. chain_outcome(next.verdicts, request).action = "block"
      BY <3>1 DEF Block
    <3>3. Agrees(next, request, stages, hs, k + 1)
      BY <2>5, <2>7, <2>8, <3>2 DEF Agrees
    <3> QED BY <3>3 DEF next
  <2>9. CASE ~Blocking(v)
    <3>1. Forward(stages[k]).action = "forward" /\ Forward(stages[k]).message = stages[k]
      BY DEF Forward
    <3>2. chain_outcome(next.verdicts, request) = Forward(stages[k + 1])
      BY <2>4, <2>7, <2>9, <3>1 DEF Reduced
    <3>3. next.message = stages[k + 1]
      BY <2>1, <2>4, <2>6, <2>9
    <3>4. \A i \in 1..(k + 1) :
            Looks(hs[i], request) => ~Blocking(Evaluate(hs[i], stages[i - 1]))
      <4>1. \A i \in 1..(k + 1) : i \in 1..k \/ (i = k + 1 /\ i - 1 = k)
        OBVIOUS
      <4> QED BY <1>3, <2>3, <2>9, <4>1 DEF Agrees
    <3>5. Agrees(next, request, stages, hs, k + 1)
      BY <2>5, <2>7, <2>9, <3>2, <3>3, <3>4 DEF Agrees
    <3> QED BY <3>5 DEF next
  <2> QED BY <2>8, <2>9
<1>4. turn.stopped \in BOOLEAN
  BY DEF Agrees
<1> QED BY <1>1, <1>2, <1>3, <1>4

\* What a chain forwards is the last stage, and nobody objected on the way.
LEMMA RunIsStaged ==
  ASSUME NEW hs, IsSeq(hs), NEW request, run(hs, request).action = "forward"
  PROVE  /\ run(hs, request).message = Stages(hs, request)[Len(hs)]
         /\ \A i \in 1..Len(hs) : Looks(hs[i], request) =>
              ~Blocking(Evaluate(hs[i], Stages(hs, request)[i - 1]))
<1>0. Len(hs) \in Nat
  BY SeqIs
<1>1. PICK f : /\ RunLoop(hs, request) = f[Len(hs)]
               /\ f[0] = [verdicts |-> <<>>, stopped |-> FALSE, message |-> request]
               /\ \A i \in 1..Len(hs) : f[i] = Turn(hs[i], Context(request, "c2u"), f[i - 1])
  BY TurnsAre
<1>2. PICK stages : stages = Stages(hs, request)
  OBVIOUS
<1>3. /\ stages[0] = request
      /\ \A i \in 1..Len(hs) :
           /\ Looks(hs[i], request) =>
                stages[i] = apply_one(Evaluate(hs[i], stages[i - 1]), stages[i - 1])
           /\ ~Looks(hs[i], request) => stages[i] = stages[i - 1]
  BY <1>2, StagesAre
<1> DEFINE N == {k \in Nat : k <= Len(hs) => Agrees(f[k], request, stages, hs, k)}
<1>4. 0 \in N
  <2>1. /\ f[0].verdicts = <<>> /\ f[0].stopped = FALSE /\ f[0].message = stages[0]
    BY <1>1, <1>3
  <2>2. chain_outcome(f[0].verdicts, request) = Forward(stages[0])
    BY <1>3, <2>1, NothingReduced
  <2>3. IsSeq(f[0].verdicts) /\ f[0].stopped \in BOOLEAN /\ ~f[0].stopped
    BY <2>1, EmptyIs
  <2>4. Agrees(f[0], request, stages, hs, 0)
    BY <2>1, <2>2, <2>3 DEF Agrees
  <2> QED BY <2>4
<1>5. ASSUME NEW k \in Nat, k \in N
      PROVE  k + 1 \in N
  <2> SUFFICES ASSUME k + 1 <= Len(hs) PROVE Agrees(f[k + 1], request, stages, hs, k + 1)
    OBVIOUS
  <2>1. k + 1 \in 1..Len(hs) /\ (k + 1) - 1 = k /\ Agrees(f[k], request, stages, hs, k)
    BY <1>0, <1>5
  <2>2. f[k + 1] = Turn(hs[k + 1], Context(request, "c2u"), f[k])
    BY <1>1, <2>1
  <2>3. /\ Looks(hs[k + 1], request) =>
             stages[k + 1] = apply_one(Evaluate(hs[k + 1], stages[k]), stages[k])
        /\ ~Looks(hs[k + 1], request) => stages[k + 1] = stages[k]
    BY <1>3, <2>1
  <2> QED BY <2>1, <2>2, <2>3, TurnAgrees
<1> HIDE DEF N
<1>6. Len(hs) \in N
  BY <1>0, <1>4, <1>5, SetInduction
<1>7. Agrees(f[Len(hs)], request, stages, hs, Len(hs))
  BY <1>0, <1>6 DEF N
<1>8. run(hs, request) = chain_outcome(f[Len(hs)].verdicts, request)
  BY <1>1 DEF run
<1>9. ~f[Len(hs)].stopped
  BY <1>7, <1>8 DEF Agrees
<1>10. run(hs, request).message = stages[Len(hs)]
  BY <1>7, <1>8, <1>9 DEF Agrees, Forward
<1> QED BY <1>2, <1>7, <1>9, <1>10 DEF Agrees

\* Every stage has the four fields of the request.
LEMMA StagesKeep ==
  ASSUME NEW hs, IsSeq(hs), NEW request, Kept(request, request), NEW k \in 0..Len(hs)
  PROVE  Kept(Stages(hs, request)[k], request)
<1>0. Len(hs) \in Nat
  BY SeqIs
<1>1. PICK stages : stages = Stages(hs, request)
  OBVIOUS
<1>2. /\ stages[0] = request
      /\ \A i \in 1..Len(hs) :
           /\ Looks(hs[i], request) =>
                stages[i] = apply_one(Evaluate(hs[i], stages[i - 1]), stages[i - 1])
           /\ ~Looks(hs[i], request) => stages[i] = stages[i - 1]
  BY <1>1, StagesAre
<1> DEFINE N == {i \in Nat : i <= Len(hs) => Kept(stages[i], request)}
<1>3. 0 \in N
  BY <1>2
<1>4. ASSUME NEW i \in Nat, i \in N
      PROVE  i + 1 \in N
  <2> SUFFICES ASSUME i + 1 <= Len(hs) PROVE Kept(stages[i + 1], request)
    OBVIOUS
  <2>1. i + 1 \in 1..Len(hs) /\ (i + 1) - 1 = i /\ Kept(stages[i], request)
    BY <1>0, <1>4
  <2>2. CASE Looks(hs[i + 1], request)
    <3>1. stages[i + 1] = apply_one(Evaluate(hs[i + 1], stages[i]), stages[i])
      BY <1>2, <2>1, <2>2
    <3> QED BY <2>1, <3>1, ApplyKeeps
  <2>3. CASE ~Looks(hs[i + 1], request)
    BY <1>2, <2>1, <2>3
  <2> QED BY <2>2, <2>3
<1> HIDE DEF N
<1>5. k \in Nat /\ k \in N
  BY <1>0, <1>3, <1>4, SetInduction
<1> QED BY <1>1, <1>5 DEF N

\* A chain forwards the request to the tool it was made to.
LEMMA RunKeeps ==
  ASSUME NEW hs, IsSeq(hs), NEW request, Kept(request, request),
         run(hs, request).action = "forward"
  PROVE  Kept(run(hs, request).message, request)
<1>1. Len(hs) \in 0..Len(hs)
  BY SeqIs
<1> QED BY <1>1, RunIsStaged, StagesKeep

-------------------------------------------------------------------------------
\* Who wrote last.

LastOf(S) == CHOOSE i \in S : \A j \in S : j <= i

\* A value that the members of S write is the last one's, or the one it was.
Writes(S, n, value, written) ==
  /\ S \subseteq 1..n
  /\ \A i \in 1..n : /\ i \in S => value[i] = written[i]
                     /\ i \notin S => value[i] = value[i - 1]

LEMMA LastWriter ==
  ASSUME NEW n \in Nat, NEW S, NEW value, NEW written, Writes(S, n, value, written)
  PROVE  /\ S = {} => value[n] = value[0]
         /\ S # {} => LastOf(S) \in S /\ value[n] = written[LastOf(S)]
<1> DEFINE LastTo(k, m) == m \in S /\ m <= k /\ \A j \in S : j <= k => j <= m
           P(k) == \/ (\A j \in S : j > k) /\ value[k] = value[0]
                   \/ \E m : LastTo(k, m) /\ value[k] = written[m]
           N == {k \in Nat : k <= n => P(k)}
<1>0. \A j \in S : j \in Nat /\ j <= n /\ j > 0
  <2>1. S \subseteq 1..n
    BY DEF Writes
  <2> QED BY <2>1
<1>1. P(0)
  BY <1>0
<1>2. ASSUME NEW k \in Nat, k + 1 <= n, P(k)
      PROVE  P(k + 1)
  <2>1. k <= n /\ k + 1 \in 1..n /\ (k + 1) - 1 = k
    BY <1>2
  <2>2. CASE k + 1 \in S
    <3>1. LastTo(k + 1, k + 1)
      BY <1>0, <2>2
    <3>2. value[k + 1] = written[k + 1]
      BY <2>1, <2>2 DEF Writes
    <3> QED BY <3>1, <3>2
  <2>3. CASE k + 1 \notin S
    <3>1. value[k + 1] = value[k]
      BY <2>1, <2>3 DEF Writes
    <3>2. ASSUME \A j \in S : j > k
          PROVE  \A j \in S : j > k + 1
      BY <1>0, <2>3, <3>2
    <3>3. ASSUME NEW m, LastTo(k, m)
          PROVE  LastTo(k + 1, m)
      BY <1>0, <2>3, <3>3
    <3> HIDE DEF LastTo
    <3> QED BY <1>2, <3>1, <3>2, <3>3
  <2> QED BY <2>2, <2>3
<1> HIDE DEF P
<1>3. 0 \in N /\ \A k \in Nat : k \in N => k + 1 \in N
  <2>1. ASSUME NEW k \in Nat, k \in N PROVE k + 1 \in N
    BY <1>2, <2>1
  <2> QED BY <1>1, <2>1
<1> HIDE DEF N
<1>6. n \in N
  BY <1>3, SetInduction
<1>7. P(n)
  BY <1>6 DEF N
<1>4. CASE S = {}
  BY <1>7, <1>4 DEF P
<1>5. CASE S # {}
  <2>1. PICK m : LastTo(n, m) /\ value[n] = written[m]
    BY <1>0, <1>5, <1>7 DEF P
  <2>2. m \in S /\ \A i \in S : i <= m
    BY <1>0, <2>1
  <2>3. \A i \in S : (\A j \in S : j <= i) => i = m
    BY <1>0, <2>2
  <2>4. m = LastOf(S)
    BY <2>2, <2>3 DEF LastOf
  <2> QED BY <1>5, <2>1, <2>2, <2>4
<1> QED BY <1>4, <1>5

\* What a filter that looks at a message writes, and what it leaves.
LEMMA ApplyWrites ==
  ASSUME NEW m, NEW request, Kept(m, request), NEW v
  PROVE  /\ v.kind = "mutate" => apply_one(v, m).arguments = v.arguments
         /\ v.kind # "mutate" => apply_one(v, m).arguments = m.arguments
         /\ \A k \in Keys :
              /\ v.kind = "annotate" /\ v.provenance[k] # None =>
                   apply_one(v, m).meta[k] = v.provenance[k]
              /\ ~(v.kind = "annotate" /\ v.provenance[k] # None) =>
                   apply_one(v, m).meta[k] = m.meta[k]
<1>1. m = [method |-> m.method, tool |-> m.tool, arguments |-> m.arguments, meta |-> m.meta]
  BY DEF Kept
<1>2. CASE v.kind = "mutate"
  <2>1. apply_one(v, m) = [m EXCEPT !.arguments = v.arguments]
    BY <1>2 DEF apply_one
  <2>2. apply_one(v, m).arguments = v.arguments /\ apply_one(v, m).meta = m.meta
    BY <1>1, <2>1
  <2>3. v.kind # "annotate"
    BY <1>2
  <2> QED BY <1>2, <2>2, <2>3
<1>3. CASE v.kind = "annotate"
  <2>1. PICK meta : meta = [k \in Keys |-> IF v.provenance[k] # None THEN v.provenance[k]
                                           ELSE m.meta[k]]
    OBVIOUS
  <2>2. apply_one(v, m) = [m EXCEPT !.meta = meta]
    BY <1>3, <2>1 DEF apply_one
  <2>3. apply_one(v, m).arguments = m.arguments /\ apply_one(v, m).meta = meta
    BY <1>1, <2>2
  <2>4. v.kind # "mutate"
    BY <1>3
  <2> QED BY <1>3, <2>1, <2>3, <2>4
<1>4. CASE v.kind # "mutate" /\ v.kind # "annotate"
  <2>1. apply_one(v, m) = m
    BY <1>4 DEF apply_one
  <2> QED BY <1>4, <2>1
<1> QED BY <1>2, <1>3, <1>4

Looked(hs, request) == {i \in DOMAIN hs : Looks(hs[i], request)}
VerdictAt(hs, request, i) == Evaluate(hs[i], Stages(hs, request)[i - 1])
Rewriters(hs, request) ==
  {i \in Looked(hs, request) : VerdictAt(hs, request, i).kind = "mutate"}
Noters(hs, request, k) ==
  {i \in Looked(hs, request) : VerdictAt(hs, request, i).kind = "annotate"
                                /\ VerdictAt(hs, request, i).provenance[k] # None}
Written(S, hs, request) == VerdictAt(hs, request, LastOf(S))

LEMMA StagesWrite ==
  ASSUME NEW hs, IsSeq(hs), NEW request, Kept(request, request)
  PROVE  /\ Stages(hs, request)[Len(hs)].arguments =
              IF Rewriters(hs, request) = {} THEN request.arguments
              ELSE Written(Rewriters(hs, request), hs, request).arguments
         /\ \A k \in Keys : Stages(hs, request)[Len(hs)].meta[k] =
              IF Noters(hs, request, k) = {} THEN request.meta[k]
              ELSE Written(Noters(hs, request, k), hs, request).provenance[k]
<1>0. Len(hs) \in Nat /\ DOMAIN hs = 1..Len(hs)
  BY SeqIs
<1>1. PICK stages : stages = Stages(hs, request)
  OBVIOUS
<1>2. /\ stages[0] = request
      /\ \A i \in 1..Len(hs) :
           /\ Looks(hs[i], request) =>
                stages[i] = apply_one(Evaluate(hs[i], stages[i - 1]), stages[i - 1])
           /\ ~Looks(hs[i], request) => stages[i] = stages[i - 1]
  BY <1>1, StagesAre
<1>3. \A i \in 0..Len(hs) : Kept(stages[i], request)
  BY <1>1, StagesKeep
<1>4. ASSUME NEW i \in 1..Len(hs)
      PROVE  /\ i \in Looked(hs, request) => stages[i] = apply_one(VerdictAt(hs, request, i), stages[i - 1])
             /\ i \notin Looked(hs, request) => stages[i] = stages[i - 1]
             /\ Kept(stages[i - 1], request) /\ i \in 0..Len(hs) /\ i - 1 \in 0..Len(hs)
  <2>1. VerdictAt(hs, request, i) = Evaluate(hs[i], stages[i - 1])
    BY <1>1 DEF VerdictAt
  <2>2. i \in 0..Len(hs) /\ i - 1 \in 0..Len(hs)
    BY <1>0
  <2>3. i \in Looked(hs, request) <=> Looks(hs[i], request)
    BY <1>0 DEF Looked
  <2> QED BY <1>2, <1>3, <2>1, <2>2, <2>3
<1>5. Stages(hs, request)[Len(hs)].arguments =
        IF Rewriters(hs, request) = {} THEN request.arguments
              ELSE Written(Rewriters(hs, request), hs, request).arguments
  <2> DEFINE S == {i \in Looked(hs, request) : VerdictAt(hs, request, i).kind = "mutate"}
             value == [i \in 0..Len(hs) |-> stages[i].arguments]
             written == [i \in 1..Len(hs) |-> VerdictAt(hs, request, i).arguments]
  <2>1. S \subseteq 1..Len(hs)
    BY <1>0 DEF Looked
  <2>2. ASSUME NEW i \in 1..Len(hs)
        PROVE  (i \in S => value[i] = written[i]) /\ (i \notin S => value[i] = value[i - 1])
    <3>1. value[i] = stages[i].arguments /\ value[i - 1] = stages[i - 1].arguments
          /\ written[i] = VerdictAt(hs, request, i).arguments
      BY <1>4
    <3>2. CASE i \in Looked(hs, request)
      <4>1. i \in S <=> VerdictAt(hs, request, i).kind = "mutate"
        BY <3>2
      <4>2. /\ VerdictAt(hs, request, i).kind = "mutate" => stages[i].arguments = VerdictAt(hs, request, i).arguments
            /\ VerdictAt(hs, request, i).kind # "mutate" => stages[i].arguments = stages[i - 1].arguments
          <5>1. PICK m, v : m = stages[i - 1] /\ v = VerdictAt(hs, request, i)
            OBVIOUS
          <5>2. Kept(m, request) /\ stages[i] = apply_one(v, m)
            BY <1>4, <3>2, <5>1
          <5>3. /\ v.kind = "mutate" => apply_one(v, m).arguments = v.arguments
                /\ v.kind # "mutate" => apply_one(v, m).arguments = m.arguments
            BY <5>2, ApplyWrites
          <5> QED BY <5>1, <5>2, <5>3
      <4> QED BY <3>1, <4>1, <4>2
    <3>3. CASE i \notin Looked(hs, request)
      BY <1>4, <3>1, <3>3
    <3> QED BY <3>2, <3>3
  <2>3. value[Len(hs)] = Stages(hs, request)[Len(hs)].arguments /\ value[0] = request.arguments
    BY <1>0, <1>1, <1>2
  <2>4. \A i \in S : written[i] = VerdictAt(hs, request, i).arguments
    BY <2>1
  <2> HIDE DEF value, written, S
  <2>5. /\ S = {} => value[Len(hs)] = value[0]
        /\ S # {} => LastOf(S) \in S /\ value[Len(hs)] = written[LastOf(S)]
    <3>1. Writes(S, Len(hs), value, written)
      BY <2>1, <2>2 DEF Writes
    <3> QED BY <1>0, <3>1, LastWriter
  <2>6. Stages(hs, request)[Len(hs)].arguments = IF S = {} THEN request.arguments
                          ELSE VerdictAt(hs, request, LastOf(S)).arguments
    BY <2>3, <2>4, <2>5
  <2> QED BY <2>6 DEF S, Rewriters, Written
<1>6. ASSUME NEW k \in Keys
      PROVE  Stages(hs, request)[Len(hs)].meta[k] =
               IF Noters(hs, request, k) = {} THEN request.meta[k]
              ELSE Written(Noters(hs, request, k), hs, request).provenance[k]
  <2> DEFINE S == {i \in Looked(hs, request) : VerdictAt(hs, request, i).kind = "annotate"
                                  /\ VerdictAt(hs, request, i).provenance[k] # None}
             value == [i \in 0..Len(hs) |-> stages[i].meta[k]]
             written == [i \in 1..Len(hs) |-> VerdictAt(hs, request, i).provenance[k]]
  <2>1. S \subseteq 1..Len(hs)
    BY <1>0 DEF Looked
  <2>2. ASSUME NEW i \in 1..Len(hs)
        PROVE  (i \in S => value[i] = written[i]) /\ (i \notin S => value[i] = value[i - 1])
    <3>1. value[i] = stages[i].meta[k] /\ value[i - 1] = stages[i - 1].meta[k]
          /\ written[i] = VerdictAt(hs, request, i).provenance[k]
      BY <1>4
    <3>2. CASE i \in Looked(hs, request)
      <4>1. i \in S <=> VerdictAt(hs, request, i).kind = "annotate" /\ VerdictAt(hs, request, i).provenance[k] # None
        BY <3>2
      <4>2. /\ VerdictAt(hs, request, i).kind = "annotate" /\ VerdictAt(hs, request, i).provenance[k] # None =>
                 stages[i].meta[k] = VerdictAt(hs, request, i).provenance[k]
            /\ ~(VerdictAt(hs, request, i).kind = "annotate" /\ VerdictAt(hs, request, i).provenance[k] # None) =>
                 stages[i].meta[k] = stages[i - 1].meta[k]
          <5>1. PICK m, v : m = stages[i - 1] /\ v = VerdictAt(hs, request, i)
            OBVIOUS
          <5>2. Kept(m, request) /\ stages[i] = apply_one(v, m)
            BY <1>4, <3>2, <5>1
          <5>3. /\ v.kind = "annotate" /\ v.provenance[k] # None =>
                     apply_one(v, m).meta[k] = v.provenance[k]
                /\ ~(v.kind = "annotate" /\ v.provenance[k] # None) =>
                     apply_one(v, m).meta[k] = m.meta[k]
            BY <5>2, ApplyWrites
          <5> QED BY <5>1, <5>2, <5>3
      <4> QED BY <3>1, <4>1, <4>2
    <3>3. CASE i \notin Looked(hs, request)
      BY <1>4, <3>1, <3>3
    <3> QED BY <3>2, <3>3
  <2>3. value[Len(hs)] = Stages(hs, request)[Len(hs)].meta[k] /\ value[0] = request.meta[k]
    BY <1>0, <1>1, <1>2
  <2>4. \A i \in S : written[i] = VerdictAt(hs, request, i).provenance[k]
    BY <2>1
  <2> HIDE DEF value, written, S
  <2>5. /\ S = {} => value[Len(hs)] = value[0]
        /\ S # {} => LastOf(S) \in S /\ value[Len(hs)] = written[LastOf(S)]
    <3>1. Writes(S, Len(hs), value, written)
      BY <2>1, <2>2 DEF Writes
    <3> QED BY <1>0, <3>1, LastWriter
  <2>6. Stages(hs, request)[Len(hs)].meta[k] = IF S = {} THEN request.meta[k]
                        ELSE VerdictAt(hs, request, LastOf(S)).provenance[k]
    BY <2>3, <2>4, <2>5
  <2> QED BY <2>6 DEF S, Noters, Written
<1> QED BY <1>5, <1>6

-------------------------------------------------------------------------------
\* The chain of hashes.

\* What went into the chain before an entry.
Before(l, i) == IF i = 1 THEN Genesis ELSE l[i - 1].hash

EntryShape(e) ==
  /\ e = [record |-> e.record, prev |-> e.prev, signature |-> e.signature, hash |-> e.hash,
          call |-> e.call]
  /\ e.record = [type |-> e.record.type, name |-> e.record.name, ok |-> e.record.ok]

Linked(l, i) ==
  /\ EntryShape(l[i])
  /\ l[i].signature = sign(Secret, l[i].record)
  /\ l[i].prev = Before(l, i) /\ l[i].hash = chain(l[i].prev, l[i].record)
  /\ IsSeq(l[i].prev) /\ Len(l[i].prev) = i - 1

Chained(l) == IsSeq(l) /\ \A i \in DOMAIN l : Linked(l, i)

LEMMA HeadIs ==
  ASSUME NEW l, IsSeq(l), NEW i \in 1..(Len(l) + 1)
  PROVE  Head_(SubSeq(l, 1, i - 1)) = Before(l, i)
<1>1. PICK S : l \in Seq(S)
  BY DEF IsSeq
<1>2. \A j \in 1..(i - 1) : l[j] \in S
  BY <1>1
<1>3. 1 \in Int /\ i - 1 \in Int /\ Len(l) \in Nat
  BY <1>1
<1>4. /\ SubSeq(l, 1, i - 1) \in Seq(S)
      /\ Len(SubSeq(l, 1, i - 1)) = IF 1 <= i - 1 THEN (i - 1) - 1 + 1 ELSE 0
      /\ \A j \in 1..((i - 1) - 1 + 1) : SubSeq(l, 1, i - 1)[j] = l[1 + j - 1]
  BY <1>2, <1>3, SubSeqProperties
<1> DEFINE h == SubSeq(l, 1, i - 1)
<1>5. h \in Seq(S) /\ Len(h) = i - 1 /\ \A j \in 1..(i - 1) : h[j] = l[j]
  BY <1>3, <1>4
<1> HIDE DEF h
<1>6. CASE i = 1
  <2>1. h = <<>>
    BY <1>5, <1>6
  <2> QED BY <1>6, <2>1 DEF Head_, Before, h
<1>7. CASE i # 1
  <2>1. h # <<>> /\ h[Len(h)] = l[i - 1]
    BY <1>3, <1>5, <1>7
  <2> QED BY <1>7, <2>1 DEF Head_, Before, h
<1> QED BY <1>6, <1>7

LEMMA ChainedVerifies ==
  ASSUME NEW l, Chained(l)
  PROVE  verify(l)
<1> SUFFICES ASSUME NEW i \in DOMAIN l
             PROVE  /\ l[i].signature = sign(Secret, l[i].record)
                    /\ l[i].prev = Head_(SubSeq(l, 1, i - 1))
                    /\ l[i].hash = chain(Head_(SubSeq(l, 1, i - 1)), l[i].record)
  BY DEF verify
<1>1. Head_(SubSeq(l, 1, i - 1)) = Before(l, i)
  BY SeqIs, HeadIs DEF Chained
<1> QED BY <1>1 DEF Chained, Linked

\* An entry whose place the number of the entries before it does not fit.
LEMMA MisplacedFails ==
  ASSUME NEW l, IsSeq(l), NEW i \in DOMAIN l, l[i].prev # Before(l, i)
  PROVE  ~verify(l)
<1>1. Head_(SubSeq(l, 1, i - 1)) = Before(l, i)
  BY SeqIs, HeadIs
<1> QED BY <1>1 DEF verify

\* The chain before an entry is as long as the entries before it.
LEMMA BeforeIs ==
  ASSUME NEW l, Chained(l), NEW i \in DOMAIN l
  PROVE  Len(Before(l, i)) = i - 1 /\ Len(l[i].hash) = i
<1>1. Linked(l, i) /\ i \in Nat \ {0}
  BY SeqIs DEF Chained
<1>2. Len(Before(l, i)) = i - 1
  BY <1>1 DEF Linked
<1>3. Extended(l[i].prev, l[i].record, l[i].hash)
  BY <1>1 DEF Linked, chain, Extended
<1>4. Len(l[i].hash) = Len(l[i].prev) + 1
  BY <1>1, <1>3, AppendIs DEF Linked
<1> QED BY <1>1, <1>2, <1>4 DEF Linked

LEMMA RemovalShows ==
  ASSUME Chained(log), NEW i \in 1..(Len(log) - 1)
  PROVE  ~verify(Without(i))
<1> DEFINE n == Len(log)
           front == SubSeq(log, 1, i - 1)
           rest == SubSeq(log, i + 1, n)
           w == Without(i)
<1>1. PICK S : log \in Seq(S)
  BY DEF Chained, IsSeq
<1>2. n \in Nat /\ DOMAIN log = 1..n /\ 1 \in Int /\ i - 1 \in Int /\ i + 1 \in Int /\ n \in Int
  BY <1>1
<1>3. /\ front \in Seq(S) /\ Len(front) = i - 1
      /\ \A j \in 1..(i - 1) : front[j] = log[j]
  <2>1. \A j \in 1..(i - 1) : log[j] \in S
    BY <1>1
  <2>2. /\ front \in Seq(S) /\ Len(front) = IF 1 <= i - 1 THEN (i - 1) - 1 + 1 ELSE 0
        /\ \A j \in 1..((i - 1) - 1 + 1) : front[j] = log[1 + j - 1]
    BY <1>2, <2>1, SubSeqProperties
  <2> HIDE DEF front
  <2> QED BY <1>2, <2>2
<1>4. rest \in Seq(S) /\ Len(rest) \in Nat \ {0} /\ rest[1] = log[i + 1]
  <2>1. \A j \in (i + 1)..n : log[j] \in S
    BY <1>1
  <2>2. /\ rest \in Seq(S) /\ Len(rest) = IF i + 1 <= n THEN n - (i + 1) + 1 ELSE 0
        /\ \A j \in 1..(n - (i + 1) + 1) : rest[j] = log[(i + 1) + j - 1]
    BY <1>2, <2>1, SubSeqProperties
  <2> HIDE DEF rest
  <2>3. i \in Int /\ i + 1 <= n /\ n - (i + 1) + 1 \in Nat \ {0} /\ (i + 1) + 1 - 1 = i + 1
    <3>1. PICK k : k = n
      OBVIOUS
    <3>2. k \in Nat /\ i \in 1..(k - 1)
      BY <1>2, <3>1
    <3> QED BY <3>1, <3>2
  <2>4. 1 \in 1..(n - (i + 1) + 1)
    BY <2>3
  <2>5. rest[1] = log[(i + 1) + 1 - 1]
    BY <2>2, <2>4
  <2>6. Len(rest) \in Nat \ {0}
    BY <2>2, <2>3
  <2> QED BY <2>2, <2>3, <2>5, <2>6
<1>5. w = front \o rest
  BY DEF Without
<1> HIDE DEF front, rest, w
<1>6. /\ w \in Seq(S) /\ Len(w) = Len(front) + Len(rest)
      /\ \A j \in 1..Len(w) : w[j] = IF j <= Len(front) THEN front[j] ELSE rest[j - Len(front)]
  <2>1. front \in Seq(S) /\ rest \in Seq(S)
    BY <1>3, <1>4
  <2> QED BY <1>5, <2>1, ConcatProperties
<1>7. i \in DOMAIN w /\ w[i] = log[i + 1] /\ \A j \in 1..(i - 1) : w[j] = log[j]
  <2>1. i \in Nat \ {0} /\ i \in 1..Len(w) /\ ~(i <= Len(front)) /\ i - Len(front) = 1
    BY <1>2, <1>3, <1>4, <1>6
  <2>2. w[i] = log[i + 1]
    BY <1>4, <1>6, <2>1
  <2>3. ASSUME NEW j \in 1..(i - 1)
        PROVE  w[j] = log[j]
    <3>1. j \in 1..Len(w) /\ j <= Len(front)
      BY <1>2, <1>3, <1>4, <1>6
    <3> QED BY <1>3, <1>6, <3>1
  <2> QED BY <1>6, <2>1, <2>2, <2>3
<1>8. Before(w, i) = Before(log, i)
  BY <1>2, <1>7 DEF Before
<1>9. i + 1 \in DOMAIN log /\ i \in DOMAIN log
  BY <1>2
<1>10. log[i + 1].prev = log[i].hash
  BY <1>2, <1>9 DEF Chained, Linked, Before
<1>11. w[i].prev # Before(w, i)
  BY <1>2, <1>7, <1>8, <1>9, <1>10, BeforeIs
<1>12. IsSeq(w)
  BY <1>6 DEF IsSeq
<1>13. ~verify(w)
  BY <1>7, <1>11, <1>12, MisplacedFails
<1> QED BY <1>13 DEF w

LEMMA SwapShows ==
  ASSUME Chained(log), NEW i \in 1..(Len(log) - 1)
  PROVE  ~verify(Swapped(i))
<1> DEFINE n == Len(log)
           w == Swapped(i)
<1>1. PICK S : log \in Seq(S)
  BY DEF Chained, IsSeq
<1>2. n \in Nat /\ DOMAIN log = 1..n
  BY <1>1
<1>3. log[i] \in S /\ log[i + 1] \in S
  BY <1>1, <1>2
<1>4. /\ w \in Seq(S) /\ DOMAIN w = 1..n /\ w[i] = log[i + 1]
      /\ \A j \in 1..(i - 1) : w[j] = log[j]
  BY <1>1, <1>2, <1>3 DEF Swapped
<1> HIDE DEF w
<1>5. Before(w, i) = Before(log, i)
  BY <1>2, <1>4 DEF Before
<1>6. i + 1 \in DOMAIN log /\ i \in DOMAIN log /\ i \in DOMAIN w
  BY <1>2, <1>4
<1>7. log[i + 1].prev = log[i].hash
  BY <1>2, <1>6 DEF Chained, Linked, Before
<1>8. w[i].prev # Before(w, i)
  BY <1>2, <1>4, <1>5, <1>6, <1>7, BeforeIs
<1>9. IsSeq(w)
  BY <1>4 DEF IsSeq
<1>10. ~verify(w)
  BY <1>6, <1>8, <1>9, MisplacedFails
<1> QED BY <1>10 DEF w

LEMMA RewriteShows ==
  ASSUME Chained(log), NEW i \in DOMAIN log, NEW other, NEW name,
         other = [log[i].record EXCEPT !.name = name]
  PROVE  /\ name # log[i].record.name => ~verify([log EXCEPT ![i].record = other])
         /\ ~verify([log EXCEPT ![i].record = other, ![i].signature = sign(Forged, other),
                                ![i].hash = chain(log[i].prev, other)])
<1>1. EntryShape(log[i]) /\ log[i].signature = sign(Secret, log[i].record)
  BY DEF Chained, Linked
<1>2. name # log[i].record.name => other # log[i].record
  BY <1>1 DEF EntryShape
<1>3. \A e : sign(Secret, e) # sign(Forged, other)
  BY AccountabilityAssumption DEF sign
<1>4. name # log[i].record.name => sign(Secret, log[i].record) # sign(Secret, other)
  BY <1>2 DEF sign
<1>5. ASSUME NEW w, DOMAIN w = DOMAIN log, w[i].signature # sign(Secret, w[i].record)
      PROVE  ~verify(w)
  BY <1>5 DEF verify
<1> DEFINE e1 == [log[i] EXCEPT !.record = other]
           e2 == [[[log[i] EXCEPT !.record = other] EXCEPT !.signature = sign(Forged, other)]
                    EXCEPT !.hash = chain(log[i].prev, other)]
<1>6. e1.signature = log[i].signature /\ e1.record = other
  BY <1>1 DEF EntryShape
<1>7. e2.signature = sign(Forged, other) /\ e2.record = other
  BY <1>1 DEF EntryShape
<1>8. [log EXCEPT ![i].record = other] = [log EXCEPT ![i] = e1]
  OBVIOUS
<1>9. [log EXCEPT ![i].record = other, ![i].signature = sign(Forged, other),
                  ![i].hash = chain(log[i].prev, other)] = [log EXCEPT ![i] = e2]
  OBVIOUS
<1> HIDE DEF e1, e2
<1>10. ASSUME name # log[i].record.name
       PROVE  ~verify([log EXCEPT ![i] = e1])
  <2>1. PICK w : w = [log EXCEPT ![i] = e1]
    OBVIOUS
  <2>2. DOMAIN w = DOMAIN log /\ w[i] = e1
    BY <2>1
  <2> QED BY <1>1, <1>4, <1>5, <1>6, <1>10, <2>1, <2>2
<1>11. ~verify([log EXCEPT ![i] = e2])
  <2>1. PICK w : w = [log EXCEPT ![i] = e2]
    OBVIOUS
  <2>2. DOMAIN w = DOMAIN log /\ w[i] = e2
    BY <2>1
  <2> QED BY <1>3, <1>5, <1>7, <2>1, <2>2
<1> QED BY <1>8, <1>9, <1>10, <1>11

LEMMA ChainedIsEvident == Chained(log) => TamperEvident
<1> SUFFICES ASSUME Chained(log) PROVE TamperEvident
  OBVIOUS
<1>1. verify(log) /\ \A i \in 1..(Len(log) - 1) : ~verify(Without(i)) /\ ~verify(Swapped(i))
  BY ChainedVerifies, RemovalShows, SwapShows
<1>2. \A i \in DOMAIN log : \A request \in Requests :
        LET other == [log[i].record EXCEPT !.name = request.tool]
        IN  /\ request.tool # log[i].record.name => ~verify([log EXCEPT ![i].record = other])
            /\ ~verify([log EXCEPT ![i].record = other, ![i].signature = sign(Forged, other),
                                   ![i].hash = chain(log[i].prev, other)])
  BY RewriteShows
<1> QED BY <1>1, <1>2 DEF TamperEvident

\* One entry more.
LEMMA AppendChains ==
  ASSUME NEW l, Chained(l), NEW record, NEW call, NEW m, m = Appended(l, record, call),
         record = [type |-> record.type, name |-> record.name, ok |-> record.ok]
  PROVE  Chained(m)
<1> DEFINE e == Entry(Head_(l), record, call)
<1>1. Extended(l, e, m)
  BY DEF Appended, Extended
<1>2. /\ e = [record |-> e.record, prev |-> e.prev, signature |-> e.signature, hash |-> e.hash,
              call |-> e.call]
      /\ e.record = record /\ e.prev = Head_(l) /\ e.signature = sign(Secret, record)
      /\ e.hash = chain(Head_(l), record)
  BY DEF Entry
<1> HIDE DEF e
<1>3. /\ IsSeq(l) /\ IsSeq(m) /\ Len(m) = Len(l) + 1 /\ Len(l) \in Nat
      /\ \A i \in DOMAIN l : i \in DOMAIN m /\ m[i] = l[i] /\ i < Len(m) /\ i \in Nat \ {0}
      /\ \A i \in DOMAIN m : i \in DOMAIN l \/ i = Len(m)
      /\ m[Len(m)] = e /\ DOMAIN l = 1..Len(l) /\ (l = <<>> <=> Len(l) = 0)
  BY <1>1, AppendIs, SeqIs DEF Chained
<1>4. ASSUME NEW i \in DOMAIN l
      PROVE  Linked(m, i)
  <2>1. Before(m, i) = Before(l, i)
    <3>1. CASE i = 1
      BY <3>1 DEF Before
    <3>2. CASE i # 1
      <4>1. i - 1 \in DOMAIN l
        BY <1>3, <3>2
      <4> QED BY <1>3, <3>2, <4>1 DEF Before
    <3> QED BY <3>1, <3>2
  <2> QED BY <1>3, <2>1 DEF Chained, Linked
<1>5. Linked(m, Len(m))
  <2>1. CASE l = <<>>
    <3>1. e.prev = <<>> /\ Len(m) = 1
      BY <1>2, <1>3, <2>1 DEF Head_, Genesis
    <3>2. Before(m, Len(m)) = <<>> /\ Len(<<>>) = Len(m) - 1 /\ IsSeq(<<>>)
      BY <3>1, EmptyIs DEF Before, Genesis
    <3> QED BY <1>2, <1>3, <3>1, <3>2 DEF Linked, EntryShape
  <2>2. CASE l # <<>>
    <3> DEFINE k == Len(l)
    <3>1. k \in DOMAIN l /\ k # 0 /\ m[k] = l[k]
      BY <1>3, <2>2
    <3>2. e.prev = l[k].hash
      BY <1>2, <2>2 DEF Head_
    <3>3. Before(m, Len(m)) = l[k].hash
      BY <1>3, <3>1 DEF Before
    <3>4. Linked(l, k)
      BY <3>1 DEF Chained
    <3>5. Extended(l[k].prev, l[k].record, l[k].hash)
      BY <3>4 DEF Linked, chain, Extended
    <3>6. IsSeq(l[k].hash)
      BY <3>4, <3>5, AppendIs DEF Linked
    <3>7. Len(l[k].hash) = Len(m) - 1
      BY <1>3, <3>1, BeforeIs
    <3> QED BY <1>2, <1>3, <3>2, <3>3, <3>6, <3>7 DEF Linked, EntryShape
  <2> QED BY <2>1, <2>2
<1> QED BY <1>3, <1>4, <1>5 DEF Chained

-------------------------------------------------------------------------------
\* The log through the calls.

LEMMA OutcomeAppended ==
  ASSUME Chained(log), NEW name, NEW ok, NEW call, record_audit(outcome_record(name, ok), call)
  PROVE  Chained(log')
BY AppendChains DEF record_audit, outcome_record

LEMMA AttestationAppended ==
  ASSUME Chained(log), NEW name, NEW call, record_audit(attestation_record(name), call)
  PROVE  Chained(log')
BY AppendChains DEF record_audit, attestation_record

LogInv == Chained(log)

LEMMA LogNext ==
  ASSUME LogInv, [AuditNext]_auditVars
  PROVE  LogInv'
<1>1. CASE UNCHANGED auditVars
  BY <1>1 DEF auditVars, LogInv
<1>2. ASSUME NEW c \in Conns, NEW request \in Requests,
             route_call(c, request) \/ Pooled(c, request)
      PROVE  LogInv'
  <2>1. CASE Blocked(c, request)
    BY <2>1, OutcomeAppended DEF LogInv, Blocked
  <2>2. CASE Dispatched(c, request)
    BY <2>2, AttestationAppended DEF LogInv, Dispatched
  <2>3. CASE log' = log
    BY <2>3 DEF LogInv
  <2> QED BY <1>2, <2>1, <2>2, <2>3 DEF route_call, Pooled, AnsweredHere
<1>3. ASSUME NEW c \in Conns, NEW ok \in BOOLEAN, Answered(c, ok)
      PROVE  LogInv'
  BY <1>3, OutcomeAppended DEF LogInv, Answered
<1>4. ASSUME NEW c \in Conns, Failed(c)
      PROVE  LogInv'
  BY <1>4, OutcomeAppended DEF LogInv, Failed
<1> QED BY <1>1, <1>2, <1>3, <1>4 DEF AuditNext

\* The log verifies whatever the order of the connections' appends, and a removal, a swap,
\* a rewrite and a forgery show (AuditLog::record and verify).
THEOREM TamperingShows == AuditSpec => []TamperEvident
<1>1. AuditInit => LogInv
  BY EmptyIs DEF AuditInit, LogInv, Chained
<1>2. LogInv => TamperEvident
  BY ChainedIsEvident DEF LogInv
<1> QED BY <1>1, <1>2, LogNext, PTL DEF AuditSpec

-------------------------------------------------------------------------------
\* Attestations and outcomes.

Noted(l, type, n) == {i \in DOMAIN l : l[i].call = n /\ l[i].record.type = type}
One(S) == \E a : S = {a}

Sent == {"awaiting", "answered", "lost"}
Told == {"blocked", "answered"}

\* What the log has of a call with this fate.
Paired(l, n, fate) ==
  /\ fate \in Sent => One(Noted(l, "attestation", n))
  /\ fate \notin Sent => Noted(l, "attestation", n) = {}
  /\ fate \in Told => One(Noted(l, "outcome", n))
  /\ fate \notin Told => Noted(l, "outcome", n) = {}
  /\ \A a \in Noted(l, "attestation", n), o \in Noted(l, "outcome", n) :
       a < o /\ l[a].record.name = l[o].record.name

Serves(c) ==
  /\ mine[c] \in DOMAIN calls /\ calls[mine[c]].fate = "awaiting"
  /\ \A a \in Noted(log, "attestation", mine[c]) : log[a].record.name = routed[c].tool

PairInv ==
  /\ IsSeq(log) /\ IsSeq(calls)
  /\ pc = [c \in Conns |-> pc[c]] /\ routed = [c \in Conns |-> routed[c]]
  /\ mine = [c \in Conns |-> mine[c]]
  /\ \A i \in DOMAIN log : log[i].call \in DOMAIN calls
  /\ \A n \in DOMAIN calls :
       /\ calls[n] = Call(calls[n].request, calls[n].fate)
       /\ Paired(log, n, calls[n].fate) /\ (calls[n].fate = "lost" => ~resilient)
  /\ \A c \in Conns : pc[c] = "awaiting" => Serves(c)
  /\ \A c, d \in Conns : pc[c] = "awaiting" /\ pc[d] = "awaiting" /\ mine[c] = mine[d] => c = d

LEMMA PairSuffices == PairInv => RoutedCallsPaired
<1> SUFFICES ASSUME PairInv, NEW n \in DOMAIN calls, NEW fate, fate = calls[n].fate
             PROVE  /\ Cardinality(Records("attestation", n)) = IF fate \in Sent THEN 1 ELSE 0
                    /\ Cardinality(Records("outcome", n)) = IF fate \in Told THEN 1 ELSE 0
                    /\ \A a \in Records("attestation", n), o \in Records("outcome", n) :
                         a < o /\ log[a].record.name = log[o].record.name
                    /\ fate = "lost" => ~resilient
  BY DEF RoutedCallsPaired, Sent, Told
<1>1. \A type : Records(type, n) = Noted(log, type, n)
  BY DEF Records, Noted
<1>2. Paired(log, n, fate) /\ (fate = "lost" => ~resilient)
  BY DEF PairInv
<1>3. /\ \A a : Cardinality({a}) = 1
      /\ Cardinality({}) = 0
  BY FS_Singleton, FS_EmptySet
<1> QED BY <1>1, <1>2, <1>3 DEF Paired, One

LEMMA PairInit == AuditInit => PairInv
  BY EmptyIs DEF AuditInit, PairInv

Recorded(l, record, call, m) == m = Appended(l, record, call)

Grown(l, record, call, m) ==
  /\ IsSeq(m) /\ Len(m) \in DOMAIN m /\ m[Len(m)].call = call /\ m[Len(m)].record = record
  /\ \A i \in DOMAIN l : i \in DOMAIN m /\ m[i] = l[i] /\ i < Len(m)
  /\ \A i \in DOMAIN m : i \in DOMAIN l \/ i = Len(m)
  /\ \A type, n : type # record.type \/ n # call => Noted(m, type, n) = Noted(l, type, n)
  /\ Noted(m, record.type, call) = Noted(l, record.type, call) \cup {Len(m)}

LEMMA NotedMore ==
  ASSUME NEW l, IsSeq(l), NEW record, NEW call, NEW m, Recorded(l, record, call, m)
  PROVE  Grown(l, record, call, m)
<1> DEFINE e == Entry(Head_(l), record, call)
<1>1. Extended(l, e, m)
  BY DEF Recorded, Appended, Extended
<1>2. e.call = call /\ e.record = record
  BY DEF Entry
<1> HIDE DEF e
<1>3. /\ IsSeq(m) /\ Len(m) \in DOMAIN m /\ m[Len(m)] = e /\ Len(m) \notin DOMAIN l
      /\ \A i \in DOMAIN l : i \in DOMAIN m /\ m[i] = l[i] /\ i < Len(m)
      /\ \A i \in DOMAIN m : i \in DOMAIN l \/ i = Len(m)
  BY <1>1, AppendIs
<1>4. ASSUME NEW type, NEW n, type # record.type \/ n # call
      PROVE  Noted(m, type, n) = Noted(l, type, n)
  BY <1>2, <1>3, <1>4 DEF Noted
<1>5. Noted(m, record.type, call) = Noted(l, record.type, call) \cup {Len(m)}
  BY <1>2, <1>3 DEF Noted
<1> QED BY <1>2, <1>3, <1>4, <1>5 DEF Grown

\* A call that is new, with or without a record of it.
LEMMA NewCallPairs ==
  ASSUME PairInv, NEW request, NEW fate, NewCall(request, fate),
         resilient' = resilient, fate # "lost",
         \/ log' = log /\ fate = "answered here"
         \/ \E name, ok : record_audit(outcome_record(name, ok), This) /\ fate = "blocked"
         \/ \E name : record_audit(attestation_record(name), This) /\ fate = "awaiting"
  PROVE  /\ IsSeq(log') /\ IsSeq(calls')
         /\ \A i \in DOMAIN log' : log'[i].call \in DOMAIN calls'
         /\ \A n \in DOMAIN calls' :
              /\ calls'[n] = Call(calls'[n].request, calls'[n].fate)
              /\ Paired(log', n, calls'[n].fate) /\ (calls'[n].fate = "lost" => ~resilient')
         /\ This \in DOMAIN calls' /\ This \notin DOMAIN calls /\ calls'[This].fate = fate
         /\ \A n \in DOMAIN calls :
              /\ n \in DOMAIN calls' /\ calls'[n] = calls[n]
              /\ \A a \in Noted(log', "attestation", n) :
                   a \in Noted(log, "attestation", n) /\ log'[a] = log[a]
<1>1. /\ IsSeq(calls') /\ This \in DOMAIN calls' /\ This \notin DOMAIN calls
      /\ calls'[This] = Call(request, fate)
      /\ \A n \in DOMAIN calls : n \in DOMAIN calls' /\ calls'[n] = calls[n] /\ n # This
      /\ \A n \in DOMAIN calls' : n \in DOMAIN calls \/ n = This
  <2>1. Extended(calls, Call(request, fate), calls')
    BY DEF NewCall, Extended
  <2>2. IsSeq(calls)
    BY DEF PairInv
  <2>3. /\ IsSeq(calls') /\ Len(calls') = Len(calls) + 1
        /\ \A n \in DOMAIN calls : n \in DOMAIN calls' /\ calls'[n] = calls[n]
        /\ \A n \in DOMAIN calls' : n \in DOMAIN calls \/ n = Len(calls')
        /\ Len(calls') \in DOMAIN calls' /\ calls'[Len(calls')] = Call(request, fate)
        /\ Len(calls') \notin DOMAIN calls
    BY <2>1, <2>2, AppendIs
  <2>4. Len(calls') = This
    BY <2>3 DEF This
  <2> QED BY <2>3, <2>4
<1>2. calls'[This].fate = fate /\ calls'[This] = Call(calls'[This].request, calls'[This].fate)
  <2>1. Call(request, fate).fate = fate /\ Call(request, fate).request = request
    BY DEF Call
  <2> QED BY <1>1, <2>1
<1>3. \A type : Noted(log, type, This) = {}
  BY <1>1 DEF PairInv, Noted
<1> DEFINE Fits(l) ==
             /\ IsSeq(l) /\ (\A i \in DOMAIN log : i \in DOMAIN l /\ l[i] = log[i])
             /\ \A i \in DOMAIN l : l[i].call \in DOMAIN calls'
             /\ Paired(l, This, fate)
             /\ \A n \in DOMAIN calls : \A type : Noted(l, type, n) = Noted(log, type, n)
<1>4. ASSUME NEW l, l = log', Fits(l)
      PROVE  /\ IsSeq(log') /\ \A i \in DOMAIN log' : log'[i].call \in DOMAIN calls'
             /\ \A n \in DOMAIN calls' :
                  Paired(log', n, calls'[n].fate) /\ (calls'[n].fate = "lost" => ~resilient')
             /\ \A n \in DOMAIN calls : \A a \in Noted(log', "attestation", n) :
                  a \in Noted(log, "attestation", n) /\ log'[a] = log[a]
  <2>1. ASSUME NEW n \in DOMAIN calls
        PROVE  /\ Paired(l, n, calls[n].fate)
               /\ \A a \in Noted(l, "attestation", n) :
                    a \in Noted(log, "attestation", n) /\ l[a] = log[a]
    <3>1. Paired(log, n, calls[n].fate)
      BY DEF PairInv
    <3>2. \A type : \A i \in Noted(log, type, n) : i \in DOMAIN log
      BY DEF Noted
    <3>3. \A type : Noted(l, type, n) = Noted(log, type, n)
      BY <1>4
    <3>4. \A type : \A i \in Noted(l, type, n) : i \in Noted(log, type, n) /\ l[i] = log[i]
      BY <1>4, <3>2, <3>3
    <3> QED BY <3>1, <3>3, <3>4 DEF Paired
  <2> QED BY <1>1, <1>2, <1>4, <2>1 DEF PairInv
<1>5. CASE log' = log /\ fate = "answered here"
  <2>1. Paired(log, This, fate)
    BY <1>3, <1>5 DEF Paired, Sent, Told
  <2>2. IsSeq(log) /\ \A i \in DOMAIN log : log[i].call \in DOMAIN calls'
    BY <1>1 DEF PairInv
  <2> QED BY <1>1, <1>2, <1>4, <1>5, <2>1, <2>2 DEF PairInv
<1>6. ASSUME NEW record, NEW l, l = log', record_audit(record, This),
             \/ record.type = "outcome" /\ fate = "blocked"
             \/ record.type = "attestation" /\ fate = "awaiting"
      PROVE  Fits(l)
  <2>1. Recorded(log, record, This, l)
    BY <1>6 DEF record_audit, Recorded
  <2>2. IsSeq(log)
    BY DEF PairInv
  <2>3. Grown(log, record, This, l)
    BY <2>1, <2>2, NotedMore
  <2>4. IsSeq(l) /\ (\A i \in DOMAIN log : i \in DOMAIN l /\ l[i] = log[i])
    BY <2>3 DEF Grown
  <2>5. \A i \in DOMAIN l : l[i].call \in DOMAIN calls'
    BY <1>1, <2>3 DEF PairInv, Grown
  <2>6. Noted(l, record.type, This) = {Len(l)}
    BY <1>3, <2>3 DEF Grown
  <2>7. \A type : type # record.type => Noted(l, type, This) = {}
    BY <1>3, <2>3 DEF Grown
  <2>8. Paired(l, This, fate)
    <3>1. CASE record.type = "outcome" /\ fate = "blocked"
      <4>1. Noted(l, "outcome", This) = {Len(l)} /\ Noted(l, "attestation", This) = {}
        BY <2>6, <2>7, <3>1
      <4> QED BY <3>1, <4>1 DEF Paired, One, Sent, Told
    <3>2. CASE record.type = "attestation" /\ fate = "awaiting"
      <4>1. Noted(l, "attestation", This) = {Len(l)} /\ Noted(l, "outcome", This) = {}
        BY <2>6, <2>7, <3>2
      <4> QED BY <3>2, <4>1 DEF Paired, One, Sent, Told
    <3> QED BY <1>6, <3>1, <3>2
  <2>9. \A n \in DOMAIN calls : \A type : Noted(l, type, n) = Noted(log, type, n)
    BY <1>1, <2>3 DEF Grown
  <2> QED BY <2>4, <2>5, <2>8, <2>9
<1> HIDE DEF Fits
<1>7. CASE \E name, ok : record_audit(outcome_record(name, ok), This) /\ fate = "blocked"
  <2>1. PICK record : record_audit(record, This) /\ record.type = "outcome"
    BY <1>7 DEF outcome_record
  <2>2. PICK l : l = log'
    OBVIOUS
  <2>3. Fits(l)
    BY <1>6, <1>7, <2>1, <2>2
  <2> QED BY <1>1, <1>2, <1>4, <2>2, <2>3 DEF PairInv
<1>8. CASE \E name : record_audit(attestation_record(name), This) /\ fate = "awaiting"
  <2>1. PICK record : record_audit(record, This) /\ record.type = "attestation"
    BY <1>8 DEF attestation_record
  <2>2. PICK l : l = log'
    OBVIOUS
  <2>3. Fits(l)
    BY <1>6, <1>8, <2>1, <2>2
  <2> QED BY <1>1, <1>2, <1>4, <2>2, <2>3 DEF PairInv
<1> QED BY <1>5, <1>7, <1>8

\* The connections that go on waiting are served as before.
LEMMA RoutePairs ==
  ASSUME PairInv, NEW c \in Conns, NEW request,
         Blocked(c, request) \/ AnsweredHere(c, request) \/ Dispatched(c, request),
         pc[c] = "idle" \/ ~Dispatched(c, request), resilient' = resilient
  PROVE  PairInv'
<1> DEFINE Grows(fate) ==
             /\ IsSeq(log') /\ IsSeq(calls')
             /\ \A i \in DOMAIN log' : log'[i].call \in DOMAIN calls'
             /\ \A n \in DOMAIN calls' :
                  /\ calls'[n] = Call(calls'[n].request, calls'[n].fate)
                  /\ Paired(log', n, calls'[n].fate) /\ (calls'[n].fate = "lost" => ~resilient')
             /\ This \in DOMAIN calls' /\ This \notin DOMAIN calls /\ calls'[This].fate = fate
             /\ \A n \in DOMAIN calls :
                  /\ n \in DOMAIN calls' /\ calls'[n] = calls[n]
                  /\ \A a \in Noted(log', "attestation", n) :
                       a \in Noted(log, "attestation", n) /\ log'[a] = log[a]
<1>1. ASSUME NEW d \in Conns, NEW fate, Grows(fate), pc[d] = "awaiting",
             mine'[d] = mine[d], routed'[d] = routed[d]
      PROVE  Serves(d)'
  <2>1. Serves(d)
    BY <1>1 DEF PairInv
  <2> QED BY <1>1, <2>1 DEF Serves
<1>2. CASE Blocked(c, request) \/ AnsweredHere(c, request)
  <2>1. PICK fate \in {"blocked", "answered here"} : NewCall(request, fate)
          /\ \/ log' = log /\ fate = "answered here"
             \/ \E name, ok : record_audit(outcome_record(name, ok), This) /\ fate = "blocked"
    BY <1>2 DEF Blocked, AnsweredHere
  <2>2. Grows(fate)
    BY <2>1, NewCallPairs
  <2>3. UNCHANGED <<pc, routed, mine>>
    BY <1>2 DEF Blocked, AnsweredHere
  <2>4. \A d \in Conns : pc[d] = "awaiting" => Serves(d)'
    BY <1>1, <2>2, <2>3
  <2> QED BY <2>2, <2>3, <2>4 DEF PairInv
<1>3. CASE Dispatched(c, request)
  <2> DEFINE message == Filtered(request).message
  <2>1. /\ NewCall(request, "awaiting") /\ record_audit(attestation_record(message.tool), This)
        /\ routed' = [routed EXCEPT ![c] = message]
        /\ pc' = [pc EXCEPT ![c] = "awaiting"] /\ mine' = [mine EXCEPT ![c] = This]
    BY <1>3 DEF Dispatched
  <2> HIDE DEF message
  <2>2. Grows("awaiting")
    BY <2>1, NewCallPairs
  <2>3. /\ pc'[c] = "awaiting" /\ routed'[c] = message /\ mine'[c] = This
        /\ \A d \in Conns : d # c => pc'[d] = pc[d] /\ routed'[d] = routed[d] /\ mine'[d] = mine[d]
        /\ pc' = [d \in Conns |-> pc'[d]] /\ routed' = [d \in Conns |-> routed'[d]]
        /\ mine' = [d \in Conns |-> mine'[d]]
    BY <2>1 DEF PairInv
  <2>4. Serves(c)'
    <3>1. ASSUME NEW a \in Noted(log', "attestation", This)
          PROVE  log'[a].record.name = message.tool
      <4>1. PICK l : l = log' /\ Recorded(log, attestation_record(message.tool), This, l)
        BY <2>1 DEF record_audit, Recorded
      <4>2. Grown(log, attestation_record(message.tool), This, l)
        BY <4>1, NotedMore DEF PairInv
      <4>3. a \in DOMAIN l /\ l[a].call = This
        BY <3>1, <4>1 DEF Noted
      <4>4. a \notin DOMAIN log
        <5> SUFFICES ASSUME a \in DOMAIN log PROVE FALSE
          OBVIOUS
        <5>1. log[a].call = This /\ log[a].call \in DOMAIN calls
          BY <4>2, <4>3 DEF Grown, PairInv
        <5> QED BY <2>2, <5>1
      <4>5. a = Len(l) /\ l[Len(l)].record = attestation_record(message.tool)
        BY <4>2, <4>3, <4>4 DEF Grown
      <4> QED BY <4>1, <4>5 DEF attestation_record
    <3> QED BY <2>2, <2>3, <3>1 DEF Serves
  <2>5. ASSUME NEW d \in Conns, d # c, pc'[d] = "awaiting"
        PROVE  pc[d] = "awaiting" /\ Serves(d)' /\ mine'[d] # This
    <3>1. pc[d] = "awaiting" /\ mine'[d] = mine[d] /\ routed'[d] = routed[d]
      BY <2>3, <2>5
    <3>2. mine[d] \in DOMAIN calls
      BY <3>1 DEF PairInv, Serves
    <3> QED BY <1>1, <2>2, <3>1, <3>2
  <2>6. \A d \in Conns : pc'[d] = "awaiting" => Serves(d)'
    BY <2>4, <2>5
  <2>7. ASSUME NEW d \in Conns, NEW e \in Conns, pc'[d] = "awaiting", pc'[e] = "awaiting",
               mine'[d] = mine'[e]
        PROVE  d = e
    <3>1. CASE d = c \/ e = c
      BY <2>3, <2>5, <2>7, <3>1
    <3>2. CASE d # c /\ e # c
      BY <2>3, <2>7, <3>2 DEF PairInv
    <3> QED BY <3>1, <3>2
  <2> QED BY <2>2, <2>3, <2>6, <2>7 DEF PairInv
<1> QED BY <1>2, <1>3

\* A call is settled: an outcome is its own, after its attestation and under its name.
LEMMA SettlePairs ==
  ASSUME PairInv, NEW c \in Conns, pc[c] = "awaiting", NEW fate, Settle(c, fate),
         NEW to, to # "awaiting", pc' = [pc EXCEPT ![c] = to],
         \/ fate = "lost" /\ log' = log /\ ~resilient
         \/ fate = "answered" /\ \E ok : record_audit(outcome_record(routed[c].tool, ok), mine[c])
  PROVE  PairInv'
<1> DEFINE k == mine[c]
<1>1. /\ Serves(c) /\ IsSeq(calls) /\ IsSeq(log) /\ k \in DOMAIN calls
      /\ calls[k] = Call(calls[k].request, "awaiting") /\ Paired(log, k, "awaiting")
  BY DEF PairInv, Serves
<1>2. /\ calls' = [calls EXCEPT ![k].fate = fate] /\ resilient' = resilient
      /\ routed' = [routed EXCEPT ![c] = None] /\ mine' = [mine EXCEPT ![c] = 0]
  BY DEF Settle
<1> HIDE DEF k
<1>3. /\ IsSeq(calls') /\ DOMAIN calls' = DOMAIN calls
      /\ calls'[k] = Call(calls[k].request, fate)
      /\ \A n \in DOMAIN calls : n # k => calls'[n] = calls[n]
  <2>1. PICK S : calls \in Seq(S)
    BY <1>1 DEF IsSeq
  <2> DEFINE e == [calls[k] EXCEPT !.fate = fate]
  <2>2. e = Call(calls[k].request, fate)
    BY <1>1 DEF Call
  <2>3. calls' = [calls EXCEPT ![k] = e]
    BY <1>2
  <2> HIDE DEF e
  <2>4. calls \in Seq(S \cup {e})
    BY <2>1
  <2>5. calls' \in Seq(S \cup {e})
    BY <1>1, <2>3, <2>4
  <2>6. DOMAIN calls' = DOMAIN calls /\ calls'[k] = e /\ \A n \in DOMAIN calls : n # k => calls'[n] = calls[n]
    BY <1>1, <2>3
  <2> QED BY <2>2, <2>5, <2>6 DEF IsSeq
<1>4. calls'[k].fate = fate /\ calls'[k] = Call(calls'[k].request, calls'[k].fate)
  BY <1>3 DEF Call
<1>5. /\ pc'[c] # "awaiting"
      /\ \A d \in Conns : d # c => pc'[d] = pc[d] /\ routed'[d] = routed[d] /\ mine'[d] = mine[d]
      /\ pc' = [d \in Conns |-> pc'[d]] /\ routed' = [d \in Conns |-> routed'[d]]
      /\ mine' = [d \in Conns |-> mine'[d]]
  BY <1>2 DEF PairInv
<1>6. ASSUME NEW d \in Conns, d # c, pc[d] = "awaiting"
      PROVE  mine[d] \in DOMAIN calls /\ mine[d] # k
  BY <1>6 DEF PairInv, Serves, k
<1> DEFINE Fits(l) ==
             /\ IsSeq(l) /\ \A i \in DOMAIN l : l[i].call \in DOMAIN calls
             /\ Paired(l, k, fate)
             /\ \A n \in DOMAIN calls : n # k =>
                  \A type : /\ Noted(l, type, n) = Noted(log, type, n)
                            /\ \A i \in Noted(l, type, n) : l[i] = log[i]
<1>7. ASSUME NEW l, l = log', Fits(l), fate = "lost" => ~resilient
      PROVE  PairInv'
  <2>1. ASSUME NEW n \in DOMAIN calls
        PROVE  /\ calls'[n] = Call(calls'[n].request, calls'[n].fate)
               /\ Paired(l, n, calls'[n].fate) /\ (calls'[n].fate = "lost" => ~resilient')
    <3>1. CASE n = k
      BY <1>2, <1>4, <1>7, <3>1
    <3>2. CASE n # k
      <4>1. Paired(log, n, calls[n].fate)
        BY DEF PairInv
      <4>2. Paired(l, n, calls[n].fate)
        BY <1>7, <3>2, <4>1 DEF Paired
      <4> QED BY <1>2, <1>3, <3>2, <4>2 DEF PairInv
    <3> QED BY <3>1, <3>2
  <2>2. ASSUME NEW d \in Conns, pc'[d] = "awaiting"
        PROVE  Serves(d)'
    <3>1. d # c /\ pc[d] = "awaiting" /\ mine'[d] = mine[d] /\ routed'[d] = routed[d]
      BY <1>5, <2>2
    <3>2. Serves(d) /\ mine[d] # k /\ mine[d] \in DOMAIN calls
      BY <1>6, <3>1 DEF PairInv
    <3>3. \A a \in Noted(l, "attestation", mine[d]) : l[a].record.name = routed[d].tool
      BY <1>7, <3>2 DEF Serves
    <3> QED BY <1>3, <1>7, <3>1, <3>2, <3>3 DEF Serves
  <2>3. ASSUME NEW d \in Conns, NEW e \in Conns, pc'[d] = "awaiting", pc'[e] = "awaiting",
               mine'[d] = mine'[e]
        PROVE  d = e
    BY <1>5, <2>3 DEF PairInv
  <2> QED BY <1>3, <1>5, <1>7, <2>1, <2>2, <2>3 DEF PairInv
<1>8. CASE fate = "lost" /\ log' = log /\ ~resilient
  <2>1. Paired(log, k, fate)
    BY <1>1, <1>8 DEF Paired, Sent, Told
  <2> QED BY <1>1, <1>7, <1>8, <2>1 DEF PairInv
<1>9. ASSUME fate = "answered", NEW ok, record_audit(outcome_record(routed[c].tool, ok), k)
      PROVE  PairInv'
  <2> DEFINE record == outcome_record(routed[c].tool, ok)
  <2>1. record.type = "outcome" /\ record.name = routed[c].tool
    BY DEF outcome_record
  <2>2. PICK l : l = log' /\ Recorded(log, record, k, l)
    BY <1>9 DEF record_audit, Recorded
  <2> HIDE DEF record
  <2>3. Grown(log, record, k, l)
    BY <1>1, <2>2, NotedMore
  <2>4. /\ Noted(log, "outcome", k) = {} /\ One(Noted(log, "attestation", k))
        /\ \A a \in Noted(log, "attestation", k) : log[a].record.name = routed[c].tool
    BY <1>1 DEF Paired, Sent, Told, Serves, k
  <2>5. Noted(l, "outcome", k) = {Len(l)} /\ Noted(l, "attestation", k) = Noted(log, "attestation", k)
    BY <2>1, <2>3, <2>4 DEF Grown
  <2>6. \A n : \A type : \A i \in Noted(log, type, n) : i \in DOMAIN log
    BY DEF Noted
  <2>7. \A i \in DOMAIN log : l[i] = log[i] /\ i < Len(l)
    BY <2>3 DEF Grown
  <2>8. Paired(l, k, fate)
    <3>1. \A a \in Noted(l, "attestation", k) : a < Len(l) /\ l[a].record.name = l[Len(l)].record.name
      BY <2>1, <2>3, <2>4, <2>5, <2>6, <2>7 DEF Grown
    <3> QED BY <1>9, <2>4, <2>5, <3>1 DEF Paired, One, Sent, Told
  <2>9. ASSUME NEW n \in DOMAIN calls, n # k, NEW type
        PROVE  /\ Noted(l, type, n) = Noted(log, type, n)
               /\ \A i \in Noted(l, type, n) : l[i] = log[i]
    <3>1. Noted(l, type, n) = Noted(log, type, n)
      BY <2>3, <2>9 DEF Grown
    <3> QED BY <2>6, <2>7, <3>1
  <2>10. IsSeq(l) /\ \A i \in DOMAIN l : l[i].call \in DOMAIN calls
    BY <1>1, <2>3 DEF Grown, PairInv
  <2> QED BY <1>7, <1>9, <2>2, <2>8, <2>9, <2>10
<1> QED BY <1>8, <1>9 DEF k

LEMMA PairNext ==
  ASSUME PairInv, [AuditNext]_auditVars
  PROVE  PairInv'
<1>1. CASE UNCHANGED auditVars
  BY <1>1 DEF auditVars, PairInv, Serves
<1>2. ASSUME NEW c \in Conns, NEW request \in Requests, route_call(c, request)
      PROVE  PairInv'
  BY <1>2, RoutePairs DEF route_call
<1>3. ASSUME NEW c \in Conns, NEW request \in Requests, Pooled(c, request)
      PROVE  PairInv'
  <2>1. CASE Blocked(c, request)
    <3>1. ~Dispatched(c, request)
      BY <2>1 DEF Blocked, Dispatched
    <3> QED BY <1>3, <2>1, <3>1, RoutePairs DEF Pooled
  <2>2. CASE ~Blocked(c, request)
    <3>1. /\ NewCall(request, "answered here") /\ UNCHANGED <<log, pc, routed, mine>>
          /\ resilient' = resilient
      BY <1>3, <2>2 DEF Pooled
    <3>2. /\ IsSeq(log') /\ IsSeq(calls')
          /\ \A i \in DOMAIN log' : log'[i].call \in DOMAIN calls'
          /\ \A n \in DOMAIN calls' :
               /\ calls'[n] = Call(calls'[n].request, calls'[n].fate)
               /\ Paired(log', n, calls'[n].fate) /\ (calls'[n].fate = "lost" => ~resilient')
          /\ \A n \in DOMAIN calls : n \in DOMAIN calls' /\ calls'[n] = calls[n]
      BY <3>1, NewCallPairs
    <3>3. \A d \in Conns : pc[d] = "awaiting" => Serves(d)'
      BY <3>1, <3>2 DEF PairInv, Serves
    <3> QED BY <3>1, <3>2, <3>3 DEF PairInv
  <2> QED BY <2>1, <2>2
<1>4. ASSUME NEW c \in Conns, NEW ok \in BOOLEAN, Answered(c, ok)
      PROVE  PairInv'
  BY <1>4, SettlePairs DEF Answered
<1>5. ASSUME NEW c \in Conns, Failed(c)
      PROVE  PairInv'
  <2>1. CASE resilient
    BY <1>5, <2>1, SettlePairs DEF Failed
  <2>2. CASE ~resilient
    BY <1>5, <2>2, SettlePairs DEF Failed
  <2> QED BY <2>1, <2>2
<1> QED BY <1>1, <1>2, <1>3, <1>4, <1>5 DEF AuditNext

\* A call has one attestation exactly if it was sent to a backend, and one outcome, later and
\* under the same name, exactly if that resolved (route_call; record_audit).
THEOREM CallsArePaired == AuditSpec => []RoutedCallsPaired
BY PairInit, PairNext, PairSuffices, PTL DEF AuditSpec

-------------------------------------------------------------------------------
\* What the backends are sent.

ShapeInv ==
  /\ handlers \in Chains
  /\ \A c \in Conns : pc[c] = "awaiting" =>
       /\ calls[mine[c]].request \in Requests
       /\ Filtered(calls[mine[c]].request).action = "forward"
       /\ routed[c] = Filtered(calls[mine[c]].request).message

LEMMA ShapeSuffices == ShapeInv => ShapedByAll
<1> SUFFICES ASSUME ShapeInv, NEW c \in Conns, pc[c] = "awaiting",
                    NEW request, request = calls[mine[c]].request
             PROVE  /\ routed[c].arguments =
                         IF Rewriters(handlers, request) = {} THEN request.arguments
                         ELSE Written(Rewriters(handlers, request), handlers, request).arguments
                    /\ \A k \in Keys : routed[c].meta[k] =
                         IF Noters(handlers, request, k) = {} THEN request.meta[k]
                         ELSE Written(Noters(handlers, request, k), handlers, request).provenance[k]
                    /\ routed[c] = Stages(handlers, request)[Len(handlers)]
                    /\ \A i \in Looked(handlers, request) : ~Blocking(VerdictAt(handlers, request, i))
  BY DEF ShapedByAll, VerdictAt, LastOf, Looked, Rewriters, Noters, Written
<1>1. IsSeq(handlers)
  BY AccountabilityAssumption DEF ShapeInv, IsSeq
<1>2. request \in Requests /\ run(handlers, request).action = "forward"
      /\ routed[c] = run(handlers, request).message
  BY DEF ShapeInv, Filtered
<1>3. Kept(request, request)
  BY <1>2, RequestsAssumption DEF Kept
<1>4. /\ routed[c] = Stages(handlers, request)[Len(handlers)]
      /\ \A i \in 1..Len(handlers) : Looks(handlers[i], request) =>
           ~Blocking(Evaluate(handlers[i], Stages(handlers, request)[i - 1]))
  BY <1>1, <1>2, RunIsStaged
<1>5. \A i \in Looked(handlers, request) : ~Blocking(VerdictAt(handlers, request, i))
  BY <1>1, <1>4, SeqIs DEF VerdictAt, Looked
<1> QED BY <1>1, <1>3, <1>4, <1>5, StagesWrite

LEMMA ShapeInit == AuditInit => ShapeInv
BY DEF AuditInit, ShapeInv

\* A connection that goes on waiting waits for the same request.
Waits(d) ==
  /\ pc[d] = "awaiting" /\ mine'[d] = mine[d] /\ routed'[d] = routed[d]
  /\ calls'[mine[d]].request = calls[mine[d]].request

LEMMA ShapeKeeps ==
  ASSUME ShapeInv, handlers' = handlers,
         \A d \in Conns : pc'[d] = "awaiting" =>
           \/ Waits(d)
           \/ \E request \in Requests :
                /\ Filtered(request).action = "forward"
                /\ routed'[d] = Filtered(request).message
                /\ calls'[mine'[d]].request = request
  PROVE  ShapeInv'
<1>1. PICK hs : hs = handlers /\ hs = handlers'
  OBVIOUS
<1>2. ASSUME NEW d \in Conns, pc'[d] = "awaiting"
      PROVE  /\ calls'[mine'[d]].request \in Requests
             /\ run(hs, calls'[mine'[d]].request).action = "forward"
             /\ routed'[d] = run(hs, calls'[mine'[d]].request).message
  <2>1. CASE Waits(d)
    BY <1>1, <2>1 DEF ShapeInv, Waits, Filtered
  <2>2. CASE ~Waits(d)
    BY <1>1, <1>2, <2>2 DEF Filtered
  <2> QED BY <2>1, <2>2
<1>3. handlers' \in Chains
  BY DEF ShapeInv
<1> QED BY <1>1, <1>2, <1>3 DEF ShapeInv, Filtered

LEMMA ShapeNext ==
  ASSUME PairInv, ShapeInv, [AuditNext]_auditVars
  PROVE  ShapeInv'
<1>0. /\ IsSeq(calls) /\ pc = [c \in Conns |-> pc[c]] /\ routed = [c \in Conns |-> routed[c]]
      /\ mine = [c \in Conns |-> mine[c]]
      /\ \A n \in DOMAIN calls : calls[n] = Call(calls[n].request, calls[n].fate)
      /\ \A c \in Conns : pc[c] = "awaiting" => mine[c] \in DOMAIN calls
  BY DEF PairInv, Serves
<1>1. ASSUME NEW request, NEW fate, NewCall(request, fate)
      PROVE  /\ calls'[This].request = request
             /\ \A n \in DOMAIN calls : calls'[n].request = calls[n].request
  <2>1. Extended(calls, Call(request, fate), calls')
    BY <1>1 DEF NewCall, Extended
  <2>2. /\ \A n \in DOMAIN calls : calls'[n] = calls[n]
        /\ Len(calls') = Len(calls) + 1 /\ calls'[Len(calls')] = Call(request, fate)
    BY <1>0, <2>1, AppendIs
  <2>3. Call(request, fate).request = request
    BY DEF Call
  <2> QED BY <2>2, <2>3 DEF This
<1>2. ASSUME UNCHANGED auditVars
      PROVE  ShapeInv'
  BY <1>2 DEF auditVars, ShapeInv, Filtered
<1>3. ASSUME NEW c \in Conns, NEW request \in Requests, handlers' = handlers,
             Blocked(c, request) \/ AnsweredHere(c, request) \/ Dispatched(c, request)
      PROVE  ShapeInv'
  <2>1. CASE Blocked(c, request) \/ AnsweredHere(c, request)
    <3>1. (\E fate : NewCall(request, fate)) /\ UNCHANGED <<pc, routed, mine>>
      BY <2>1 DEF Blocked, AnsweredHere
    <3>2. \A d \in Conns : pc'[d] = "awaiting" => Waits(d)
      BY <1>0, <1>1, <3>1 DEF Waits
    <3> QED BY <1>3, <3>2, ShapeKeeps
  <2>2. CASE Dispatched(c, request)
    <3> DEFINE message == Filtered(request).message
    <3>1. /\ NewCall(request, "awaiting") /\ Filtered(request).action = "forward"
          /\ routed' = [routed EXCEPT ![c] = message]
          /\ pc' = [pc EXCEPT ![c] = "awaiting"] /\ mine' = [mine EXCEPT ![c] = This]
      BY <2>2 DEF Dispatched
    <3>2. /\ calls'[This].request = request
          /\ \A n \in DOMAIN calls : calls'[n].request = calls[n].request
      BY <1>1, <3>1
    <3> HIDE DEF message
    <3>3. \A d \in Conns \ {c} : pc'[d] = "awaiting" => Waits(d)
      BY <1>0, <3>1, <3>2 DEF Waits
    <3>4. routed'[c] = message /\ calls'[mine'[c]].request = request
      BY <1>0, <3>1, <3>2
    <3> QED BY <1>3, <3>1, <3>3, <3>4, ShapeKeeps DEF message
  <2> QED BY <1>3, <2>1, <2>2
<1>4. ASSUME NEW c \in Conns, NEW fate, Settle(c, fate), NEW to, to # "awaiting",
             pc' = [pc EXCEPT ![c] = to], pc[c] = "awaiting"
      PROVE  ShapeInv'
  <2>1. /\ calls' = [calls EXCEPT ![mine[c]].fate = fate] /\ mine[c] \in DOMAIN calls
        /\ routed' = [routed EXCEPT ![c] = None] /\ mine' = [mine EXCEPT ![c] = 0]
        /\ handlers' = handlers
    BY <1>0, <1>4 DEF Settle
  <2>2. \A n \in DOMAIN calls : calls'[n].request = calls[n].request
    BY <1>0, <2>1 DEF Call
  <2>3. \A d \in Conns : pc'[d] = "awaiting" => Waits(d)
    BY <1>0, <1>4, <2>1, <2>2 DEF Waits
  <2> QED BY <2>1, <2>3, ShapeKeeps
<1>5. ASSUME NEW c \in Conns, NEW request \in Requests, route_call(c, request)
      PROVE  ShapeInv'
  BY <1>3, <1>5 DEF route_call
<1>6. ASSUME NEW c \in Conns, NEW request \in Requests, Pooled(c, request)
      PROVE  ShapeInv'
  <2>1. CASE Blocked(c, request)
    BY <1>3, <1>6, <2>1 DEF Pooled
  <2>2. CASE ~Blocked(c, request)
    <3>1. NewCall(request, "answered here") /\ UNCHANGED <<pc, routed, mine, handlers>>
      BY <1>6, <2>2 DEF Pooled
    <3>2. \A d \in Conns : pc'[d] = "awaiting" => Waits(d)
      BY <1>0, <1>1, <3>1 DEF Waits
    <3> QED BY <3>1, <3>2, ShapeKeeps
  <2> QED BY <2>1, <2>2
<1>7. ASSUME NEW c \in Conns, NEW ok \in BOOLEAN, Answered(c, ok)
      PROVE  ShapeInv'
  BY <1>4, <1>7 DEF Answered
<1>8. ASSUME NEW c \in Conns, Failed(c)
      PROVE  ShapeInv'
  BY <1>4, <1>8 DEF Failed
<1> QED BY <1>2, <1>5, <1>6, <1>7, <1>8 DEF AuditNext

\* A backend is sent what all the filters that look at a request make of it, the last to
\* write an argument or a note winning, and no request that one of them objects to; so the
\* message that runs through a chain and the one made of its verdicts agree (run and
\* chain_outcome in filters.rs).
THEOREM RequestsAreShaped == AuditSpec => []ShapedByAll
<1>1. PairInv /\ ShapeInv /\ [AuditNext]_auditVars => (PairInv /\ ShapeInv)'
  BY PairNext, ShapeNext
<1> QED BY <1>1, PairInit, ShapeInit, ShapeSuffices, PTL DEF AuditSpec
===============================================================================
