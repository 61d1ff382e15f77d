------------------------------ MODULE ScannerProofs ------------------------------
(***************************************************************************)
(* What holds of Scanner for every set of payloads and messages, every     *)
(* setup and any number of scans.                                          *)
(***************************************************************************)
EXTENDS Scanner, WellFoundedInduction, TLAPS

-------------------------------------------------------------------------------
\* Sequences whatever their elements are.
IsSeq(s) == \E S : s \in Seq(S)

LEMMA SeqFacts ==
  ASSUME NEW s, IsSeq(s)
  PROVE  Len(s) \in Nat /\ DOMAIN s = 1..Len(s) /\ (s = <<>> <=> Len(s) = 0)
<1>1. PICK S : s \in Seq(S)
  BY DEF IsSeq
<1> QED BY <1>1

LEMMA EmptyIsSeq == IsSeq(<<>>)
<1>1. <<>> \in Seq({})
  OBVIOUS
<1> QED BY <1>1 DEF IsSeq

LEMMA AppendFacts ==
  ASSUME NEW s, NEW e, IsSeq(s)
  PROVE  /\ IsSeq(Append(s, e)) /\ Len(Append(s, e)) = Len(s) + 1
         /\ Append(s, e)[Len(s) + 1] = e
         /\ \A i \in 1..Len(s) : Append(s, e)[i] = s[i]
<1>1. PICK S : s \in Seq(S)
  BY DEF IsSeq
<1>2. s \in Seq(S \cup {e}) /\ e \in S \cup {e}
  BY <1>1
<1>3. Append(s, e) \in Seq(S \cup {e})
  BY <1>2
<1> QED BY <1>2, <1>3 DEF IsSeq

LEMMA TailFacts ==
  ASSUME NEW s, IsSeq(s), s # <<>>
  PROVE  /\ IsSeq(Tail(s)) /\ Len(Tail(s)) = Len(s) - 1 /\ Head(s) = s[1]
         /\ Len(s) \in Nat \ {0}
         /\ \A i \in 1..Len(Tail(s)) : Tail(s)[i] = s[i + 1]
<1>1. PICK S : s \in Seq(S)
  BY DEF IsSeq
<1>2. Tail(s) \in Seq(S)
  BY <1>1
<1> QED BY <1>1, <1>2 DEF IsSeq

LEMMA ReplaceFacts ==
  ASSUME NEW s, NEW e, IsSeq(s), s # <<>>
  PROVE  IsSeq([s EXCEPT ![1] = e]) /\ Len([s EXCEPT ![1] = e]) = Len(s)
<1>1. PICK S : s \in Seq(S)
  BY DEF IsSeq
<1>2. [s EXCEPT ![1] = e] \in Seq(S \cup {e}) /\ Len([s EXCEPT ![1] = e]) = Len(s)
  BY <1>1
<1> QED BY <1>2 DEF IsSeq

LEMMA ElementIn == ASSUME NEW S, NEW s \in Seq(S), NEW i \in DOMAIN s PROVE s[i] \in S
  OBVIOUS

\* Sequences over a set.
LEMMA SeqOver ==
  ASSUME NEW S, NEW s \in Seq(S), NEW e \in S
  PROVE  /\ Append(s, e) \in Seq(S)
         /\ s # <<>> => /\ Head(s) = s[1] /\ s[1] \in S /\ Tail(s) \in Seq(S)
                       /\ [s EXCEPT ![1] = e] \in Seq(S)
  OBVIOUS

-------------------------------------------------------------------------------
\* The blocks of a message.

Arrays == {"content", "contents"}
BlockSet == [path: [array: Arrays, index: Nat], payload: Payloads \cup {None}, text: BOOLEAN]

\* Induction, with a set in place of a predicate.
LEMMA SetInduction ==
  ASSUME NEW N, 0 \in N, \A n \in Nat : n \in N => n + 1 \in N
  PROVE  Nat \subseteq N
<1> SUFFICES ASSUME Nat \ N # {} PROVE FALSE
  OBVIOUS
<1>1. PICK x \in Nat \ N : \A y \in Nat \ N : ~(<<y, x>> \in OpToRel(<, Nat))
  BY WFMin, NatLessThanWellFounded
<1>2. x # 0 /\ x - 1 \in Nat /\ x - 1 < x
  OBVIOUS
<1>3. <<x - 1, x>> \in OpToRel(<, Nat)
  BY <1>2, Zenon DEF OpToRel
<1>4. x - 1 \in N
  BY <1>1, <1>2, <1>3
<1>5. (x - 1) + 1 \in N
  BY <1>2, <1>4
<1> QED BY <1>2, <1>5

\* The list after n items of contents, over a list of the items of content.
Described(content, items, n, f) ==
  f = [k \in 0..n |->
        IF k = 0 THEN content
        ELSE IF HasPayloadField(items[k])
        THEN Append(f[k - 1], Descriptor("contents", k, items[k]))
        ELSE f[k - 1]]

LEMMA DescribedExists ==
  ASSUME NEW content, NEW items, NEW n \in Nat
  PROVE  \E f : Described(content, items, n, f)
<1> DEFINE N == {k \in Nat : \E f : Described(content, items, k, f)}
           Next1(k, x) == IF HasPayloadField(items[k])
                          THEN Append(x, Descriptor("contents", k, items[k])) ELSE x
<1>1. 0 \in N
  <2> DEFINE f == [k \in 0..0 |-> content]
  <2>1. Described(content, items, 0, f)
    BY DEF Described
  <2> QED BY <2>1
<1>2. ASSUME NEW k \in Nat, k \in N
      PROVE  k + 1 \in N
  <2>1. PICK f : Described(content, items, k, f)
    BY <1>2
  <2> DEFINE last == Next1(k + 1, f[k])
             g == [i \in 0..(k + 1) |-> IF i = k + 1 THEN last ELSE f[i]]
  <2>2. g[k + 1] = last /\ \A i \in 0..k : g[i] = f[i]
    OBVIOUS
  <2>3. ASSUME NEW i \in 0..(k + 1)
        PROVE  g[i] = IF i = 0 THEN content ELSE Next1(i, g[i - 1])
    <3>1. CASE i = k + 1
      <4>1. g[i - 1] = f[k]
        BY <2>2, <3>1
      <4>2. g[i] = last /\ i # 0
        BY <2>2, <3>1
      <4> QED BY <3>1, <4>1, <4>2
    <3>2. CASE i = 0
      BY <2>1, <2>2, <3>2 DEF Described
    <3>3. CASE i \in 1..k
      <4>1. g[i] = f[i] /\ g[i - 1] = f[i - 1] /\ i # 0 /\ i \in 0..k
        BY <2>2, <3>3
      <4>2. f[i] = Next1(i, f[i - 1])
        BY <2>1, <4>1 DEF Described
      <4> QED BY <4>1, <4>2
    <3> QED BY <3>1, <3>2, <3>3
  <2>4. g = [i \in 0..(k + 1) |-> g[i]]
    OBVIOUS
  <2> HIDE DEF g
  <2>5. Described(content, items, k + 1, g)
    BY <2>3, <2>4 DEF Described
  <2> QED BY <2>5
<1> HIDE DEF N
<1>3. n \in N
  BY <1>1, <1>2, SetInduction
<1> QED BY <1>3 DEF N

\* A list of blocks of the items of content and of the first n of contents, each its own.
Inside(path, m, n) == path.index \in DOMAIN m[path.array] /\ (path.array = "contents" => path.index <= n)
Listed(s, m, n) ==
  /\ s \in Seq(BlockSet)
  /\ \A i \in 1..Len(s) : Inside(s[i].path, m, n)
  /\ \A i, j \in 1..Len(s) : s[i].path = s[j].path => i = j

LEMMA DescriptorIn ==
  ASSUME NEW array \in Arrays, NEW n \in Nat, NEW item, Inline(item) \in Payloads \cup {None}
  PROVE  Descriptor(array, n, item) \in BlockSet
<1>1. Path(array, n) \in [array: Arrays, index: Nat]
  BY DEF Path
<1> QED BY <1>1 DEF Descriptor, BlockSet

LEMMA ListedFirst ==
  ASSUME NEW m, NEW list \in Seq(BlockSet),
         \A i \in 1..Len(list) : list[i].path = Path("content", i) /\ i \in DOMAIN m["content"]
  PROVE  Listed(list, m, 0)
<1>1. ASSUME NEW i, NEW path, path = Path("content", i)
      PROVE  path.array = "content" /\ path.index = i
  BY <1>1 DEF Path
<1>2. ASSUME NEW i \in 1..Len(list)
      PROVE  /\ list[i].path.array = "content" /\ list[i].path.index = i
             /\ i \in DOMAIN m["content"]
  BY <1>1
<1>3. \A i \in 1..Len(list) : Inside(list[i].path, m, 0)
  BY <1>2 DEF Inside
<1>4. ASSUME NEW i \in 1..Len(list), NEW j \in 1..Len(list), list[i].path = list[j].path
      PROVE  i = j
  <2>1. list[i].path.index = i /\ list[j].path.index = j
    BY <1>2
  <2> QED BY <1>4, <2>1
<1> QED BY <1>3, <1>4 DEF Listed

LEMMA ListedMore ==
  ASSUME NEW m, NEW n \in Nat, n + 1 \in DOMAIN m["contents"], NEW s, Listed(s, m, n),
         NEW payload \in Payloads \cup {None}, NEW block,
         NEW text \in BOOLEAN,
         block = [path |-> Path("contents", n + 1), payload |-> payload, text |-> text]
  PROVE  Listed(Append(s, block), m, n + 1)
<1>1. block \in BlockSet /\ block.path.array = "contents" /\ block.path.index = n + 1
  BY DEF BlockSet, Arrays, Path
<1>2. s \in Seq(BlockSet)
  BY DEF Listed
<1>3. PICK t : t = Append(s, block)
  OBVIOUS
<1>4. /\ t \in Seq(BlockSet) /\ Len(t) = Len(s) + 1 /\ Len(s) \in Nat /\ t[Len(s) + 1] = block
      /\ \A i \in 1..Len(s) : t[i] = s[i]
  BY <1>1, <1>2, <1>3
<1>5. ASSUME NEW i \in 1..Len(s)
      PROVE  Inside(t[i].path, m, n + 1) /\ t[i].path # block.path
  <2>0. s[i] \in BlockSet
    BY <1>2, <1>4, ElementIn
  <2>1. Inside(s[i].path, m, n) /\ s[i].path.index \in Nat /\ t[i] = s[i]
    BY <1>4, <2>0 DEF Listed, BlockSet
  <2>2. s[i].path.array = "contents" => s[i].path.index < n + 1
    BY <2>1 DEF Inside
  <2> QED BY <1>1, <2>1, <2>2 DEF Inside
<1>6. Inside(block.path, m, n + 1)
  BY <1>1 DEF Inside
<1>7. \A i \in 1..Len(t) : i \in 1..Len(s) \/ i = Len(s) + 1
  BY <1>4
<1>8. \A i \in 1..Len(t) : Inside(t[i].path, m, n + 1)
  BY <1>4, <1>5, <1>6, <1>7
<1>9. ASSUME NEW i \in 1..Len(t), NEW j \in 1..Len(t), t[i].path = t[j].path
      PROVE  i = j
  <2>1. CASE i \in 1..Len(s) /\ j \in 1..Len(s)
    BY <1>4, <1>9, <2>1 DEF Listed
  <2> QED BY <1>4, <1>5, <1>7, <1>9, <2>1
<1> QED BY <1>3, <1>4, <1>8, <1>9 DEF Listed

\* The blocks of a message are blocks, each of one of its items, no two of one
\* (content.rs, blocks).
LEMMA BlocksFacts ==
  ASSUME NEW m \in Messages
  PROVE  /\ blocks(m) \in Seq(BlockSet)
         /\ \A i \in DOMAIN blocks(m) :
              LET path == blocks(m)[i].path
              IN  /\ path.index \in DOMAIN m[path.array]
                  /\ \A j \in DOMAIN blocks(m) : blocks(m)[j].path = path => j = i
<1> DEFINE content == [i \in DOMAIN m.content |-> Descriptor("content", i, m.content[i])]
           items == m.contents
           f == CHOOSE g : Described(content, items, Len(items), g)
<1>1. /\ m = [array \in Arrays |-> m[array]] /\ m.content = m["content"] /\ m.contents = m["contents"]
      /\ \A array \in Arrays :
           /\ m[array] \in Seq({[type |-> m[array][i].type, data |-> m[array][i].data] :
                                 i \in DOMAIN m[array]})
           /\ \A i \in DOMAIN m[array] : Inline(m[array][i]) \in Payloads \cup {None}
  BY MessagesAssumption DEF Arrays
<1>2. ASSUME NEW array \in Arrays
      PROVE  DOMAIN m[array] = 1..Len(m[array]) /\ Len(m[array]) \in Nat
  BY <1>1
<1>3. DOMAIN items = 1..Len(items) /\ Len(items) \in Nat /\ items = m["contents"]
  BY <1>1, <1>2 DEF Arrays
<1>4. DOMAIN m.content = 1..Len(m.content) /\ Len(m.content) \in Nat
  BY <1>1, <1>2 DEF Arrays
<1>5. Described(content, items, Len(items), f)
  BY <1>3, DescribedExists
<1>6. blocks(m) = f[Len(items)]
  BY Zenon DEF blocks, Described
<1>7. Listed(content, m, 0)
  <2> DEFINE Of(i) == Descriptor("content", i, m.content[i])
  <2>1. \A i \in 1..Len(m.content) : Of(i) \in BlockSet
    BY <1>1, <1>4, DescriptorIn DEF Arrays
  <2>2. \A i \in 1..Len(m.content) : Of(i).path = Path("content", i)
    BY DEF Descriptor
  <2>3. content = [i \in 1..Len(m.content) |-> Of(i)]
    BY <1>4
  <2> HIDE DEF Of, content
  <2>4. content \in Seq(BlockSet) /\ Len(content) = Len(m.content)
    BY <1>4, <2>1, <2>3
  <2>5. \A i \in 1..Len(content) : content[i] = Of(i) /\ i \in DOMAIN m.content
    BY <1>4, <2>3, <2>4
  <2>6. \A i \in 1..Len(content) : content[i].path = Path("content", i) /\ i \in DOMAIN m["content"]
    BY <1>1, <2>2, <2>4, <2>5
  <2> QED BY <2>4, <2>6, ListedFirst
<1> DEFINE N == {n \in Nat : n <= Len(items) => Listed(f[n], m, n)}
<1> HIDE DEF f, content, items
<1>8. f[0] = content
  BY <1>3, <1>5 DEF Described
<1>9. ASSUME NEW n \in Nat, n + 1 \in 1..Len(items)
      PROVE  f[n + 1] = IF HasPayloadField(items[n + 1])
                        THEN Append(f[n], Descriptor("contents", n + 1, items[n + 1])) ELSE f[n]
  <2>1. n + 1 \in 0..Len(items) /\ n + 1 # 0 /\ (n + 1) - 1 = n
    BY <1>3, <1>9
  <2> QED BY <1>5, <2>1 DEF Described
<1>10. 0 \in N
  BY <1>7, <1>8
<1>11. ASSUME NEW n \in Nat, n \in N
       PROVE  n + 1 \in N
  <2> SUFFICES ASSUME n + 1 <= Len(items) PROVE Listed(f[n + 1], m, n + 1)
    OBVIOUS
  <2>1. n + 1 \in 1..Len(items) /\ n <= Len(items)
    BY <1>3
  <2>2. Listed(f[n], m, n)
    BY <1>11, <2>1
  <2>3. n + 1 \in DOMAIN m["contents"] /\ Inline(items[n + 1]) \in Payloads \cup {None}
    BY <1>1, <1>3, <2>1 DEF Arrays
  <2>4. CASE HasPayloadField(items[n + 1])
    <3>1. PICK block : block = Descriptor("contents", n + 1, items[n + 1])
      OBVIOUS
    <3>2. block = [path |-> Path("contents", n + 1), payload |-> Inline(items[n + 1]),
                   text |-> items[n + 1].type = "text"]
      BY <3>1 DEF Descriptor
    <3>3. Listed(Append(f[n], block), m, n + 1)
      BY <2>2, <2>3, <3>2, ListedMore
    <3>4. f[n + 1] = Append(f[n], block)
      BY <1>9, <2>1, <2>4, <3>1
    <3> QED BY <3>3, <3>4
  <2>5. CASE ~HasPayloadField(items[n + 1])
    <3>1. f[n + 1] = f[n]
      BY <1>9, <2>1, <2>5
    <3>2. \A i \in 1..Len(f[n]) : Inside(f[n][i].path, m, n + 1)
      <4>1. ASSUME NEW i \in 1..Len(f[n])
            PROVE  Inside(f[n][i].path, m, n + 1)
        <5>1. Inside(f[n][i].path, m, n) /\ f[n] \in Seq(BlockSet)
          BY <2>2 DEF Listed
        <5>2. f[n][i] \in BlockSet
          BY <5>1, ElementIn
        <5>3. f[n][i].path.index \in Nat
          BY <5>2 DEF BlockSet
        <5> QED BY <5>1, <5>3 DEF Inside
      <4> QED BY <4>1
    <3> QED BY <2>2, <3>1, <3>2 DEF Listed
  <2> QED BY <2>4, <2>5
<1> HIDE DEF N
<1>12. Len(items) \in N
  BY <1>3, <1>10, <1>11, SetInduction
<1>13. Listed(f[Len(items)], m, Len(items))
  BY <1>3, <1>12 DEF N
<1>14. PICK s : s = blocks(m)
  OBVIOUS
<1>15. Listed(s, m, Len(items)) /\ DOMAIN s = 1..Len(s)
  BY <1>6, <1>13, <1>14 DEF Listed
<1> QED BY <1>14, <1>15 DEF Listed, Inside

-------------------------------------------------------------------------------
\* The count of the lines on the stream.

ReadsInv == unread \in Nat

LEMMA ReadsInit == Init => ReadsInv
  BY DEF Init, ReadsInv

LEMMA ReadsNext ==
  ASSUME ReadsInv, [Next]_vars
  PROVE  ReadsInv'
<1> USE DEF ReadsInv, streamVars
<1>1. CASE Preview \/ Body
  BY <1>1 DEF Preview, Body, Call, Send, SendFails, Put
<1>2. CASE Skip \/ OverBudget \/ CacheHit \/ Receive \/ Escalate \/ Closed \/ Finish
  BY <1>2 DEF Skip, OverBudget, CacheHit, Receive, Escalate, Closed, Finish
<1>3. CASE (\E m \in Messages : Begin(m)) \/ (\E says \in Sayings : Answer(says))
  BY <1>3 DEF Begin, Answer
<1>4. CASE Deadline \/ Read \/ Leave \/ UNCHANGED vars
  BY <1>4 DEF Deadline, Read, Leave, vars
<1> QED BY <1>1, <1>2, <1>3, <1>4 DEF Next, Scan

LEMMA OneWasRead ==
  ASSUME ReadsInv, IsSeq(requests), Len(requests) > unread
  PROVE  requests # <<>>
  BY SeqFacts DEF ReadsInv

\* Calls under way and answers unread, against the calls given up.
SkewInv ==
  /\ IsSeq(requests) /\ IsSeq(answers) /\ late \in Nat
  /\ SkewIsLate

LEMMA SkewInit == Init => SkewInv
<1> SUFFICES ASSUME Init PROVE SkewInv
  OBVIOUS
<1>1. IsSeq(requests) /\ IsSeq(answers)
  BY EmptyIsSeq DEF Init
<1>2. Len(requests) = 0 /\ Len(answers) = 0 /\ late = 0 /\ ~Awaiting
  BY DEF Init, Awaiting
<1> QED BY <1>1, <1>2 DEF SkewInv, SkewIsLate

\* A verdict ends the wait for an answer.
LEMMA JudgeEndsWait ==
  ASSUME NEW v, Judge(v) \/ Settle(v)
  PROVE  ~Awaiting' /\ pc' # "more"
  BY DEF Judge, Settle, Awaiting

LEMMA CallOnStream ==
  ASSUME NEW phase \in {"preview", "body"}, Call(phase), IsSeq(requests)
  PROVE  /\ IsSeq(requests') /\ serving' = serving /\ late' = late /\ answers' = answers
         /\ serving => Len(requests') = Len(requests) + 1 /\ Awaiting'
         /\ ~serving => requests' = requests
<1>1. CASE Send(phase)
  <2>1. CASE serving
    <3> DEFINE r == [about |-> Block.payload, torn |-> FALSE]
    <3>1. requests' = Append(requests, r)
      BY <1>1, <2>1 DEF Send, Put
    <3> HIDE DEF r
    <3>2. IsSeq(requests') /\ Len(requests') = Len(requests) + 1
      BY <3>1, AppendFacts
    <3> QED BY <1>1, <2>1, <3>2 DEF Call, Send, Awaiting
  <2>2. CASE ~serving
    BY <1>1, <2>2 DEF Call, Send, Put
  <2> QED BY <2>1, <2>2
<1>2. CASE SendFails
  BY <1>2 DEF Call, SendFails
<1> QED BY <1>1, <1>2 DEF Call

LEMMA SkewNext ==
  ASSUME SkewInv, ReadsInv, [Next]_vars
  PROVE  SkewInv'
<1> USE DEF streamVars
<1>0. Len(requests) \in Nat /\ Len(answers) \in Nat
  BY SeqFacts DEF SkewInv
<1>1. CASE \E m \in Messages : Begin(m)
  BY <1>1 DEF SkewInv, SkewIsLate, Begin, Awaiting
<1>2. CASE Skip \/ Finish
  BY <1>2 DEF SkewInv, SkewIsLate, Skip, Finish, Awaiting
<1>3. CASE OverBudget \/ CacheHit
  <2>1. ~Awaiting'
    BY <1>3, JudgeEndsWait DEF OverBudget, CacheHit
  <2>2. ~Awaiting
    BY <1>3 DEF OverBudget, CacheHit, Scannable, Awaiting
  <2> QED BY <1>3, <2>1, <2>2 DEF SkewInv, SkewIsLate, OverBudget, CacheHit
<1>4. CASE Preview \/ Body
  <2>1. PICK phase \in {"preview", "body"} : Call(phase)
    BY <1>4 DEF Preview, Body
  <2>2. ~Awaiting
    BY <1>4 DEF Preview, Body, Scannable, Awaiting
  <2> QED BY <1>0, <2>1, <2>2, CallOnStream DEF SkewInv, SkewIsLate
<1>5. CASE Receive
  <2>1. Awaiting /\ ~Awaiting' /\ answers' = Tail(answers)
    BY <1>5, JudgeEndsWait DEF Receive
  <2>2. IsSeq(answers') /\ Len(answers') = Len(answers) - 1
    BY <1>5, <2>1, TailFacts DEF Receive, SkewInv
  <2> QED BY <1>0, <1>5, <2>1, <2>2 DEF SkewInv, SkewIsLate, Receive
<1>6. CASE Escalate
  <2>1. Awaiting /\ ~Awaiting' /\ answers' = Tail(answers)
    BY <1>6 DEF Escalate, Awaiting
  <2>2. IsSeq(answers') /\ Len(answers') = Len(answers) - 1
    BY <1>6, <2>1, TailFacts DEF Escalate, SkewInv
  <2> QED BY <1>0, <1>6, <2>1, <2>2 DEF SkewInv, SkewIsLate, Escalate
<1>7. CASE Closed \/ Leave
  BY <1>7, EmptyIsSeq DEF SkewInv, SkewIsLate, Closed, Leave
<1>8. CASE Deadline
  <2>1. Awaiting /\ ~Awaiting' /\ late' = late + 1 /\ answers' = answers /\ serving' = serving
    BY <1>8, JudgeEndsWait DEF Deadline
  <2>2. IsSeq(requests') /\ Len(requests') = Len(requests)
    <3>1. CASE UNCHANGED requests
      BY <3>1 DEF SkewInv
    <3>2. CASE Len(requests) > unread /\ requests' = [requests EXCEPT ![1].torn = TRUE]
      <4> DEFINE e == [requests[1] EXCEPT !.torn = TRUE]
      <4>1. requests' = [requests EXCEPT ![1] = e]
        BY <3>2
      <4> HIDE DEF e
      <4>2. IsSeq(requests) /\ requests # <<>>
        BY <3>2, OneWasRead DEF SkewInv
      <4>3. IsSeq([requests EXCEPT ![1] = e]) /\ Len([requests EXCEPT ![1] = e]) = Len(requests)
        BY <4>2, ReplaceFacts
      <4> QED BY <4>1, <4>3
    <3> QED BY <1>8, <3>1, <3>2 DEF Deadline
  <2> QED BY <1>0, <2>1, <2>2 DEF SkewInv, SkewIsLate
<1>9. CASE \E says \in Sayings : Answer(says)
  <2>1. PICK says \in Sayings : Answer(says)
    BY <1>9
  <2>2. IsSeq(requests') /\ Len(requests') = Len(requests) - 1
    BY <2>1, TailFacts, OneWasRead DEF Answer, SkewInv
  <2>3. IsSeq(answers') /\ Len(answers') = Len(answers) + 1
    BY <2>1, AppendFacts DEF Answer, SkewInv
  <2>4. late' = late /\ serving' = serving /\ Awaiting' = Awaiting
    BY <2>1 DEF Answer, scanVars, Awaiting
  <2> QED BY <1>0, <2>2, <2>3, <2>4 DEF SkewInv, SkewIsLate
<1>10. CASE Read \/ UNCHANGED vars
  BY <1>10 DEF Read, SkewInv, SkewIsLate, vars, scanVars, Awaiting
<1> QED
  BY <1>1, <1>2, <1>3, <1>4, <1>5, <1>6, <1>7, <1>8, <1>9, <1>10 DEF Next, Scan

\* What can be misread is what a deadline left behind, and nothing else: neither failures
\* nor cache hits nor escalations put a line on the stream that nobody takes
\* (CalloutClient::exchange).
THEOREM SkewIsOfDeadlines == Spec => []SkewIsLate
<1>1. SkewInv => SkewIsLate
  BY DEF SkewInv
<1> QED BY <1>1, SkewInit, SkewNext, ReadsInit, ReadsNext, PTL DEF Spec

-------------------------------------------------------------------------------
\* Whose verdict it is.

\* A verdict on the payload q.
Own(v, q) == v # None => v.by \in {q, Host}

\* A call is awaited, or its body is still to be written.
InCall == pc = "more" \/ Awaiting

\* While no deadline has passed the only line on the stream is the one awaited, about the
\* block that waits for it; what was judged and kept is each payload's own.
OwnInv ==
  /\ IsSeq(requests) /\ IsSeq(answers) /\ IsSeq(taken)
  /\ late \in Nat /\ at \in Nat \ {0} /\ cache = [p \in Payloads |-> cache[p]]
  /\ Scanning => original \in Messages /\ Len(taken) = at - 1
  /\ InCall => at \in DOMAIN Blocks /\ Block.payload \in Payloads
  /\ ~serving => requests = <<>>
  /\ late = 0 =>
       /\ Len(requests) + Len(answers) <= (IF Awaiting THEN 1 ELSE 0)
       /\ \A i \in 1..Len(requests) : requests[i].about = Block.payload
       /\ \A i \in 1..Len(answers) : answers[i].about = Block.payload
       /\ \A p \in Payloads : Own(cache[p], p)
       /\ \A i \in 1..Len(taken) : Own(taken[i], Blocks[i].payload)

LEMMA OwnSuffices == OwnInv => OwnVerdict
<1> SUFFICES ASSUME OwnInv, late = 0 PROVE OwnVerdict
  BY DEF OwnVerdict
<1>1. DOMAIN taken = 1..Len(taken)
  BY SeqFacts DEF OwnInv
<1> QED BY <1>1 DEF OwnInv, OwnVerdict, Own

LEMMA OwnInit == Init => OwnInv
<1> SUFFICES ASSUME Init PROVE OwnInv
  OBVIOUS
<1>1. IsSeq(requests) /\ IsSeq(answers) /\ IsSeq(taken)
  BY EmptyIsSeq DEF Init
<1>2. Len(requests) = 0 /\ Len(answers) = 0 /\ Len(taken) = 0 /\ late = 0 /\ at = 1
  BY DEF Init
<1>3. ~Awaiting /\ ~InCall /\ ~Scanning /\ serving
  BY DEF Init, Awaiting, InCall, Scanning
<1>4. cache = [p \in Payloads |-> cache[p]] /\ \A p \in Payloads : Own(cache[p], p)
  BY DEF Init, Own
<1> QED BY <1>1, <1>2, <1>3, <1>4 DEF OwnInv

\* The block in hand, when the scan has come to it.
LEMMA BlockInHand ==
  ASSUME OwnInv, Scannable
  PROVE  at \in DOMAIN Blocks /\ Block.payload \in Payloads
<1>1. original \in Messages /\ at \in Nat \ {0} /\ at <= Len(Blocks) /\ Block.payload # None
  BY DEF OwnInv, Scannable, Scanning
<1>2. Blocks \in Seq(BlockSet)
  BY <1>1, BlocksFacts DEF Blocks
<1>3. at \in DOMAIN Blocks
  BY <1>1, <1>2
<1>4. Block \in BlockSet
  BY <1>2, <1>3, ElementIn DEF Block
<1>5. Block.payload \in Payloads \cup {None}
  BY <1>4 DEF BlockSet
<1> QED BY <1>1, <1>3, <1>5

\* What the scanner does with a verdict of its own.
LEMMA JudgeOwn ==
  ASSUME OwnInv, NEW v, Scanning, Judge(v), late' = late,
         late = 0 => Own(v, Block.payload)
  PROVE  /\ IsSeq(taken') /\ at' \in Nat \ {0} /\ ~Awaiting' /\ ~InCall'
         /\ Scanning' => original' \in Messages /\ Len(taken') = at' - 1
         /\ late' = 0 => \A i \in 1..Len(taken') : Own(taken'[i], Blocks'[i].payload)
<1>1. /\ original' = original /\ taken' = Append(taken, v) /\ Blocks' = Blocks
      /\ Len(taken) = at - 1 /\ original \in Messages /\ at \in Nat \ {0}
  BY DEF Judge, OwnInv, Blocks
<1>2. IsSeq(taken') /\ Len(taken') = at /\ taken'[at] = v
      /\ \A i \in 1..(at - 1) : taken'[i] = taken[i]
  BY <1>1, AppendFacts DEF OwnInv
<1>3. (pc' = "done" /\ at' = at) \/ (pc' = "next" /\ at' = at + 1)
  BY DEF Judge
<1>4. late' = 0 => \A i \in 1..Len(taken') : Own(taken'[i], Blocks'[i].payload)
  <2> SUFFICES ASSUME late = 0, NEW i \in 1..at PROVE Own(taken'[i], Blocks[i].payload)
    BY <1>1, <1>2
  <2>1. CASE i = at
    BY <1>2, <2>1 DEF Block
  <2>2. CASE i \in 1..(at - 1)
    BY <1>1, <1>2, <2>2 DEF OwnInv
  <2> QED BY <1>1, <2>1, <2>2
<1> QED BY <1>1, <1>2, <1>3, <1>4 DEF Scanning, InCall, Awaiting

\* Keeping it in the cache.
LEMMA SettleOwn ==
  ASSUME OwnInv, NEW v, Scanning, Settle(v), late' = late, Block.payload \in Payloads,
         late = 0 => v.by \in {Block.payload, Host}
  PROVE  /\ IsSeq(taken') /\ at' \in Nat \ {0} /\ ~Awaiting' /\ ~InCall'
         /\ Scanning' => original' \in Messages /\ Len(taken') = at' - 1
         /\ late' = 0 => \A i \in 1..Len(taken') : Own(taken'[i], Blocks'[i].payload)
         /\ cache' = [p \in Payloads |-> cache'[p]]
         /\ late' = 0 => \A p \in Payloads : Own(cache'[p], p)
<1>1. Judge(v) /\ cache' \in {cache, [cache EXCEPT ![Block.payload] = v]}
  BY DEF Settle
<1>2. late = 0 => Own(v, Block.payload)
  BY DEF Own
<1>3. cache' = [p \in Payloads |-> cache'[p]]
  BY <1>1 DEF OwnInv
<1>4. late' = 0 => \A p \in Payloads : Own(cache'[p], p)
  <2> SUFFICES ASSUME late = 0, NEW p \in Payloads PROVE Own(cache'[p], p)
    OBVIOUS
  <2>1. cache'[p] = cache[p] \/ (p = Block.payload /\ cache'[p] = v)
    BY <1>1 DEF OwnInv
  <2> QED BY <1>2, <2>1 DEF OwnInv
<1> QED BY <1>1, <1>2, <1>3, <1>4, JudgeOwn

LEMMA SaidBy == ASSUME NEW a PROVE parse_verdict(a).by \in {a.about, Host}
  BY DEF parse_verdict, Failed, Verdict

LEMMA FailedBy == Failed.by = Host
  BY DEF Failed, Verdict

\* Between scans and before a block is sent the stream is empty.
LEMMA NothingOnStream ==
  ASSUME OwnInv, late = 0, ~Awaiting
  PROVE  requests = <<>> /\ answers = <<>>
  BY SeqFacts DEF OwnInv

\* A call: the block's own request, or a verdict of the failure policy.
LEMMA CallOwn ==
  ASSUME OwnInv, NEW phase \in {"preview", "body"}, Call(phase), Scanning,
         at \in DOMAIN Blocks, Block.payload \in Payloads,
         late = 0 => requests = <<>> /\ answers = <<>>
  PROVE  OwnInv'
<1>1. late' = late /\ serving' = serving /\ answers' = answers
  BY DEF Call
<1>2. CASE Send(phase)
  <2>1. /\ at' = at /\ Blocks' = Blocks /\ Block' = Block /\ taken' = taken /\ cache' = cache
        /\ original' = original /\ Awaiting' /\ Scanning'
    BY <1>2 DEF Send, Blocks, Block, Awaiting, Scanning
  <2>2. /\ IsSeq(requests') /\ (~serving => requests' = <<>>)
        /\ late = 0 => /\ Len(requests') \in {0, 1}
                       /\ \A i \in 1..Len(requests') : requests'[i].about = Block.payload
    <3>1. CASE serving
      <4> DEFINE r == [about |-> Block.payload, torn |-> FALSE]
      <4>1. requests' = Append(requests, r) /\ r.about = Block.payload
        BY <1>2, <3>1 DEF Send, Put
      <4> HIDE DEF r
      <4>2. IsSeq(requests') /\ Len(requests') = Len(requests) + 1
            /\ requests'[Len(requests) + 1] = r
        BY <4>1, AppendFacts DEF OwnInv
      <4>3. late = 0 => Len(requests) = 0
        OBVIOUS
      <4> QED BY <3>1, <4>1, <4>2, <4>3
    <3>2. CASE ~serving
      <4>1. requests' = requests /\ requests = <<>>
        BY <1>2, <3>2 DEF Send, Put, OwnInv
      <4> QED BY <4>1, EmptyIsSeq
    <3> QED BY <3>1, <3>2
  <2>3. late = 0 => Len(answers') = 0
    BY <1>1
  <2>4. IsSeq(answers') /\ late' \in Nat /\ at' \in Nat \ {0} /\ IsSeq(taken') /\ cache' = [p \in Payloads |-> cache'[p]]
    BY <1>1, <2>1 DEF OwnInv
  <2>5. /\ Scanning' => original' \in Messages /\ Len(taken') = at' - 1
        /\ InCall' => at' \in DOMAIN Blocks' /\ Block'.payload \in Payloads
    BY <2>1 DEF OwnInv
  <2>6. late' = 0 =>
          /\ Len(requests') + Len(answers') <= (IF Awaiting' THEN 1 ELSE 0)
          /\ \A i \in 1..Len(requests') : requests'[i].about = Block'.payload
          /\ \A i \in 1..Len(answers') : answers'[i].about = Block'.payload
    BY <1>1, <2>1, <2>2, <2>3
  <2>7. late' = 0 =>
          /\ \A p \in Payloads : Own(cache'[p], p)
          /\ \A i \in 1..Len(taken') : Own(taken'[i], Blocks'[i].payload)
    BY <1>1, <2>1 DEF OwnInv
  <2> QED BY <1>1, <2>2, <2>4, <2>5, <2>6, <2>7 DEF OwnInv
<1>3. CASE SendFails
  <2>1. ~serving /\ Settle(Failed) /\ requests' = requests /\ requests = <<>>
    BY <1>3 DEF SendFails, OwnInv
  <2>2. /\ IsSeq(taken') /\ at' \in Nat \ {0} /\ ~Awaiting' /\ ~InCall'
        /\ Scanning' => original' \in Messages /\ Len(taken') = at' - 1
        /\ late' = 0 => \A i \in 1..Len(taken') : Own(taken'[i], Blocks'[i].payload)
        /\ cache' = [p \in Payloads |-> cache'[p]]
        /\ late' = 0 => \A p \in Payloads : Own(cache'[p], p)
    BY <1>1, <2>1, FailedBy, SettleOwn
  <2>3. late = 0 => Len(requests') = 0 /\ Len(answers') = 0
    BY <1>1, <2>1
  <2> QED BY <1>1, <2>1, <2>2, <2>3, EmptyIsSeq DEF OwnInv
<1> QED BY <1>2, <1>3 DEF Call

LEMMA OwnScan ==
  ASSUME OwnInv, Scan
  PROVE  OwnInv'
<1> USE DEF streamVars
<1>1. CASE Skip
  <2>1. /\ ~Awaiting /\ ~Awaiting' /\ ~InCall' /\ Scanning /\ Blocks' = Blocks
        /\ original' = original /\ taken' = Append(taken, None) /\ at' = at + 1 /\ pc' = pc
    BY <1>1 DEF Skip, Awaiting, InCall, Scanning, Blocks
  <2>2. IsSeq(taken') /\ Len(taken') = Len(taken) + 1 /\ taken'[Len(taken) + 1] = None
        /\ (\A i \in 1..Len(taken) : taken'[i] = taken[i]) /\ Len(taken) \in Nat
    BY <2>1, AppendFacts, SeqFacts DEF OwnInv
  <2>3. late = 0 => \A i \in 1..Len(taken') : Own(taken'[i], Blocks'[i].payload)
    BY <2>1, <2>2 DEF OwnInv, Own
  <2>4. late = 0 => Len(requests) = 0 /\ Len(answers) = 0
    BY <2>1, NothingOnStream
  <2>5. UNCHANGED <<cache, requests, answers, serving, late>>
    BY <1>1 DEF Skip
  <2>6. original \in Messages /\ Len(taken) = at - 1 /\ at \in Nat \ {0}
    BY <2>1 DEF OwnInv
  <2> QED BY <2>1, <2>2, <2>3, <2>4, <2>5, <2>6 DEF OwnInv
<1>2. CASE OverBudget \/ CacheHit
  <2>1. Scannable /\ Scanning /\ ~Awaiting
    BY <1>2 DEF OverBudget, CacheHit, Scannable, Scanning, Awaiting
  <2>2. PICK v : Judge(v) /\ (late = 0 => Own(v, Block.payload))
    <3>1. CASE OverBudget
      BY <3>1, FailedBy DEF OverBudget, Own
    <3>2. CASE CacheHit
      BY <2>1, <3>2, BlockInHand DEF CacheHit, OwnInv
    <3> QED BY <1>2, <3>1, <3>2
  <2>3. late' = late /\ cache' = cache /\ requests' = requests /\ answers' = answers
        /\ serving' = serving
    BY <1>2 DEF OverBudget, CacheHit
  <2>4. /\ IsSeq(taken') /\ at' \in Nat \ {0} /\ ~Awaiting' /\ ~InCall'
        /\ Scanning' => original' \in Messages /\ Len(taken') = at' - 1
        /\ late' = 0 => \A i \in 1..Len(taken') : Own(taken'[i], Blocks'[i].payload)
    BY <2>1, <2>2, <2>3, JudgeOwn
  <2>5. late = 0 => Len(requests) = 0 /\ Len(answers) = 0
    BY <2>1, NothingOnStream
  <2> QED BY <2>3, <2>4, <2>5 DEF OwnInv
<1>3. CASE Preview \/ Body
  <2>1. PICK phase \in {"preview", "body"} : Call(phase)
    BY <1>3 DEF Preview, Body
  <2>2. Scanning /\ ~Awaiting
    BY <1>3 DEF Preview, Body, Scannable, Scanning, Awaiting
  <2>3. at \in DOMAIN Blocks /\ Block.payload \in Payloads
    BY <1>3, BlockInHand DEF Preview, Body, InCall, OwnInv
  <2>4. late = 0 => requests = <<>> /\ answers = <<>>
    BY <2>2, NothingOnStream
  <2> QED BY <2>1, <2>2, <2>3, <2>4, CallOwn
<1>4. CASE Receive \/ Escalate
  <2>1. /\ Awaiting /\ Scanning /\ answers # <<>> /\ answers' = Tail(answers)
        /\ at \in DOMAIN Blocks /\ Block.payload \in Payloads
    BY <1>4 DEF Receive, Escalate, Scanning, InCall, OwnInv
  <2>2. /\ IsSeq(answers') /\ Len(answers') = Len(answers) - 1 /\ Head(answers) = answers[1]
        /\ Len(answers) \in Nat \ {0} /\ Len(requests) \in Nat
    BY <2>1, TailFacts, SeqFacts DEF OwnInv
  <2>3. late = 0 => /\ requests = <<>> /\ answers' = <<>> /\ Len(answers') = 0
                    /\ Len(requests) = 0
                    /\ Head(answers).about = Block.payload
    <3> SUFFICES ASSUME late = 0 PROVE /\ Len(answers') = 0 /\ Len(requests) = 0
                                       /\ Head(answers).about = Block.payload
      BY <2>2, SeqFacts DEF OwnInv
    <3> QED BY <2>1, <2>2 DEF OwnInv
  <2>4. CASE Receive
    <3>1. /\ Settle(Said) /\ late' = late /\ requests' = requests /\ serving' = serving
      BY <2>4 DEF Receive
    <3>2. late = 0 => Said.by \in {Block.payload, Host}
      BY <2>3, SaidBy DEF Said
    <3>3. /\ IsSeq(taken') /\ at' \in Nat \ {0} /\ ~Awaiting' /\ ~InCall'
          /\ Scanning' => original' \in Messages /\ Len(taken') = at' - 1
          /\ late' = 0 => \A i \in 1..Len(taken') : Own(taken'[i], Blocks'[i].payload)
          /\ cache' = [p \in Payloads |-> cache'[p]]
          /\ late' = 0 => \A p \in Payloads : Own(cache'[p], p)
      BY <2>1, <3>1, <3>2, SettleOwn
    <3> QED BY <2>2, <2>3, <3>1, <3>3 DEF OwnInv
  <2>5. CASE Escalate
    <3>1. /\ UNCHANGED <<cache, requests, serving, original, at, taken, late>> /\ pc' = "more"
      BY <2>5 DEF Escalate
    <3>2. Blocks' = Blocks /\ Block' = Block /\ ~Awaiting' /\ Scanning'
      BY <3>1 DEF Blocks, Block, Awaiting, Scanning
    <3>3. late' = 0 =>
            /\ Len(requests') + Len(answers') <= (IF Awaiting' THEN 1 ELSE 0)
            /\ \A i \in 1..Len(requests') : requests'[i].about = Block'.payload
            /\ \A i \in 1..Len(answers') : answers'[i].about = Block'.payload
      BY <2>3, <3>1, <3>2
    <3> QED BY <2>1, <2>2, <3>1, <3>2, <3>3 DEF OwnInv
  <2> QED BY <1>4, <2>4, <2>5
<1>5. CASE Closed
  <2>1. /\ Awaiting /\ Scanning /\ answers = <<>> /\ ~serving /\ Settle(Failed) /\ late' = late
        /\ requests' = requests /\ answers' = answers /\ serving' = serving
    BY <1>5 DEF Closed, Scanning
  <2>2. requests = <<>> /\ Block.payload \in Payloads
    BY <2>1 DEF OwnInv, InCall
  <2>3. /\ IsSeq(taken') /\ at' \in Nat \ {0} /\ ~Awaiting' /\ ~InCall'
        /\ Scanning' => original' \in Messages /\ Len(taken') = at' - 1
        /\ late' = 0 => \A i \in 1..Len(taken') : Own(taken'[i], Blocks'[i].payload)
        /\ cache' = [p \in Payloads |-> cache'[p]]
        /\ late' = 0 => \A p \in Payloads : Own(cache'[p], p)
    BY <2>1, <2>2, FailedBy, SettleOwn
  <2>4. Len(requests') = 0 /\ Len(answers') = 0
    BY <2>1, <2>2
  <2> QED BY <2>1, <2>2, <2>3, <2>4 DEF OwnInv
<1>6. CASE Finish
  <2>1. ~Awaiting /\ ~Awaiting' /\ ~InCall' /\ ~Scanning' /\ Blocks' = Blocks
    BY <1>6 DEF Finish, Awaiting, InCall, Scanning, Blocks
  <2>2. late = 0 => Len(requests) = 0 /\ Len(answers) = 0
    BY <2>1, NothingOnStream
  <2> QED BY <1>6, <2>1, <2>2 DEF Finish, OwnInv
<1> QED BY <1>1, <1>2, <1>3, <1>4, <1>5, <1>6 DEF Scan

LEMMA OwnNext ==
  ASSUME OwnInv, ReadsInv, [Next]_vars
  PROVE  OwnInv'
<1> USE DEF streamVars
<1>1. CASE Scan
  BY <1>1, OwnScan
<1>2. CASE \E m \in Messages : Begin(m)
  <2>1. PICK m \in Messages : Begin(m)
    BY <1>2
  <2>2. /\ ~Awaiting /\ ~Awaiting' /\ ~InCall'
        /\ original' \in Messages /\ taken' = <<>> /\ at' = 1
    BY <2>1 DEF Begin, Awaiting, InCall
  <2>3. late = 0 => Len(requests) = 0 /\ Len(answers) = 0
    BY <2>2, NothingOnStream
  <2>4. Len(taken') = 0 /\ IsSeq(taken')
    BY <2>2, EmptyIsSeq
  <2> QED BY <2>1, <2>2, <2>3, <2>4 DEF Begin, OwnInv
<1>3. CASE Deadline
  <2>1. /\ Awaiting /\ Scanning /\ Judge(Failed) /\ answers' = answers /\ serving' = serving
        /\ late' = late + 1 /\ cache' \in {cache, [cache EXCEPT ![Block.payload] = Failed]}
    BY <1>3 DEF Deadline, Settle, Scanning
  <2>2. IsSeq(requests') /\ (~serving => requests' = <<>>)
    <3>1. CASE UNCHANGED requests
      BY <3>1 DEF OwnInv
    <3>2. CASE Len(requests) > unread /\ requests' = [requests EXCEPT ![1].torn = TRUE]
      <4> DEFINE e == [requests[1] EXCEPT !.torn = TRUE]
      <4>1. requests' = [requests EXCEPT ![1] = e]
        BY <3>2
      <4> HIDE DEF e
      <4>2. IsSeq(requests) /\ requests # <<>>
        BY <3>2, OneWasRead DEF OwnInv
      <4>3. IsSeq([requests EXCEPT ![1] = e]) /\ Len([requests EXCEPT ![1] = e]) = Len(requests)
        BY <4>2, ReplaceFacts
      <4>4. serving
        BY <4>2 DEF OwnInv
      <4> QED BY <4>1, <4>3, <4>4
    <3> QED BY <1>3, <3>1, <3>2 DEF Deadline
  <2>3. /\ original' = original /\ taken' = Append(taken, Failed) /\ ~Awaiting'
        /\ Len(taken) = at - 1 /\ original \in Messages /\ at \in Nat \ {0}
        /\ (pc' = "done" /\ at' = at) \/ (pc' = "next" /\ at' = at + 1)
    BY <2>1 DEF Judge, OwnInv, Awaiting
  <2>4. IsSeq(taken') /\ Len(taken') = at
    BY <2>3, AppendFacts DEF OwnInv
  <2>5. late' # 0 /\ late' \in Nat /\ cache' = [p \in Payloads |-> cache'[p]]
    BY <2>1 DEF OwnInv
  <2> QED BY <2>1, <2>2, <2>3, <2>4, <2>5 DEF OwnInv, Scanning, InCall, Awaiting
<1>4. CASE \E says \in Sayings : Answer(says)
  <2>1. PICK says \in Sayings : Answer(says)
    BY <1>4
  <2>2. /\ requests # <<>> /\ requests' = Tail(requests) /\ late' = late /\ cache' = cache
        /\ serving' = serving /\ serving /\ taken' = taken /\ at' = at /\ pc' = pc
        /\ original' = original
    BY <2>1, OneWasRead DEF Answer, scanVars, OwnInv
  <2>3. /\ Blocks' = Blocks /\ Block' = Block /\ Awaiting' = Awaiting
        /\ InCall' = InCall /\ Scanning' = Scanning
    BY <2>2 DEF Blocks, Block, Awaiting, InCall, Scanning
  <2>4. PICK said : answers' = Append(answers, [about |-> Head(requests).about, says |-> said])
    BY <2>1 DEF Answer
  <2>5. /\ IsSeq(requests') /\ Len(requests') = Len(requests) - 1
        /\ Len(requests) \in Nat \ {0} /\ Head(requests) = requests[1]
        /\ \A i \in 1..Len(requests') : requests'[i] = requests[i + 1]
    BY <2>2, TailFacts DEF OwnInv
  <2> DEFINE a == [about |-> Head(requests).about, says |-> said]
  <2>6. answers' = Append(answers, a) /\ a.about = requests[1].about
    BY <2>4, <2>5
  <2> HIDE DEF a
  <2>7. /\ IsSeq(answers') /\ Len(answers') = Len(answers) + 1 /\ Len(answers) \in Nat
        /\ answers'[Len(answers) + 1] = a
        /\ \A i \in 1..Len(answers) : answers'[i] = answers[i]
    BY <2>6, AppendFacts, SeqFacts DEF OwnInv
  <2>8. late = 0 =>
          /\ Len(requests') + Len(answers') <= (IF Awaiting THEN 1 ELSE 0)
          /\ \A i \in 1..Len(requests') : requests'[i].about = Block.payload
          /\ \A i \in 1..Len(answers') : answers'[i].about = Block.payload
    <3> SUFFICES ASSUME late = 0
                 PROVE  /\ Len(requests') + Len(answers') <= (IF Awaiting THEN 1 ELSE 0)
                        /\ \A i \in 1..Len(requests') : requests'[i].about = Block.payload
                        /\ \A i \in 1..Len(answers') : answers'[i].about = Block.payload
      OBVIOUS
    <3>1. Len(requests) + Len(answers) <= (IF Awaiting THEN 1 ELSE 0)
          /\ requests[1].about = Block.payload
      BY <2>5 DEF OwnInv
    <3>2. Len(requests') = 0 /\ Len(answers) = 0 /\ Awaiting
      BY <2>5, <2>7, <3>1
    <3> QED BY <2>6, <2>7, <3>1, <3>2
  <2> QED BY <2>2, <2>3, <2>5, <2>7, <2>8 DEF OwnInv
<1>5. CASE Leave
  <2>1. /\ requests' = <<>> /\ answers' = answers /\ late' = late /\ cache' = cache
        /\ taken' = taken /\ at' = at /\ pc' = pc /\ original' = original
    BY <1>5 DEF Leave, scanVars
  <2>2. /\ Blocks' = Blocks /\ Block' = Block /\ Awaiting' = Awaiting
        /\ InCall' = InCall /\ Scanning' = Scanning
    BY <2>1 DEF Blocks, Block, Awaiting, InCall, Scanning
  <2>3. IsSeq(requests') /\ Len(requests') = 0 /\ Len(requests) \in Nat /\ Len(answers) \in Nat
    BY <2>1, EmptyIsSeq, SeqFacts DEF OwnInv
  <2> QED BY <2>1, <2>2, <2>3 DEF OwnInv
<1>6. CASE Read \/ UNCHANGED vars
  <2>1. UNCHANGED <<cache, requests, answers, serving, scanVars, late>>
    BY <1>6 DEF Read, vars
  <2>2. /\ Blocks' = Blocks /\ Block' = Block /\ Awaiting' = Awaiting
        /\ InCall' = InCall /\ Scanning' = Scanning
    BY <2>1 DEF scanVars, Blocks, Block, Awaiting, InCall, Scanning
  <2> QED BY <2>1, <2>2 DEF scanVars, OwnInv
<1> QED BY <1>1, <1>2, <1>3, <1>4, <1>5, <1>6 DEF Next

\* Before the first deadline passes no verdict is applied to, or kept for, a payload the
\* service did not give it for (CalloutClient::scan, VerdictCache).
THEOREM VerdictsAreOwn == Spec => []OwnVerdict
<1> QED BY OwnSuffices, OwnInit, OwnNext, ReadsInit, ReadsNext, PTL DEF Spec

-------------------------------------------------------------------------------
\* What a scanner that fails closed forwards.

\* A verdict of the policy that fails closed is a refusal; what passes is neither.
HostDenies(v) == v.by = Host => v.kind = "deny"
Passes(v) == v.by # Host /\ v.kind \notin {"deny", "quarantine"}

Lines == [about: Payloads, torn: BOOLEAN]

\* Over OwnInv: until a message is blocked each payload passed was the service's to pass,
\* and what the policy left in the cache blocks again.
VettedInv ==
  /\ requests \in Seq(Lines)
  /\ \A i \in 1..Len(answers) : answers[i].about \in Payloads
  /\ Scanning => outcome = "none"
  /\ outcome = "forward" => DOMAIN Blocks \subseteq 1..Len(taken)
  /\ setup.policy = "fail_closed" =>
       /\ \A p \in Payloads : cache[p] # None => HostDenies(cache[p])
       /\ outcome # "block" =>
            \A i \in 1..Len(taken) : Blocks[i].payload # None => Passes(taken[i])

LEMMA VettedSuffices == VettedInv => FailClosedVetted
<1> SUFFICES ASSUME VettedInv PROVE FailClosedVetted
  OBVIOUS
<1> QED BY DEF VettedInv, FailClosedVetted, Passes

LEMMA VettedInit == Init => VettedInv
<1> SUFFICES ASSUME Init PROVE VettedInv
  OBVIOUS
<1>1. Len(answers) = 0 /\ Len(taken) = 0 /\ outcome = "none" /\ requests = <<>>
  BY DEF Init
<1>2. \A p \in Payloads : cache[p] = None
  BY DEF Init
<1> QED BY <1>1, <1>2 DEF VettedInv

\* The verdict of the policy, and the service's own words.
LEMMA FailedDenies == setup.policy = "fail_closed" => HostDenies(Failed)
  BY DEF HostDenies, Failed, Verdict, resolve_failure

LEMMA SaidDenies ==
  ASSUME NEW a, a.about \in Payloads, setup.policy = "fail_closed"
  PROVE  HostDenies(parse_verdict(a))
<1>1. a.about # Host
  BY ScannerAssumption
<1>2. parse_verdict(a) = Failed \/ parse_verdict(a).by = a.about
  BY DEF parse_verdict, Verdict
<1> QED BY <1>1, <1>2, FailedDenies DEF HostDenies

LEMMA JudgeVetted ==
  ASSUME OwnInv, VettedInv, NEW v, Scanning, Judge(v), setup' = setup,
         setup.policy = "fail_closed" => HostDenies(v)
  PROVE  /\ Scanning' => outcome' = "none"
         /\ outcome' # "forward"
         /\ setup'.policy = "fail_closed" /\ outcome' # "block" =>
              \A i \in 1..Len(taken') : Blocks'[i].payload # None => Passes(taken'[i])
<1>1. taken' = Append(taken, v) /\ Blocks' = Blocks /\ outcome = "none"
  BY DEF Judge, Blocks, VettedInv
<1>2. /\ Len(taken') = Len(taken) + 1 /\ taken'[Len(taken) + 1] = v /\ Len(taken) \in Nat
      /\ \A i \in 1..Len(taken) : taken'[i] = taken[i]
  BY <1>1, AppendFacts, SeqFacts DEF OwnInv
<1>3. CASE v.kind \in {"deny", "quarantine"}
  BY <1>3 DEF Judge, Scanning, Awaiting
<1>4. CASE v.kind \notin {"deny", "quarantine"}
  <2>1. outcome' = "none"
    BY <1>1, <1>4 DEF Judge
  <2>2. setup.policy = "fail_closed" => Passes(v)
    BY <1>4 DEF HostDenies, Passes
  <2> QED BY <1>1, <1>2, <2>1, <2>2 DEF VettedInv
<1> QED BY <1>3, <1>4

\* With the cache: what is kept refuses again if the policy gave it.
LEMMA SettleVetted ==
  ASSUME OwnInv, VettedInv, NEW v, Scanning, Settle(v), setup' = setup,
         Block.payload \in Payloads, setup.policy = "fail_closed" => HostDenies(v),
         requests' \in Seq(Lines),
         \A i \in 1..Len(answers') : answers'[i].about \in Payloads
  PROVE  VettedInv'
<1>1. Judge(v) /\ cache' \in {cache, [cache EXCEPT ![Block.payload] = v]}
  BY DEF Settle
<1>2. setup'.policy = "fail_closed" => \A p \in Payloads : cache'[p] # None => HostDenies(cache'[p])
  <2> SUFFICES ASSUME setup.policy = "fail_closed", NEW p \in Payloads, cache'[p] # None
               PROVE  HostDenies(cache'[p])
    OBVIOUS
  <2>1. cache'[p] = cache[p] \/ cache'[p] = v
    BY <1>1 DEF OwnInv
  <2> QED BY <2>1 DEF VettedInv
<1>3. /\ Scanning' => outcome' = "none"
      /\ outcome' # "forward"
      /\ setup'.policy = "fail_closed" /\ outcome' # "block" =>
           \A i \in 1..Len(taken') : Blocks'[i].payload # None => Passes(taken'[i])
  BY <1>1, JudgeVetted
<1> QED BY <1>2, <1>3 DEF VettedInv

LEMMA CallVetted ==
  ASSUME OwnInv, VettedInv, NEW phase \in {"preview", "body"}, Call(phase), Scanning,
         Block.payload \in Payloads
  PROVE  VettedInv'
<1>1. CASE Send(phase)
  <2>1. /\ Blocks' = Blocks /\ taken' = taken /\ cache' = cache /\ outcome' = outcome
        /\ setup' = setup /\ answers' = answers /\ outcome = "none"
    BY <1>1 DEF Call, Send, Blocks, VettedInv
  <2>2. [about |-> Block.payload, torn |-> FALSE] \in Lines
    BY DEF Lines
  <2>3. requests' \in Seq(Lines)
    BY <1>1, <2>2, SeqOver DEF Send, Put, VettedInv
  <2> QED BY <2>1, <2>3 DEF VettedInv
<1>2. CASE SendFails
  BY <1>2, FailedDenies, SettleVetted DEF Call, SendFails, VettedInv
<1> QED BY <1>1, <1>2 DEF Call

LEMMA VettedScan ==
  ASSUME OwnInv, VettedInv, Scan
  PROVE  VettedInv'
<1> USE DEF streamVars
<1>1. CASE Skip
  <2>1. /\ Scanning /\ Blocks' = Blocks /\ taken' = Append(taken, None)
        /\ Blocks[at].payload = None /\ outcome' = outcome /\ setup' = setup
        /\ cache' = cache /\ requests' = requests /\ answers' = answers
    BY <1>1 DEF Skip, Scanning, Blocks, Block
  <2>2. /\ Len(taken') = Len(taken) + 1 /\ Len(taken) \in Nat /\ at = Len(taken) + 1
        /\ \A i \in 1..Len(taken) : taken'[i] = taken[i]
    BY <2>1, AppendFacts, SeqFacts DEF OwnInv
  <2> QED BY <2>1, <2>2 DEF VettedInv
<1>2. CASE OverBudget \/ CacheHit
  <2>1. Scannable /\ Scanning
    BY <1>2 DEF OverBudget, CacheHit, Scannable, Scanning
  <2>2. /\ setup' = setup /\ cache' = cache /\ requests' = requests /\ answers' = answers
    BY <1>2 DEF OverBudget, CacheHit
  <2>3. PICK v : Judge(v) /\ (setup.policy = "fail_closed" => HostDenies(v))
    <3>1. CASE OverBudget
      BY <3>1, FailedDenies DEF OverBudget
    <3>2. CASE CacheHit
      BY <2>1, <3>2, BlockInHand DEF CacheHit, Hit, VettedInv
    <3> QED BY <1>2, <3>1, <3>2
  <2> QED BY <2>1, <2>2, <2>3, JudgeVetted DEF VettedInv
<1>3. CASE Preview \/ Body
  <2>1. PICK phase \in {"preview", "body"} : Call(phase)
    BY <1>3 DEF Preview, Body
  <2>2. Scanning
    BY <1>3 DEF Preview, Body, Scannable, Scanning
  <2>3. Block.payload \in Payloads
    BY <1>3, BlockInHand DEF Preview, Body, InCall, OwnInv
  <2> QED BY <2>1, <2>2, <2>3, CallVetted
<1>4. CASE Receive \/ Escalate
  <2>1. Scanning /\ Block.payload \in Payloads /\ answers # <<>> /\ answers' = Tail(answers)
    BY <1>4 DEF Receive, Escalate, Scanning, InCall, OwnInv
  <2>2. /\ Head(answers) = answers[1] /\ Len(answers) \in Nat \ {0}
        /\ Len(answers') = Len(answers) - 1
        /\ \A i \in 1..Len(answers') : answers'[i] = answers[i + 1]
    BY <2>1, TailFacts DEF OwnInv
  <2>3. /\ \A i \in 1..Len(answers') : answers'[i].about \in Payloads
        /\ Head(answers).about \in Payloads
    BY <2>2 DEF VettedInv
  <2>4. CASE Receive
    <3>1. setup.policy = "fail_closed" => HostDenies(Said)
      BY <2>3, SaidDenies DEF Said
    <3> QED BY <2>1, <2>3, <2>4, <3>1, SettleVetted DEF Receive, VettedInv
  <2>5. CASE Escalate
    <3>1. /\ UNCHANGED <<setup, cache, requests, original, outcome, taken>>
      BY <2>5 DEF Escalate
    <3>2. Blocks' = Blocks
      BY <3>1 DEF Blocks
    <3> QED BY <2>1, <2>3, <3>1, <3>2 DEF VettedInv
  <2> QED BY <1>4, <2>4, <2>5
<1>5. CASE Closed
  <2>1. Scanning /\ Block.payload \in Payloads
    BY <1>5 DEF Closed, Scanning, InCall, OwnInv
  <2> QED BY <1>5, <2>1, FailedDenies, SettleVetted DEF Closed, VettedInv
<1>6. CASE Finish
  <2>1. /\ Scanning /\ ~Scanning' /\ Blocks' = Blocks /\ outcome' = "forward" /\ at > Len(Blocks)
        /\ taken' = taken /\ cache' = cache /\ setup' = setup
        /\ requests' = requests /\ answers' = answers
    BY <1>6 DEF Finish, Scanning, Awaiting, Blocks
  <2>2. DOMAIN Blocks = 1..Len(Blocks) /\ Len(Blocks) \in Nat
    BY <2>1, BlocksFacts DEF OwnInv, Blocks
  <2>3. DOMAIN Blocks' \subseteq 1..Len(taken')
    BY <2>1, <2>2 DEF OwnInv
  <2>4. outcome # "block"
    BY <2>1 DEF VettedInv
  <2> QED BY <2>1, <2>3, <2>4 DEF VettedInv
<1> QED BY <1>1, <1>2, <1>3, <1>4, <1>5, <1>6 DEF Scan

LEMMA VettedNext ==
  ASSUME OwnInv, ReadsInv, VettedInv, [Next]_vars
  PROVE  VettedInv'
<1> USE DEF streamVars
<1>1. CASE Scan
  BY <1>1, VettedScan
<1>2. CASE \E m \in Messages : Begin(m)
  <2>1. /\ taken' = <<>> /\ outcome' = "none" /\ setup' = setup /\ cache' = cache
        /\ requests' = requests /\ answers' = answers
    BY <1>2 DEF Begin
  <2> QED BY <2>1 DEF VettedInv
<1>3. CASE Deadline
  <2>1. /\ Scanning /\ Settle(Failed) /\ setup' = setup /\ Block.payload \in Payloads
        /\ answers' = answers
    BY <1>3 DEF Deadline, Scanning, InCall, OwnInv
  <2>2. requests' \in Seq(Lines)
    <3>1. CASE UNCHANGED requests
      BY <3>1 DEF VettedInv
    <3>2. CASE Len(requests) > unread /\ requests' = [requests EXCEPT ![1].torn = TRUE]
      <4>0. requests # <<>>
        BY <3>2, OneWasRead DEF OwnInv
      <4>1. requests[1] \in Lines
        BY <4>0, SeqOver DEF VettedInv
      <4> DEFINE e == [requests[1] EXCEPT !.torn = TRUE]
      <4>2. e \in Lines /\ requests' = [requests EXCEPT ![1] = e]
        BY <3>2, <4>1 DEF Lines
      <4> HIDE DEF e
      <4>3. requests \in Seq(Lines)
        BY DEF VettedInv
      <4>4. [requests EXCEPT ![1] = e] \in Seq(Lines)
        BY <4>0, <4>2, <4>3, SeqOver
      <4> QED BY <4>2, <4>4
    <3> QED BY <1>3, <3>1, <3>2 DEF Deadline
  <2> QED BY <2>1, <2>2, FailedDenies, SettleVetted DEF VettedInv
<1>4. CASE \E says \in Sayings : Answer(says)
  <2>1. PICK says \in Sayings : Answer(says)
    BY <1>4
  <2>2. /\ requests # <<>> /\ requests' = Tail(requests) /\ cache' = cache /\ setup' = setup
        /\ taken' = taken /\ pc' = pc /\ original' = original /\ outcome' = outcome
    BY <2>1, OneWasRead DEF Answer, scanVars, OwnInv
  <2>3. Blocks' = Blocks /\ Scanning' = Scanning
    BY <2>2 DEF Blocks, Awaiting, Scanning
  <2>4. requests' \in Seq(Lines)
        /\ Head(requests) \in Lines
    <3>1. requests \in Seq(Lines) /\ requests # <<>>
      BY <2>2 DEF VettedInv
    <3>2. Tail(requests) \in Seq(Lines) /\ Head(requests) \in Lines
      BY <3>1
    <3> QED BY <2>2, <3>2
  <2>5. PICK said : answers' = Append(answers, [about |-> Head(requests).about, says |-> said])
    BY <2>1 DEF Answer
  <2> DEFINE a == [about |-> Head(requests).about, says |-> said]
  <2>6. answers' = Append(answers, a) /\ a.about \in Payloads
    BY <2>4, <2>5 DEF Lines
  <2> HIDE DEF a
  <2>7. \A i \in 1..Len(answers') : answers'[i].about \in Payloads
    BY <2>6, AppendFacts, SeqFacts DEF OwnInv, VettedInv
  <2> QED BY <2>2, <2>3, <2>4, <2>7 DEF VettedInv
<1>5. CASE Leave
  <2>1. /\ requests' = <<>> /\ answers' = answers /\ cache' = cache /\ setup' = setup
        /\ taken' = taken /\ pc' = pc /\ original' = original /\ outcome' = outcome
    BY <1>5 DEF Leave, scanVars
  <2>2. Blocks' = Blocks /\ Scanning' = Scanning
    BY <2>1 DEF Blocks, Awaiting, Scanning
  <2> QED BY <2>1, <2>2 DEF VettedInv
<1>6. CASE Read \/ UNCHANGED vars
  <2>1. UNCHANGED <<setup, cache, requests, answers, scanVars>>
    BY <1>6 DEF Read, vars
  <2>2. Blocks' = Blocks /\ Scanning' = Scanning
    BY <2>1 DEF scanVars, Blocks, Awaiting, Scanning
  <2> QED BY <2>1, <2>2 DEF scanVars, VettedInv
<1> QED BY <1>1, <1>2, <1>3, <1>4, <1>5, <1>6 DEF Next

\* A scanner that fails closed forwards no payload that only its failure policy decided
\* on or that the service refused, whatever failed, went away, timed out or was cached
\* (resolve_failure).
THEOREM FailClosedForwardsVetted == Spec => []FailClosedVetted
<1>1. VettedInv => FailClosedVetted
  BY VettedSuffices
<1>2. OwnInv /\ ReadsInv /\ VettedInv /\ [Next]_vars => OwnInv' /\ ReadsInv' /\ VettedInv'
  BY OwnNext, ReadsNext, VettedNext
<1> QED BY <1>1, <1>2, OwnInit, ReadsInit, VettedInit, PTL DEF Spec

-------------------------------------------------------------------------------
\* One payload, one verdict.

\* A call is made for a payload only while the cache has nothing for it, and without a
\* cache nothing is kept.
AskedOnce ==
  /\ InCall => cache[Block.payload] = None
  /\ \A p \in Payloads : cache[p] # None => setup.cached

LEMMA AskedInit == Init => AskedOnce
  BY DEF Init, AskedOnce, InCall, Awaiting

\* What a step may do to the verdicts.
Stands ==
  /\ \A p \in Payloads : cache[p] # None => cache'[p] = cache[p]
  /\ (Len(taken') = Len(taken) + 1 /\ Block.payload \in Payloads \ Oversize)
     => (cache[Block.payload] # None => taken'[Len(taken')] = cache[Block.payload])

LEMMA SettleStands ==
  ASSUME OwnInv, AskedOnce, NEW v, Settle(v), setup' = setup,
         Block.payload \in Payloads, cache[Block.payload] = None
  PROVE  AskedOnce' /\ Stands
<1>1. ~InCall'
  BY JudgeEndsWait DEF InCall
<1>2. cache' = cache \/ (setup.cached /\ cache' = [cache EXCEPT ![Block.payload] = v])
  BY DEF Settle
<1>3. \A p \in Payloads : cache'[p] = cache[p] \/ (setup.cached /\ p = Block.payload)
  BY <1>2 DEF OwnInv
<1> QED BY <1>1, <1>3 DEF AskedOnce, Stands

LEMMA CallStands ==
  ASSUME OwnInv, AskedOnce, NEW phase \in {"preview", "body"}, Call(phase),
         Block.payload \in Payloads, cache[Block.payload] = None
  PROVE  AskedOnce' /\ Stands
<1>1. CASE Send(phase)
  <2>1. cache' = cache /\ Block' = Block /\ setup' = setup
    BY <1>1 DEF Call, Send, Block, Blocks
  <2> QED BY <2>1 DEF AskedOnce, Stands
<1>2. CASE SendFails
  BY <1>2, SettleStands DEF Call, SendFails
<1> QED BY <1>1, <1>2 DEF Call

LEMMA AskedNext ==
  ASSUME OwnInv, AskedOnce, Next
  PROVE  AskedOnce' /\ Stands
<1> USE DEF streamVars
<1>1. CASE Skip
  <2>1. cache' = cache /\ setup' = setup /\ ~InCall' /\ Block.payload \notin Payloads
    BY <1>1, ScannerAssumption DEF Skip, InCall, Awaiting
  <2> QED BY <2>1 DEF AskedOnce, Stands
<1>2. CASE OverBudget
  <2>1. cache' = cache /\ setup' = setup /\ ~InCall' /\ Block.payload \in Oversize
    BY <1>2, JudgeEndsWait DEF OverBudget, Fits, InCall
  <2> QED BY <2>1 DEF AskedOnce, Stands
<1>3. CASE CacheHit
  <2>1. /\ cache' = cache /\ setup' = setup /\ ~InCall'
        /\ taken' = Append(taken, cache[Block.payload])
    BY <1>3, JudgeEndsWait DEF CacheHit, Judge, InCall
  <2>2. taken'[Len(taken')] = cache[Block.payload]
    BY <2>1, AppendFacts DEF OwnInv
  <2> QED BY <2>1, <2>2 DEF AskedOnce, Stands
<1>4. CASE Preview \/ Body
  <2>1. PICK phase \in {"preview", "body"} : Call(phase)
    BY <1>4 DEF Preview, Body
  <2>2. Block.payload \in Payloads
    BY <1>4, BlockInHand DEF Preview, Body, InCall, OwnInv
  <2>3. cache[Block.payload] = None
    BY <1>4, <2>2 DEF Preview, Body, Hit, InCall, AskedOnce
  <2> QED BY <2>1, <2>2, <2>3, CallStands
<1>5. CASE Receive \/ Closed \/ Deadline
  <2>1. Block.payload \in Payloads /\ cache[Block.payload] = None
    BY <1>5 DEF Receive, Closed, Deadline, InCall, OwnInv, AskedOnce
  <2> QED
    BY <1>5, <2>1, SettleStands DEF Receive, Closed, Deadline
<1>6. CASE Finish \/ \E m \in Messages : Begin(m)
  <2>1. /\ cache' = cache /\ setup' = setup /\ ~InCall' /\ (taken' = taken \/ taken' = <<>>)
    BY <1>6 DEF Finish, Begin, InCall, Awaiting
  <2>2. Len(taken') # Len(taken) + 1
    BY <2>1, SeqFacts, EmptyIsSeq DEF OwnInv
  <2> QED BY <2>1, <2>2 DEF AskedOnce, Stands
<1>7. CASE Read \/ Leave \/ \E says \in Sayings : Answer(says)
  <2>1. /\ cache' = cache /\ setup' = setup /\ taken' = taken /\ pc' = pc /\ at' = at
        /\ original' = original
    BY <1>7 DEF Read, Leave, Answer, scanVars
  <2>2. InCall' = InCall /\ Block' = Block /\ Len(taken') # Len(taken) + 1
    BY <2>1, SeqFacts DEF OwnInv, InCall, Awaiting, Block, Blocks
  <2> QED BY <2>1, <2>2 DEF AskedOnce, Stands
<1>8. CASE Escalate
  <2>1. /\ UNCHANGED <<cache, setup, taken, at, original>> /\ Awaiting
    BY <1>8 DEF Escalate
  <2>2. InCall /\ Block' = Block /\ Len(taken') # Len(taken) + 1
    BY <2>1, SeqFacts DEF OwnInv, InCall, Block, Blocks
  <2> QED BY <2>1, <2>2 DEF AskedOnce, Stands
<1> QED BY <1>1, <1>2, <1>3, <1>4, <1>5, <1>6, <1>7, <1>8 DEF Next, Scan

\* What the cache holds for a payload is never replaced, and every later scan of the
\* payload takes it (VerdictCache; CalloutClient::scan asks only on a miss).
THEOREM CachedVerdictsStand == Spec => CachedVerdictStands
<1>1. OwnInv /\ AskedOnce /\ [Next]_vars => AskedOnce' /\ [Stands]_vars
  <2>1. CASE UNCHANGED vars
    <3>1. OwnInv /\ AskedOnce => AskedOnce'
      BY <2>1 DEF vars, scanVars, AskedOnce, InCall, Awaiting, Block, Blocks
    <3> QED BY <2>1, <3>1
  <2> QED BY <2>1, AskedNext
<1> QED
  BY <1>1, AskedInit, OwnInit, OwnNext, ReadsInit, ReadsNext, PTL
  DEF Spec, CachedVerdictStands, Stands
-------------------------------------------------------------------------------
\* Rewrites in their places.

Formed(m, of) ==
  /\ m = [a \in Arrays |-> m[a]]
  /\ \A a \in Arrays :
       /\ m[a] = [k \in DOMAIN of[a] |-> m[a][k]]
       /\ \A k \in DOMAIN of[a] : m[a][k] = [type |-> m[a][k].type, data |-> m[a][k].data]

LEMMA MessageFormed ==
  ASSUME NEW m \in Messages PROVE Formed(m, m)
<1>1. /\ m = [a \in Arrays |-> m[a]]
      /\ \A a \in Arrays :
           m[a] \in Seq({[type |-> m[a][i].type, data |-> m[a][i].data] : i \in DOMAIN m[a]})
  BY MessagesAssumption DEF Arrays
<1>2. ASSUME NEW a \in Arrays
      PROVE  /\ m[a] = [k \in DOMAIN m[a] |-> m[a][k]]
             /\ \A k \in DOMAIN m[a] : m[a][k] = [type |-> m[a][k].type, data |-> m[a][k].data]
  <2> DEFINE Items == {[type |-> m[a][i].type, data |-> m[a][i].data] : i \in DOMAIN m[a]}
  <2>1. m[a] \in Seq(Items)
    BY <1>1
  <2>2. ASSUME NEW k \in DOMAIN m[a]
        PROVE  m[a][k] = [type |-> m[a][k].type, data |-> m[a][k].data]
    <3>1. m[a][k] \in Items
      BY <2>1, ElementIn
    <3> QED BY <3>1
  <2> HIDE DEF Items
  <2>3. m[a] = [k \in DOMAIN m[a] |-> m[a][k]]
    BY <2>1
  <2> QED BY <2>2, <2>3
<1> QED BY <1>1, <1>2 DEF Formed

\* One rewrite changes the item at its place and no other.
LEMMA MutationFacts ==
  ASSUME NEW m, NEW of, Formed(m, of), NEW block, NEW content, NEW result,
         result = apply_mutation(m, block, content),
         block.path.array \in Arrays, block.path.index \in DOMAIN of[block.path.array]
  PROVE  /\ Formed(result, of)
         /\ result[block.path.array][block.path.index].data = Written(block, content)
         /\ \A a \in Arrays : \A k \in DOMAIN of[a] :
              a # block.path.array \/ k # block.path.index => result[a][k].data = m[a][k].data
<1> DEFINE a == block.path.array
           k == block.path.index
           written == Written(block, content)
           item == [m[a][k] EXCEPT !.data = written]
           items == [m[a] EXCEPT ![k] = item]
<1>0. a \in Arrays /\ k \in DOMAIN of[a]
  OBVIOUS
<1> HIDE DEF written
<1>1. /\ m[a][k] = [type |-> m[a][k].type, data |-> m[a][k].data]
      /\ m[a] = [j \in DOMAIN of[a] |-> m[a][j]]
      /\ m = [b \in Arrays |-> m[b]]
  BY <1>0 DEF Formed
<1>2. item.data = written /\ item = [type |-> item.type, data |-> item.data]
  BY <1>1
<1>3. result = [m EXCEPT ![a] = items]
  BY DEF apply_mutation, written
<1> HIDE DEF item, written
<1>4. /\ items = [j \in DOMAIN of[a] |-> items[j]] /\ items[k] = item
      /\ \A j \in DOMAIN of[a] : j # k => items[j] = m[a][j]
  BY <1>0, <1>1
<1> HIDE DEF items
<1>5. /\ result = [b \in Arrays |-> result[b]] /\ result[a] = items
      /\ \A b \in Arrays : b # a => result[b] = m[b]
  BY <1>0, <1>1, <1>3
<1>6. Formed(result, of)
  <2>1. ASSUME NEW b \in Arrays
        PROVE  /\ result[b] = [j \in DOMAIN of[b] |-> result[b][j]]
               /\ \A j \in DOMAIN of[b] :
                    result[b][j] = [type |-> result[b][j].type, data |-> result[b][j].data]
    <3>1. CASE b # a
      BY <1>5, <3>1 DEF Formed
    <3>2. CASE b = a
      <4>1. result[b] = [j \in DOMAIN of[b] |-> result[b][j]]
        BY <1>4, <1>5, <3>2
      <4>2. ASSUME NEW j \in DOMAIN of[a]
            PROVE  items[j] = [type |-> items[j].type, data |-> items[j].data]
        <5>1. CASE j = k
          BY <1>2, <1>4, <5>1
        <5>2. CASE j # k
          <6>1. m[a][j] = [type |-> m[a][j].type, data |-> m[a][j].data]
            BY <1>0 DEF Formed
          <6>2. items[j] = m[a][j]
            BY <1>4, <5>2
          <6> QED BY <6>1, <6>2
        <5> QED BY <5>1, <5>2
      <4> QED BY <1>5, <3>2, <4>1, <4>2
    <3> QED BY <3>1, <3>2
  <2> QED BY <1>5, <2>1 DEF Formed
<1>7. result[a][k].data = written
  BY <1>2, <1>4, <1>5
<1>8. ASSUME NEW b \in Arrays, NEW j \in DOMAIN of[b], b # a \/ j # k
      PROVE  result[b][j].data = m[b][j].data
  <2>1. CASE b # a
    BY <1>5, <2>1
  <2>2. CASE b = a /\ j # k
    BY <1>4, <1>5, <2>2
  <2> QED BY <1>8, <2>1, <2>2
<1> QED BY <1>6, <1>7, <1>8 DEF written

\* A verdict of a service or of the failure policy.
Fine(v) == v \in Verdicts /\ (v.content # None => v.kind = "mutate")

LEMMA FailedFine == Fine(Failed)
  BY DEF Fine, Verdicts, Failed, Verdict, resolve_failure, Terminal

LEMMA SayingsAre ==
  ASSUME NEW s \in Sayings
  PROVE  /\ s.verdict \in Terminal \cup {"continue", "garbage"} /\ s.notes \subseteq {"icap", "dlp"}
         /\ s.content \in {Clean, Bytes, Undecodable, None}
<1>1. CASE s \in {icap_to_callout(r) : r \in Icap}
  <2>1. PICK r \in Icap : s = icap_to_callout(r)
    BY <1>1
  <2>2. r.modified \in {Clean, Bytes, Undecodable, None} /\ r.threat \in BOOLEAN
    BY DEF Icap
  <2>3. \/ s = Says("quarantine", None, {}) \/ s = Says("allow", None, {})
        \/ s = Says("mutate", r.modified, {"icap"}) \/ s = Says("deny", None, {})
    BY <2>1, <2>2 DEF icap_to_callout
  <2> QED BY <2>2, <2>3 DEF Says, Terminal
<1>2. CASE s \in {Says("annotate", None, {"dlp"}), Says("continue", None, {}), Garbage}
  BY <1>2 DEF Says, Garbage, Terminal
<1> QED BY <1>1, <1>2 DEF Sayings

LEMMA SaidFine ==
  ASSUME NEW a, a.about \in Payloads, a.says \in Sayings
  PROVE  Fine(parse_verdict(a))
<1> DEFINE s == a.says
<1>1. /\ s.verdict \in Terminal \cup {"continue", "garbage"} /\ s.notes \subseteq {"icap", "dlp"}
      /\ s.content \in {Clean, Bytes, Undecodable, None}
  BY SayingsAre
<1> HIDE DEF s
<1>2. CASE s.verdict \notin Terminal \cup {"continue"}
  <2>1. parse_verdict(a) = Failed
    BY <1>2 DEF parse_verdict, s, Terminal
  <2> QED BY <2>1, FailedFine
<1>3. CASE s.verdict = "mutate"
  <2> DEFINE content == IF s.content = Undecodable THEN None ELSE s.content
  <2>1. parse_verdict(a) = Verdict("mutate", content, s.notes, a.about)
    BY <1>3 DEF parse_verdict, s, Terminal
  <2>2. content \in {Clean, Bytes, None}
    BY <1>1
  <2> HIDE DEF content
  <2> QED BY <1>1, <2>1, <2>2 DEF Fine, Verdicts, Verdict, Terminal
<1>4. CASE s.verdict \in Terminal \cup {"continue"} /\ s.verdict # "mutate"
  <2>1. parse_verdict(a) = Verdict(s.verdict, None, s.notes, a.about)
    BY <1>4 DEF parse_verdict, s
  <2> QED BY <1>1, <1>4, <2>1 DEF Fine, Verdicts, Verdict
<1> QED BY <1>2, <1>3, <1>4

\* What the working copy carries of the verdicts so far.
Rewrites(v) == v # None /\ v.content # None
InPlace(m, block) == m[block.path.array][block.path.index].data
Untouched(a, k, t, bs) == \A i \in 1..Len(t) : Rewrites(t[i]) => bs[i].path # Path(a, k)
Notes(t) == UNION {t[i].notes : i \in {j \in DOMAIN t : t[j] # None}}

Carries ==
  /\ Formed(working, original)
  /\ \A i \in 1..Len(taken) :
       Rewrites(taken[i]) => InPlace(working, Blocks[i]) = Written(Blocks[i], taken[i].content)
  /\ \A a \in Arrays : \A k \in DOMAIN original[a] :
       Untouched(a, k, taken, Blocks) => working[a][k].data = original[a][k].data
  /\ provenance = Notes(taken)

\* Over OwnInv and VettedInv.
CarryInv ==
  /\ Scanning \/ outcome = "forward" => Carries
  /\ Scanning => Len(taken) <= Len(Blocks)
  /\ outcome = "forward" => original \in Messages /\ 1..Len(taken) = DOMAIN Blocks
  /\ \A p \in Payloads : cache[p] # None => Fine(cache[p])
  /\ \A i \in 1..Len(answers) : answers[i].says \in Sayings

LEMMA CarrySuffices == OwnInv /\ CarryInv => ForwardCarriesVerdicts
<1> SUFFICES ASSUME OwnInv, CarryInv, outcome = "forward" PROVE ForwardCarriesVerdicts
  BY DEF ForwardCarriesVerdicts
<1>1. Carries /\ original \in Messages /\ DOMAIN Blocks = 1..Len(taken)
  BY DEF CarryInv
<1>2. provenance = UNION {taken[i].notes : i \in {j \in DOMAIN taken : taken[j] # None}}
  BY <1>1 DEF Carries, Notes
<1>3. ASSUME NEW a \in Arrays, NEW k \in DOMAIN original[a], NEW judged,
             judged = {i \in DOMAIN Blocks : Blocks[i].path = Path(a, k) /\ taken[i] # None
                                             /\ taken[i].content # None}
      PROVE  working[a][k].data = IF judged = {} THEN original[a][k].data
                                  ELSE LET i == CHOOSE i \in judged : TRUE
                                       IN  Written(Blocks[i], taken[i].content)
  <2>1. CASE judged = {}
    <3>1. Untouched(a, k, taken, Blocks)
      BY <1>1, <1>3, <2>1 DEF Untouched, Rewrites
    <3> QED BY <1>1, <2>1, <3>1 DEF Carries
  <2>2. CASE judged # {}
    <3>1. PICK i \in judged : i = CHOOSE x \in judged : TRUE
      BY <2>2
    <3>2. i \in 1..Len(taken) /\ Rewrites(taken[i]) /\ Blocks[i].path = Path(a, k)
      BY <1>1, <1>3, <3>1 DEF Rewrites
    <3>3. InPlace(working, Blocks[i]) = Written(Blocks[i], taken[i].content)
      BY <1>1, <3>2 DEF Carries
    <3>4. InPlace(working, Blocks[i]) = working[a][k].data
      BY <3>2 DEF InPlace, Path
    <3> QED BY <2>2, <3>1, <3>3, <3>4
  <2> QED BY <2>1, <2>2
<1> QED BY <1>2, <1>3 DEF ForwardCarriesVerdicts, Arrays

LEMMA CarryInit == Init => CarryInv
<1> SUFFICES ASSUME Init PROVE CarryInv
  OBVIOUS
<1>1. ~Scanning /\ outcome = "none" /\ Len(answers) = 0 /\ \A p \in Payloads : cache[p] = None
  BY DEF Init, Scanning, Awaiting
<1> QED BY <1>1 DEF CarryInv

\* The notes of one verdict more, or of a block passed over.
LEMMA NotesGrow ==
  ASSUME NEW t, NEW v, IsSeq(t)
  PROVE  /\ v = None => Notes(Append(t, v)) = Notes(t)
         /\ v # None => Notes(Append(t, v)) = Notes(t) \cup v.notes
<1> DEFINE n == Len(t)
           u == Append(t, v)
<1>1. /\ n \in Nat /\ DOMAIN t = 1..n /\ DOMAIN u = 1..(n + 1) /\ u[n + 1] = v
      /\ \A i \in 1..n : u[i] = t[i]
  BY AppendFacts, SeqFacts
<1> HIDE DEF n, u
<1>2. DOMAIN u = DOMAIN t \cup {n + 1} /\ n + 1 \notin DOMAIN t
  BY <1>1
<1>3. CASE v = None
  <2>1. {j \in DOMAIN u : u[j] # None} = {j \in DOMAIN t : t[j] # None}
    BY <1>1, <1>2, <1>3
  <2> QED BY <1>1, <1>3, <2>1 DEF Notes, u
<1>4. CASE v # None
  <2>1. {j \in DOMAIN u : u[j] # None} = {j \in DOMAIN t : t[j] # None} \cup {n + 1}
    BY <1>1, <1>2, <1>4
  <2>2. Notes(u) = Notes(t) \cup v.notes
    BY <1>1, <2>1 DEF Notes
  <2> QED BY <1>4, <2>2 DEF u
<1> QED BY <1>3, <1>4

\* The paths of the blocks of a message under scan.
LEMMA PathsOfBlocks ==
  ASSUME original \in Messages, NEW i \in DOMAIN Blocks
  PROVE  /\ Blocks[i].path.array \in Arrays /\ Blocks[i].path.index \in DOMAIN original[Blocks[i].path.array]
         /\ Blocks[i].path = Path(Blocks[i].path.array, Blocks[i].path.index)
         /\ \A j \in DOMAIN Blocks : Blocks[j].path = Blocks[i].path => j = i
         /\ DOMAIN Blocks = 1..Len(Blocks) /\ Len(Blocks) \in Nat
<1>1. Blocks \in Seq(BlockSet)
  BY BlocksFacts DEF Blocks
<1>2. Blocks[i] \in BlockSet
  BY <1>1, ElementIn
<1>3. /\ Blocks[i].path.index \in DOMAIN original[Blocks[i].path.array]
      /\ \A j \in DOMAIN Blocks : Blocks[j].path = Blocks[i].path => j = i
  BY BlocksFacts DEF Blocks
<1>4. Blocks[i].path \in [array: Arrays, index: Nat]
  BY <1>2 DEF BlockSet
<1>5. Blocks[i].path = Path(Blocks[i].path.array, Blocks[i].path.index)
  BY <1>4 DEF Path
<1> QED BY <1>1, <1>3, <1>4, <1>5

\* A verdict that passes is carried, and what was carried stays.
LEMMA Carried ==
  ASSUME OwnInv, original \in Messages, Carries, NEW v, at \in DOMAIN Blocks, Len(taken) = at - 1,
         original' = original, taken' = Append(taken, v),
         v # None => Fine(v),
         v # None => provenance' = provenance \cup v.notes,
         v = None => provenance' = provenance,
         working' = IF v # None /\ v.kind = "mutate" /\ v.content # None
                    THEN apply_mutation(working, Block, v.content) ELSE working
  PROVE  Carries' /\ Len(taken') <= Len(Blocks) /\ Blocks' = Blocks
<1>0. /\ Blocks' = Blocks /\ Block = Blocks[at] /\ at \in 1..Len(Blocks) /\ Len(Blocks) \in Nat
      /\ IsSeq(taken)
  BY PathsOfBlocks DEF Blocks, Block, OwnInv
<1>1. /\ Len(taken') = at /\ taken'[at] = v /\ \A i \in 1..(at - 1) : taken'[i] = taken[i]
  BY <1>0, AppendFacts
<1>2. provenance' = Notes(taken')
  BY <1>0, NotesGrow DEF Carries
<1>3. Rewrites(v) <=> v # None /\ v.kind = "mutate" /\ v.content # None
  BY DEF Rewrites, Fine
<1>4. ASSUME NEW i \in 1..(at - 1) PROVE i \in DOMAIN Blocks /\ i \in 1..Len(taken) /\ i # at
  BY <1>0, PathsOfBlocks
<1>5. CASE ~Rewrites(v)
  <2>1. working' = working
    BY <1>3, <1>5
  <2>2. ASSUME NEW i \in 1..at, Rewrites(taken'[i])
        PROVE  InPlace(working, Blocks[i]) = Written(Blocks[i], taken'[i].content)
    <3>1. i \in 1..(at - 1)
      BY <1>0, <1>1, <1>5, <2>2
    <3> QED BY <1>1, <1>4, <2>2, <3>1 DEF Carries
  <2>3. ASSUME NEW a, NEW k, Untouched(a, k, taken', Blocks) PROVE Untouched(a, k, taken, Blocks)
    <3> SUFFICES ASSUME NEW i \in 1..Len(taken), Rewrites(taken[i]) PROVE Blocks[i].path # Path(a, k)
      BY DEF Untouched
    <3>1. i \in 1..(at - 1) /\ i \in 1..at /\ taken'[i] = taken[i]
      BY <1>0, <1>1
    <3> QED BY <1>0, <1>1, <2>3, <3>1 DEF Untouched
  <2> QED BY <1>0, <1>1, <1>2, <2>1, <2>2, <2>3 DEF Carries
<1>6. CASE Rewrites(v)
  <2> DEFINE path == Blocks[at].path
  <2>1. /\ path.array \in Arrays /\ path.index \in DOMAIN original[path.array]
        /\ path = Path(path.array, path.index)
        /\ \A j \in DOMAIN Blocks : Blocks[j].path = path => j = at
    BY PathsOfBlocks
  <2>2. working' = apply_mutation(working, Blocks[at], v.content)
    BY <1>0, <1>3, <1>6
  <2>3. Formed(working, original)
    BY DEF Carries
  <2>4. /\ Formed(working', original) /\ working'[path.array][path.index].data = Written(Blocks[at], v.content)
        /\ \A a \in Arrays : \A k \in DOMAIN original[a] :
             a # path.array \/ k # path.index => working'[a][k].data = working[a][k].data
    BY <2>1, <2>2, <2>3, MutationFacts
  <2>5. ASSUME NEW i \in 1..at, Rewrites(taken'[i])
        PROVE  InPlace(working', Blocks[i]) = Written(Blocks[i], taken'[i].content)
    <3>1. CASE i = at
      BY <1>1, <2>4, <3>1 DEF InPlace
    <3>2. CASE i \in 1..(at - 1)
      <4>1. /\ Blocks[i].path.array \in Arrays
            /\ Blocks[i].path.index \in DOMAIN original[Blocks[i].path.array]
            /\ Blocks[i].path = Path(Blocks[i].path.array, Blocks[i].path.index)
            /\ Blocks[i].path # path
        BY <1>4, <2>1, <3>2, PathsOfBlocks
      <4>2. Blocks[i].path.array # path.array \/ Blocks[i].path.index # path.index
        BY <2>1, <4>1
      <4>3. InPlace(working', Blocks[i]) = InPlace(working, Blocks[i])
        BY <2>4, <4>1, <4>2 DEF InPlace
      <4>4. InPlace(working, Blocks[i]) = Written(Blocks[i], taken[i].content)
        BY <1>1, <1>4, <2>5, <3>2 DEF Carries
      <4> QED BY <1>1, <3>2, <4>3, <4>4
    <3> QED BY <1>0, <3>1, <3>2
  <2>6. ASSUME NEW a \in Arrays, NEW k \in DOMAIN original[a], Untouched(a, k, taken', Blocks)
        PROVE  working'[a][k].data = original[a][k].data
    <3>1. path # Path(a, k)
      BY <1>0, <1>1, <1>6, <2>6 DEF Untouched
    <3>2. a # path.array \/ k # path.index
      BY <2>1, <3>1
    <3>3. Untouched(a, k, taken, Blocks)
      <4> SUFFICES ASSUME NEW i \in 1..Len(taken), Rewrites(taken[i])
                   PROVE  Blocks[i].path # Path(a, k)
        BY DEF Untouched
      <4>1. i \in 1..(at - 1) /\ i \in 1..at /\ taken'[i] = taken[i]
        BY <1>0, <1>1
      <4> QED BY <1>0, <1>1, <2>6, <4>1 DEF Untouched
    <3> QED BY <2>4, <3>2, <3>3 DEF Carries
  <2> HIDE DEF path
  <2> QED BY <1>0, <1>1, <1>2, <2>4, <2>5, <2>6 DEF Carries
<1> QED BY <1>5, <1>6

\* Judging a verdict.
LEMMA JudgeCarries ==
  ASSUME OwnInv, VettedInv, CarryInv, Scanning, at \in DOMAIN Blocks, NEW v, Fine(v), Judge(v)
  PROVE  /\ Scanning' \/ outcome' = "forward" => Carries'
         /\ Scanning' => Len(taken') <= Len(Blocks')
         /\ outcome' # "forward"
<1>0. v # None /\ outcome = "none" /\ original' = original /\ taken' = Append(taken, v)
  BY VerdictAssumption DEF Fine, VettedInv, Judge
<1>1. CASE v.kind \in {"deny", "quarantine"}
  BY <1>1 DEF Judge, Scanning, Awaiting
<1>2. CASE v.kind \notin {"deny", "quarantine"}
  <2>1. /\ working' = IF v.kind = "mutate" /\ v.content # None
                      THEN apply_mutation(working, Block, v.content) ELSE working
        /\ provenance' = provenance \cup v.notes /\ outcome' = outcome
    BY <1>2 DEF Judge
  <2>2. original \in Messages /\ Len(taken) = at - 1 /\ Carries
    BY DEF OwnInv, CarryInv
  <2> QED BY <1>0, <2>1, <2>2, Carried
<1> QED BY <1>1, <1>2

\* With the cache.
LEMMA SettleCarries ==
  ASSUME OwnInv, VettedInv, CarryInv, Scanning, at \in DOMAIN Blocks, NEW v, Fine(v), Settle(v),
         Block.payload \in Payloads, \A i \in 1..Len(answers') : answers'[i].says \in Sayings
  PROVE  CarryInv'
<1>1. Judge(v) /\ cache' \in {cache, [cache EXCEPT ![Block.payload] = v]}
  BY DEF Settle
<1>2. ASSUME NEW p \in Payloads, cache'[p] # None PROVE Fine(cache'[p])
  <2>1. cache'[p] = cache[p] \/ cache'[p] = v
    BY <1>1 DEF OwnInv
  <2> QED BY <1>2, <2>1 DEF CarryInv
<1> QED BY <1>1, <1>2, JudgeCarries DEF CarryInv

LEMMA CallCarries ==
  ASSUME OwnInv, VettedInv, CarryInv, NEW phase \in {"preview", "body"}, Call(phase), Scanning,
         at \in DOMAIN Blocks, Block.payload \in Payloads
  PROVE  CarryInv'
<1>1. CASE Send(phase)
  <2>1. /\ UNCHANGED <<original, working, provenance, outcome, taken, cache, answers>>
        /\ outcome = "none"
    BY <1>1 DEF Call, Send, VettedInv
  <2>2. Blocks' = Blocks /\ (Carries' <=> Carries)
    BY <2>1 DEF Blocks, Carries, Untouched
  <2> QED BY <2>1, <2>2 DEF CarryInv
<1>2. CASE SendFails
  BY <1>2, FailedFine, SettleCarries DEF Call, SendFails, CarryInv
<1> QED BY <1>1, <1>2 DEF Call

LEMMA CarryScan ==
  ASSUME OwnInv, VettedInv, CarryInv, Scan
  PROVE  CarryInv'
<1> USE DEF streamVars
<1>1. CASE Skip
  <2>1. /\ Scanning /\ outcome = "none" /\ original \in Messages /\ Len(taken) = at - 1
        /\ UNCHANGED <<cache, answers, original, working, provenance, outcome>>
        /\ taken' = Append(taken, None) /\ Carries /\ at \in Nat \ {0} /\ at <= Len(Blocks)
    BY <1>1 DEF Skip, Scanning, OwnInv, VettedInv, CarryInv
  <2>2. at \in DOMAIN Blocks
    BY <2>1, BlocksFacts DEF Blocks
  <2>3. Carries' /\ Len(taken') <= Len(Blocks) /\ Blocks' = Blocks
    BY <2>1, <2>2, Carried
  <2> QED BY <2>1, <2>3 DEF CarryInv
<1>2. CASE OverBudget \/ CacheHit
  <2>1. Scannable /\ Scanning /\ UNCHANGED <<cache, answers>>
    BY <1>2 DEF OverBudget, CacheHit, Scannable, Scanning
  <2>2. at \in DOMAIN Blocks /\ Block.payload \in Payloads
    BY <2>1, BlockInHand
  <2>3. PICK v : Judge(v) /\ Fine(v)
    <3>1. CASE OverBudget
      BY <3>1, FailedFine DEF OverBudget
    <3>2. CASE CacheHit
      BY <2>2, <3>2 DEF CacheHit, Hit, CarryInv
    <3> QED BY <1>2, <3>1, <3>2
  <2> QED BY <2>1, <2>2, <2>3, JudgeCarries DEF CarryInv
<1>3. CASE Preview \/ Body
  <2>1. PICK phase \in {"preview", "body"} : Call(phase)
    BY <1>3 DEF Preview, Body
  <2>2. Scanning
    BY <1>3 DEF Preview, Body, Scannable, Scanning
  <2>3. at \in DOMAIN Blocks /\ Block.payload \in Payloads
    BY <1>3, BlockInHand DEF Preview, Body, InCall, OwnInv
  <2> QED BY <2>1, <2>2, <2>3, CallCarries
<1>4. CASE Receive \/ Escalate
  <2>1. /\ Scanning /\ Block.payload \in Payloads /\ at \in DOMAIN Blocks
        /\ answers # <<>> /\ answers' = Tail(answers)
    BY <1>4 DEF Receive, Escalate, Scanning, InCall, OwnInv
  <2>2. /\ Head(answers) = answers[1] /\ Len(answers) \in Nat \ {0}
        /\ Len(answers') = Len(answers) - 1
        /\ \A i \in 1..Len(answers') : answers'[i] = answers[i + 1]
    BY <2>1, TailFacts DEF OwnInv
  <2>3. /\ \A i \in 1..Len(answers') : answers'[i].says \in Sayings
        /\ Head(answers).says \in Sayings /\ Head(answers).about \in Payloads
    BY <2>2 DEF CarryInv, VettedInv
  <2>4. CASE Receive
    <3>1. Fine(Said) /\ Settle(Said)
      BY <2>3, <2>4, SaidFine DEF Said, Receive
    <3> QED BY <2>1, <2>3, <3>1, SettleCarries
  <2>5. CASE Escalate
    <3>1. UNCHANGED <<original, working, provenance, outcome, taken, cache>> /\ outcome = "none"
      BY <2>1, <2>5 DEF Escalate, VettedInv
    <3>2. Blocks' = Blocks /\ (Carries' <=> Carries)
      BY <3>1 DEF Blocks, Carries, Untouched
    <3> QED BY <2>1, <2>3, <3>1, <3>2 DEF CarryInv
  <2> QED BY <1>4, <2>4, <2>5
<1>5. CASE Closed
  <2>1. Scanning /\ Block.payload \in Payloads /\ at \in DOMAIN Blocks /\ answers' = answers
    BY <1>5 DEF Closed, Scanning, InCall, OwnInv
  <2> QED BY <1>5, <2>1, FailedFine, SettleCarries DEF Closed, CarryInv
<1>6. CASE Finish
  <2>1. /\ Scanning /\ ~Scanning' /\ outcome' = "forward" /\ at > Len(Blocks)
        /\ UNCHANGED <<taken, cache, answers, original, working, provenance>>
    BY <1>6 DEF Finish, Scanning, Awaiting
  <2>2. Blocks' = Blocks /\ (Carries' <=> Carries)
    BY <2>1 DEF Blocks, Carries, Untouched
  <2>3. DOMAIN Blocks = 1..Len(Blocks) /\ Len(Blocks) \in Nat /\ original \in Messages
    BY <2>1, BlocksFacts DEF OwnInv, Blocks
  <2>4. Len(taken) = Len(Blocks)
    BY <2>1, <2>3 DEF OwnInv, CarryInv
  <2> QED BY <2>1, <2>2, <2>3, <2>4 DEF CarryInv
<1> QED BY <1>1, <1>2, <1>3, <1>4, <1>5, <1>6 DEF Scan

LEMMA CarryNext ==
  ASSUME OwnInv, VettedInv, CarryInv, [Next]_vars
  PROVE  CarryInv'
<1> USE DEF streamVars
<1>1. CASE Scan
  BY <1>1, CarryScan
<1>2. CASE \E m \in Messages : Begin(m)
  <2>1. PICK m \in Messages : Begin(m)
    BY <1>2
  <2>2. /\ original' = m /\ working' = m /\ taken' = <<>> /\ provenance' = {} /\ outcome' = "none"
        /\ UNCHANGED <<cache, answers>>
    BY <2>1 DEF Begin
  <2>3. Formed(m, m) /\ Len(taken') = 0 /\ Notes(taken') = {}
    BY <2>2, MessageFormed DEF Notes
  <2>4. Carries'
    BY <2>2, <2>3 DEF Carries
  <2>5. Len(Blocks') \in Nat
    BY <2>2, BlocksFacts DEF Blocks
  <2> QED BY <2>2, <2>3, <2>4, <2>5 DEF CarryInv
<1>3. CASE Deadline
  <2>1. Scanning /\ Block.payload \in Payloads /\ at \in DOMAIN Blocks /\ answers' = answers
    BY <1>3 DEF Deadline, Scanning, InCall, OwnInv
  <2> QED BY <1>3, <2>1, FailedFine, SettleCarries DEF Deadline, CarryInv
<1>4. ASSUME UNCHANGED <<cache, scanVars>>, \A i \in 1..Len(answers') : answers'[i].says \in Sayings
      PROVE  CarryInv'
  <2>1. UNCHANGED <<original, working, provenance, outcome, taken>>
    BY <1>4 DEF scanVars
  <2>2. Blocks' = Blocks /\ (Carries' <=> Carries) /\ (Scanning' <=> Scanning)
    BY <1>4, <2>1 DEF scanVars, Blocks, Carries, Untouched, Scanning, Awaiting
  <2> QED BY <1>4, <2>1, <2>2 DEF CarryInv
<1>5. CASE Read \/ Leave \/ UNCHANGED vars
  <2>1. UNCHANGED <<cache, scanVars, answers>>
    BY <1>5 DEF Read, Leave, vars
  <2> QED BY <1>4, <2>1 DEF CarryInv
<1>6. CASE \E says \in Sayings : Answer(says)
  <2>1. PICK says \in Sayings : Answer(says)
    BY <1>6
  <2> DEFINE said == IF Head(requests).torn THEN Garbage ELSE says
             a == [about |-> Head(requests).about, says |-> said]
  <2>2. answers' = Append(answers, a) /\ UNCHANGED <<cache, scanVars>>
    BY <2>1 DEF Answer
  <2>3. Garbage \in Sayings
    BY DEF Sayings
  <2>4. a.says \in Sayings
    BY <2>3
  <2> HIDE DEF a
  <2>5. \A i \in 1..Len(answers') : answers'[i].says \in Sayings
    BY <2>2, <2>4, AppendFacts, SeqFacts DEF OwnInv, CarryInv
  <2> QED BY <1>4, <2>2, <2>5
<1> QED BY <1>1, <1>2, <1>3, <1>5, <1>6 DEF Next

\* A forwarded message has exactly the rewrites of its blocks' verdicts, each in its own
\* place, and the notes of all of them, for any messages and any service (ContentScanner
\* applies them one after the other to a working copy, at paths taken from the original).
THEOREM RewritesAreCarried == Spec => []ForwardCarriesVerdicts
<1> DEFINE I == OwnInv /\ ReadsInv /\ VettedInv /\ CarryInv
<1>1. Init => I
  BY OwnInit, ReadsInit, VettedInit, CarryInit
<1>2. I /\ [Next]_vars => I'
  BY OwnNext, ReadsNext, VettedNext, CarryNext
<1>3. I => ForwardCarriesVerdicts
  BY CarrySuffices
<1> HIDE DEF I
<1> QED BY <1>1, <1>2, <1>3, PTL DEF Spec
===============================================================================
