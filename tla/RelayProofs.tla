------------------------------ MODULE RelayProofs -------------------------------
(***************************************************************************)
(* What holds of Pumps for every set of kinds, any number of messages and  *)
(* any capacity: each direction implements Stream, and no refusal is       *)
(* silent.  What holds of StatelessProxy for any backends, any requests    *)
(* and any number of lines nobody asked for.                               *)
(***************************************************************************)
EXTENDS Pumps, StatelessProxy, FiniteSetTheorems, TLAPS

-------------------------------------------------------------------------------
\* Pumps: the invariant, in three parts.

PumpLine == [kind: {"plain", "initialize", "blocked", "garbled"}, rank: Nat]
PumpStates == {"reading", "writing", "refusing", "done"}

Types ==
  /\ mode \in Modes
  /\ sent \in [Directions -> Seq(PumpLine)] /\ passing \in [Directions -> Seq(PumpLine)]
  /\ delivered \in [Directions -> Seq(PumpLine)]
  /\ read \in [Directions -> Nat] /\ pump \in [Directions -> PumpStates]
  /\ open \in [Directions -> BOOLEAN] /\ ended \in [Directions -> BOOLEAN]

\* The rank of a message is its place among those that pass.
Ranked(d) ==
  /\ Rank(d, Len(sent[d])) = Len(passing[d])
  /\ \A i \in 1..Len(sent[d]) :
       /\ sent[d][i].rank <= Len(passing[d])
       /\ i <= Consumed(d) => sent[d][i].rank = 0
       /\ Passes(d, i, sent[d][i].kind) =>
            /\ sent[d][i].rank = Rank(d, i - 1) + 1
            /\ passing[d][sent[d][i].rank] = sent[d][i]
       /\ ~Passes(d, i, sent[d][i].kind) => sent[d][i].rank = Rank(d, i - 1)

\* What was read and passes has been written, but for the message in hand.
WrittenInOrder(d) ==
  /\ read[d] <= Len(sent[d])
  /\ ended[d] <=> pump[d] = "done"
  /\ pump[d] = "writing" => read[d] > 0 /\ Passes(d, read[d], sent[d][read[d]].kind)
  /\ phase # "failed" =>
       Rank(d, read[d]) = Len(delivered[d]) + (IF pump[d] = "writing" THEN 1 ELSE 0)
  /\ Len(delivered[d]) <= Len(passing[d])
  /\ \A i \in 1..Len(delivered[d]) : delivered[d][i] = passing[d][i]

\* How far the handshake has read.
Greeted ==
  /\ phase \in {"hello", "asking", "confirm"} =>
       mode = "forward" /\ \A d \in Directions : pump[d] = "reading"
  /\ phase = "hello" => read["up"] = 0 /\ read["down"] = 0
  /\ phase = "asking" => read["up"] = 1 /\ read["down"] = 0
  /\ phase = "confirm" => read["up"] = 1 /\ read["down"] = 1
  /\ phase = "pumping" /\ mode = "forward" =>
       read["down"] >= 1 /\ (read["up"] >= 2 \/ AtEnd("up"))

PumpsInv ==
  /\ Types /\ Greeted
  /\ \A d \in Directions : Ranked(d) /\ WrittenInOrder(d)

LEMMA InvInit == Init => PumpsInv
<1> SUFFICES ASSUME Init PROVE PumpsInv
  OBVIOUS
<1>1. Types
  BY PumpsAssumption DEF Init, Types, PumpStates
<1>2. \A d \in Directions : Len(sent[d]) = 0 /\ Len(delivered[d]) = 0 /\ Len(passing[d]) = 0
  BY DEF Init
<1>3. \A d \in Directions : Ranked(d) /\ WrittenInOrder(d)
  BY <1>2 DEF Init, Ranked, WrittenInOrder, Rank
<1>4. Greeted
  BY DEF Init, Greeted, Directions
<1> QED BY <1>1, <1>3, <1>4 DEF PumpsInv

-------------------------------------------------------------------------------
\* Steps of a stream.

Sending(d) ==
  /\ open[d] /\ Len(passing'[d]) = Len(passing[d]) + 1
  /\ SubSeq(passing'[d], 1, Len(passing[d])) = passing[d]
  /\ UNCHANGED <<delivered[d], open[d], ended[d], phase>>
Closing(d) ==
  /\ open[d] /\ open'[d] = FALSE /\ UNCHANGED <<passing[d], delivered[d], ended[d], phase>>
Delivering(d) ==
  /\ ~ended[d] /\ phase # "failed" /\ Len(delivered[d]) < Len(passing[d])
  /\ delivered'[d] = Append(delivered[d], passing[d][Len(delivered[d]) + 1])
  /\ UNCHANGED <<passing[d], open[d], ended[d], phase>>
Ending(d) ==
  /\ ~open[d] /\ ~ended[d] /\ phase # "failed" /\ delivered[d] = passing[d]
  /\ ended'[d] = TRUE /\ UNCHANGED <<passing[d], delivered[d], open[d], phase>>
Resting(d) ==
  /\ UNCHANGED <<passing[d], delivered[d], open[d], ended[d]>>
  /\ phase' = "failed" \/ (phase # "failed" /\ phase' # "failed")
Streaming(d) == Sending(d) \/ Closing(d) \/ Delivering(d) \/ Ending(d) \/ Resting(d)

-------------------------------------------------------------------------------
\* What a step leaves alone.

Still(d) ==
  /\ mode' = mode /\ sent'[d] = sent[d] /\ passing'[d] = passing[d] /\ read'[d] = read[d]
  /\ pump'[d] = pump[d] /\ delivered'[d] = delivered[d] /\ ended'[d] = ended[d]
  /\ phase' # "failed" => phase # "failed"

LEMMA RankedStays ==
  ASSUME NEW d \in Directions, Ranked(d), mode' = mode,
         sent'[d] = sent[d], passing'[d] = passing[d]
  PROVE  Ranked(d)'
<1>1. \A i : Rank(d, i)' = Rank(d, i)
  BY DEF Rank
<1>2. \A i, k : Passes(d, i, k)' = Passes(d, i, k)
  BY DEF Passes, Policed, Consumed
<1>3. Consumed(d)' = Consumed(d)
  BY DEF Consumed
<1> QED BY <1>1, <1>2, <1>3 DEF Ranked

LEMMA StillWritten ==
  ASSUME NEW d \in Directions, WrittenInOrder(d), Still(d)
  PROVE  WrittenInOrder(d)'
<1>1. \A i : Rank(d, i)' = Rank(d, i)
  BY DEF Rank, Still
<1>2. \A i, k : Passes(d, i, k)' = Passes(d, i, k)
  BY DEF Passes, Policed, Consumed, Still
<1> QED BY <1>1, <1>2 DEF WrittenInOrder, Still

\* A message that is appended.
LEMMA Appended ==
  ASSUME NEW S, NEW s \in Seq(S), NEW e \in S
  PROVE  /\ Append(s, e) \in Seq(S) /\ Len(Append(s, e)) = Len(s) + 1
         /\ Append(s, e)[Len(s) + 1] = e
         /\ \A i \in 1..Len(s) : Append(s, e)[i] = s[i]
         /\ SubSeq(Append(s, e), 1, Len(s)) = s
  OBVIOUS

LEMMA ElementIn == ASSUME NEW S, NEW s \in Seq(S), NEW i \in 1..Len(s) PROVE s[i] \in S
  OBVIOUS

LEMMA RankIsNat ==
  ASSUME Types, NEW d \in Directions, NEW i \in 0..Len(sent[d])
  PROVE  Rank(d, i) \in Nat
<1>1. CASE i = 0
  BY <1>1 DEF Rank
<1>2. CASE i \in 1..Len(sent[d])
  <2>1. sent[d][i] \in PumpLine
    BY <1>2, ElementIn DEF Types
  <2> QED BY <1>2, <2>1 DEF Rank, PumpLine
<1> QED BY <1>1, <1>2

\* A peer sends: the rank of the new message is right, and the stream has grown by it if
\* it passes.
LEMMA SendsStep ==
  ASSUME PumpsInv, NEW d \in Directions, NEW kind \in Kinds[mode][d], Sends(d, kind)
  PROVE  /\ sent'[d] \in Seq(PumpLine) /\ passing'[d] \in Seq(PumpLine)
         /\ Ranked(d)' /\ WrittenInOrder(d)' /\ (Sending(d) \/ Resting(d))
<1>0. PICK n : n = Len(sent[d])
  OBVIOUS
<1>1. /\ sent[d] \in Seq(PumpLine) /\ passing[d] \in Seq(PumpLine) /\ delivered[d] \in Seq(PumpLine)
      /\ n \in Nat /\ Len(passing[d]) \in Nat /\ Len(delivered[d]) \in Nat /\ read[d] \in Nat
      /\ Rank(d, n) = Len(passing[d]) /\ Ranked(d) /\ WrittenInOrder(d)
  <2>1. /\ sent[d] \in Seq(PumpLine) /\ passing[d] \in Seq(PumpLine) /\ delivered[d] \in Seq(PumpLine)
        /\ read[d] \in Nat
    BY DEF PumpsInv, Types
  <2>2. Ranked(d) /\ WrittenInOrder(d)
    BY DEF PumpsInv
  <2>3. Rank(d, n) = Len(passing[d])
    BY <1>0, <2>2 DEF Ranked
  <2> QED BY <1>0, <2>1, <2>2, <2>3
<1> DEFINE passes == Passes(d, n + 1, kind)
           rank == Rank(d, n) + (IF passes THEN 1 ELSE 0)
           message == [kind |-> kind, rank |-> rank]
<1>3. /\ sent'[d] = Append(sent[d], message)
      /\ passes => passing'[d] = Append(passing[d], message)
      /\ ~passes => passing'[d] = passing[d]
  <2>1. CASE passes
    BY <1>0, <2>1 DEF Sends, PumpsInv, Types
  <2>2. CASE ~passes
    BY <1>0, <2>2 DEF Sends, PumpsInv, Types
  <2> QED BY <2>1, <2>2
<1>4. /\ message.kind = kind /\ message.rank = rank
      /\ passes => rank = Len(passing[d]) + 1
      /\ ~passes => rank = Len(passing[d])
  <2>1. CASE passes
    BY <1>1, <2>1
  <2>2. CASE ~passes
    BY <1>1, <2>2
  <2> QED BY <2>1, <2>2
<1>2. message \in PumpLine
  <2>1. kind \in {"plain", "initialize", "blocked", "garbled"}
    <3>1. mode \in Modes
      BY DEF PumpsInv, Types
    <3>2. Kinds[mode] \in [{"up", "down"} -> SUBSET {"plain", "initialize", "blocked", "garbled"}]
      BY <3>1, PumpsAssumption
    <3> QED BY <3>2 DEF Directions
  <2>2. rank \in Nat
    <3>1. CASE passes
      BY <1>1, <1>4, <3>1
    <3>2. CASE ~passes
      BY <1>1, <1>4, <3>2
    <3> QED BY <3>1, <3>2
  <2> QED BY <2>1, <2>2 DEF PumpLine
<1>5. /\ mode' = mode /\ open' = open /\ delivered' = delivered /\ ended' = ended
      /\ read' = read /\ pump' = pump /\ phase' = phase /\ open[d]
  BY DEF Sends, pumpVars
<1>13. Passes(d, n + 1, kind) <=> passes
  OBVIOUS
<1> HIDE DEF message, passes, rank
<1>6. /\ sent'[d] \in Seq(PumpLine) /\ Len(sent'[d]) = n + 1 /\ sent'[d][n + 1] = message
      /\ \A i \in 1..n : sent'[d][i] = sent[d][i]
  <2>1. /\ Append(sent[d], message) \in Seq(PumpLine) /\ Len(Append(sent[d], message)) = n + 1
        /\ Append(sent[d], message)[n + 1] = message
        /\ \A i \in 1..n : Append(sent[d], message)[i] = sent[d][i]
    BY <1>0, <1>1, <1>2, Appended
  <2> QED BY <1>3, <2>1
<1>7. /\ passing'[d] \in Seq(PumpLine)
      /\ \A i \in 1..Len(passing[d]) : passing'[d][i] = passing[d][i]
      /\ passes => /\ Len(passing'[d]) = Len(passing[d]) + 1
                   /\ passing'[d][Len(passing[d]) + 1] = message
                   /\ SubSeq(passing'[d], 1, Len(passing[d])) = passing[d]
      /\ ~passes => passing'[d] = passing[d]
  <2>1. CASE passes
    <3> DEFINE grown == Append(passing[d], message)
    <3>1. /\ grown \in Seq(PumpLine) /\ Len(grown) = Len(passing[d]) + 1
          /\ grown[Len(passing[d]) + 1] = message
          /\ \A i \in 1..Len(passing[d]) : grown[i] = passing[d][i]
          /\ SubSeq(grown, 1, Len(passing[d])) = passing[d]
      BY <1>1, <1>2, Appended
    <3>2. passing'[d] = grown
      BY <1>3, <2>1
    <3> HIDE DEF grown
    <3> QED BY <2>1, <3>1, <3>2
  <2>2. CASE ~passes
    <3>1. passing'[d] = passing[d]
      BY <1>3, <2>2
    <3> QED BY <1>1, <2>2, <3>1
  <2> QED BY <2>1, <2>2
<1>8. /\ \A i \in 0..n : Rank(d, i)' = Rank(d, i)
      /\ Rank(d, n + 1)' = rank /\ rank = Len(passing'[d])
  <2>1. \A i \in 0..n : Rank(d, i)' = Rank(d, i)
    BY <1>1, <1>6 DEF Rank
  <2>2. Rank(d, n + 1)' = rank
    BY <1>1, <1>4, <1>6 DEF Rank
  <2>3. rank = Len(passing'[d])
    BY <1>1, <1>4, <1>7
  <2> QED BY <2>1, <2>2, <2>3
<1>9. (\A i, k : Passes(d, i, k)' = Passes(d, i, k)) /\ Consumed(d)' = Consumed(d)
  BY <1>5 DEF Passes, Policed, Consumed
<1>10. Ranked(d)'
  <2>1. Rank(d, Len(sent[d]))' = Len(passing[d])'
    BY <1>6, <1>8
  <2> SUFFICES ASSUME NEW i \in 1..(n + 1)
               PROVE  /\ sent'[d][i].rank <= Len(passing'[d])
                      /\ i <= Consumed(d) => sent'[d][i].rank = 0
                      /\ Passes(d, i, sent'[d][i].kind) =>
                           /\ sent'[d][i].rank = Rank(d, i - 1)' + 1
                           /\ passing'[d][sent'[d][i].rank] = sent'[d][i]
                      /\ ~Passes(d, i, sent'[d][i].kind) => sent'[d][i].rank = Rank(d, i - 1)'
    BY <1>6, <1>9, <2>1 DEF Ranked
  <2>2. CASE i \in 1..n
    <3>1. sent'[d][i] = sent[d][i] /\ Rank(d, i - 1)' = Rank(d, i - 1)
      BY <1>1, <1>6, <1>8, <2>2
    <3>2. sent[d][i].rank \in Nat /\ Rank(d, i - 1) \in Nat
      <4>1. sent[d][i] \in PumpLine
        BY <1>0, <1>1, <2>2, ElementIn
      <4>2. i - 1 \in 0..Len(sent[d])
        BY <1>0, <1>1, <2>2
      <4>3. Rank(d, i - 1) \in Nat
        BY <4>2, RankIsNat DEF PumpsInv
      <4> QED BY <4>1, <4>3 DEF PumpLine
    <3>3. Passes(d, i, sent[d][i].kind) =>
            sent[d][i].rank \in 1..Len(passing[d])
      <4>1. /\ sent[d][i].rank <= Len(passing[d])
            /\ Passes(d, i, sent[d][i].kind) => sent[d][i].rank = Rank(d, i - 1) + 1
        BY <1>0, <1>1, <2>2 DEF Ranked
      <4>2. Len(passing[d]) \in Nat
        BY <1>1
      <4> QED BY <3>2, <4>1, <4>2
    <3>4. Len(passing[d]) <= Len(passing'[d]) /\ Len(passing'[d]) \in Nat
      BY <1>1, <1>7
    <3>5. Passes(d, i, sent[d][i].kind) => passing'[d][sent[d][i].rank] = sent[d][i]
      BY <1>0, <1>1, <1>7, <2>2, <3>3 DEF Ranked
    <3> QED BY <1>0, <1>1, <2>2, <3>1, <3>2, <3>3, <3>4, <3>5 DEF Ranked
  <2>3. CASE i = n + 1
    <3>1. sent'[d][i] = message /\ Rank(d, i - 1)' = Rank(d, n) /\ Rank(d, n) = Len(passing[d])
      BY <1>1, <1>6, <1>8, <2>3
    <3>2. i <= Consumed(d) => ~passes /\ Rank(d, n) = 0
      <4>1. i <= Consumed(d) => ~passes
        BY <1>1, <1>13, <2>3 DEF Passes, Consumed
      <4>2. n + 1 <= Consumed(d) => Rank(d, n) = 0
        BY <1>1 DEF Ranked, Rank, Consumed
      <4> QED BY <2>3, <4>1, <4>2
    <3> QED BY <1>1, <1>4, <1>7, <1>8, <1>13, <2>3, <3>1, <3>2
  <2> QED BY <1>1, <2>2, <2>3
<1>11. WrittenInOrder(d)'
  <2>1. read[d] \in 0..n
    BY <1>0, <1>1 DEF WrittenInOrder
  <2>2. Rank(d, read[d])' = Rank(d, read[d])
    BY <1>5, <1>8, <2>1 DEF Rank
  <2>3. read[d] > 0 => sent'[d][read[d]] = sent[d][read[d]]
    BY <1>6, <2>1
  <2>4. pump[d] = "writing" => Passes(d, read[d], sent[d][read[d]].kind)'
    BY <1>1, <1>5, <1>9, <2>3 DEF WrittenInOrder
  <2>5. /\ Len(delivered[d]) <= Len(passing'[d])
        /\ \A i \in 1..Len(delivered[d]) : delivered[d][i] = passing'[d][i]
    BY <1>1, <1>7 DEF WrittenInOrder
  <2>6. phase' # "failed" =>
          Rank(d, read[d])' = Len(delivered'[d]) + (IF pump'[d] = "writing" THEN 1 ELSE 0)
    BY <1>1, <1>5, <2>2 DEF WrittenInOrder
  <2>7. /\ read'[d] <= Len(sent'[d]) /\ (ended'[d] <=> pump'[d] = "done")
        /\ pump'[d] = "writing" => read'[d] > 0
    BY <1>1, <1>5, <1>6, <2>1 DEF WrittenInOrder
  <2> QED BY <1>5, <2>4, <2>5, <2>6, <2>7 DEF WrittenInOrder
<1>12. Sending(d) \/ Resting(d)
  BY <1>5, <1>7 DEF Sending, Resting
<1> QED BY <1>6, <1>7, <1>10, <1>11, <1>12

-------------------------------------------------------------------------------
\* What the proxy reads.

\* The source has sent nothing in the step.
Quiet ==
  /\ mode' = mode /\ sent' = sent /\ passing' = passing /\ open' = open

\* One more message read.
ReadsOne(d) ==
  /\ Quiet /\ read' = [read EXCEPT ![d] = @ + 1] /\ Unread(d)
  /\ delivered' = delivered /\ ended' = ended

LEMMA QuietRanks ==
  ASSUME Quiet
  PROVE  /\ \A d \in Directions : \A i : Rank(d, i)' = Rank(d, i)
         /\ \A d \in Directions : \A i, k : Passes(d, i, k)' = Passes(d, i, k)
  BY DEF Quiet, Rank, Passes, Policed, Consumed

\* What a direction is known to be.
LEMMA Shape ==
  ASSUME PumpsInv, NEW d \in Directions
  PROVE  /\ sent[d] \in Seq(PumpLine) /\ passing[d] \in Seq(PumpLine) /\ delivered[d] \in Seq(PumpLine)
         /\ read[d] \in Nat /\ pump[d] \in PumpStates
         /\ Len(sent[d]) \in Nat /\ Len(passing[d]) \in Nat /\ Len(delivered[d]) \in Nat
         /\ Ranked(d) /\ WrittenInOrder(d) /\ read[d] \in 0..Len(sent[d])
         /\ Rank(d, read[d]) \in Nat
<1>1. /\ sent[d] \in Seq(PumpLine) /\ passing[d] \in Seq(PumpLine) /\ delivered[d] \in Seq(PumpLine)
      /\ read[d] \in Nat /\ pump[d] \in PumpStates
  BY DEF PumpsInv, Types
<1>2. Ranked(d) /\ WrittenInOrder(d)
  BY DEF PumpsInv
<1>3. read[d] \in 0..Len(sent[d])
  BY <1>1, <1>2 DEF WrittenInOrder
<1>4. Rank(d, read[d]) \in Nat
  BY <1>3, RankIsNat DEF PumpsInv
<1> QED BY <1>1, <1>2, <1>3, <1>4

\* A message of the handshake does not count.
LEMMA GreetingRead ==
  ASSUME PumpsInv, NEW d \in Directions, ReadsOne(d), read[d] < Consumed(d),
         pump' = pump, pump[d] = "reading", phase # "failed"
  PROVE  WrittenInOrder(d)'
<1>1. read'[d] = read[d] + 1 /\ read[d] + 1 \in 1..Len(sent[d])
  BY Shape DEF ReadsOne, PumpsInv, Types, Unread
<1>2. Rank(d, read[d] + 1) = 0
  <2>1. read[d] + 1 <= Consumed(d)
    BY Shape DEF Consumed
  <2> QED BY <1>1, <2>1, Shape DEF Ranked, Rank
<1>3. Rank(d, read[d]) = 0
  <2>1. CASE read[d] = 0
    BY <2>1 DEF Rank
  <2>2. CASE read[d] \in 1..Len(sent[d])
    BY <2>2, Shape DEF Ranked, Rank, Consumed
  <2> QED BY <2>1, <2>2, Shape
<1>4. Rank(d, read[d])' = 0
  <2>1. sent'[d] = sent[d] /\ Rank(d, read[d] + 1) = 0 /\ read'[d] = read[d] + 1
    BY <1>1, <1>2 DEF ReadsOne, Quiet
  <2> QED BY <2>1 DEF Rank
<1>5. WrittenInOrder(d) /\ Len(delivered[d]) \in Nat
  BY Shape
<1>6. Len(delivered[d]) = 0
  BY <1>3, <1>5 DEF WrittenInOrder
<1>7. /\ sent'[d] = sent[d] /\ passing'[d] = passing[d] /\ delivered'[d] = delivered[d]
      /\ ended'[d] = ended[d] /\ pump'[d] = pump[d]
  BY DEF ReadsOne, Quiet
<1> QED
  BY <1>1, <1>4, <1>5, <1>6, <1>7 DEF WrittenInOrder

-------------------------------------------------------------------------------
\* The pumps.

\* What a pump reads: it is past the handshake, so that all its policy lets pass counts.
LEMMA ReceiveStep ==
  ASSUME PumpsInv, NEW d \in Directions, Receive(d)
  PROVE  WrittenInOrder(d)' /\ Resting(d) /\ pump'[d] \in PumpStates
<1> DEFINE next == sent[d][read[d] + 1]
<1>1. /\ Quiet /\ delivered' = delivered /\ ended' = ended /\ phase = "pumping"
      /\ pump[d] = "reading" /\ read'[d] = read[d] + 1 /\ read[d] < Len(sent[d])
  BY DEF Receive, Take, Unread, Pumping, sourceVars, Quiet, PumpsInv, Types
<1>2. read[d] + 1 \in 1..Len(sent[d]) /\ read[d] + 1 - 1 = read[d]
  BY <1>1, Shape
<1>3. Rank(d, read[d]) = Len(delivered[d]) /\ Len(delivered[d]) \in Nat
  <2>1. WrittenInOrder(d) /\ Len(delivered[d]) \in Nat
    BY Shape
  <2> QED BY <1>1, <2>1 DEF WrittenInOrder
<1>4. Rank(d, read[d])' = next.rank
  <2>1. sent'[d] = sent[d] /\ read'[d] = read[d] + 1 /\ read[d] + 1 # 0
    BY <1>1, <1>2 DEF Quiet
  <2> QED BY <2>1 DEF Rank
<1>5. /\ Passes(d, read[d] + 1, next.kind) => next.rank = Len(delivered[d]) + 1
      /\ ~Passes(d, read[d] + 1, next.kind) => next.rank = Len(delivered[d])
  <2>1. Ranked(d) /\ read[d] \in Nat
    BY Shape
  <2>0. PICK i : i = read[d] + 1
    OBVIOUS
  <2>2. i \in 1..Len(sent[d]) /\ i = read[d] + 1 /\ i - 1 = read[d]
    BY <1>2, <2>0, <2>1
  <2>3. /\ Passes(d, i, sent[d][i].kind) => sent[d][i].rank = Rank(d, i - 1) + 1
        /\ ~Passes(d, i, sent[d][i].kind) => sent[d][i].rank = Rank(d, i - 1)
    BY <2>1, <2>2 DEF Ranked
  <2>4. Rank(d, i - 1) = Len(delivered[d])
    BY <1>3, <2>2
  <2> QED BY <2>2, <2>3, <2>4
<1>6. /\ sent'[d] = sent[d] /\ passing'[d] = passing[d] /\ delivered'[d] = delivered[d]
      /\ ended'[d] = ended[d]
  BY <1>1 DEF Quiet
<1>7. WrittenInOrder(d) /\ ended[d] # TRUE
  <2>1. WrittenInOrder(d) /\ ended[d] \in BOOLEAN
    BY Shape DEF PumpsInv, Types
  <2> QED BY <1>1, <2>1 DEF WrittenInOrder
<1>8. CASE Policed(d) /\ next.kind = "garbled"
  <2>1. phase' = "failed" /\ pump' = pump
    BY <1>8 DEF Receive, NextIn, Fail
  <2> QED BY <1>1, <1>2, <1>6, <1>7, <2>1 DEF WrittenInOrder, Resting, PumpStates, Quiet
<1>9. CASE Policed(d) /\ next.kind = "blocked"
  <2>1. phase' = phase /\ pump'[d] = "refusing"
    BY <1>9 DEF Receive, NextIn, Goto, PumpsInv, Types
  <2>2. ~Passes(d, read[d] + 1, next.kind)
    BY <1>9 DEF Passes
  <2> QED
    BY <1>1, <1>2, <1>4, <1>5, <1>6, <1>7, <2>1, <2>2
    DEF WrittenInOrder, Resting, PumpStates, Quiet
<1>10. CASE ~(Policed(d) /\ next.kind \in {"blocked", "garbled"})
  <2>1. phase' = phase /\ pump'[d] = "writing"
    BY <1>10 DEF Receive, NextIn, Goto, PumpsInv, Types
  <2>2. read[d] + 1 > Consumed(d)
    BY <1>1, <1>2, Shape DEF PumpsInv, Greeted, Consumed, AtEnd, Unread, Directions
  <2>3. Passes(d, read[d] + 1, next.kind)
    BY <1>10, <2>2 DEF Passes
  <2>4. Passes(d, read[d], sent[d][read[d]].kind)'
    BY <1>1, <1>6, <2>3 DEF Passes, Policed, Consumed, Quiet
  <2> QED
    BY <1>1, <1>2, <1>3, <1>4, <1>5, <1>6, <1>7, <2>1, <2>3, <2>4
    DEF WrittenInOrder, Resting, PumpStates, Quiet
<1> QED BY <1>8, <1>9, <1>10

LEMMA WriteStep ==
  ASSUME PumpsInv, NEW d \in Directions, Write(d)
  PROVE  /\ WrittenInOrder(d)' /\ (Delivering(d) \/ Resting(d))
         /\ pump'[d] \in PumpStates /\ delivered'[d] \in Seq(PumpLine)
<1>1. /\ Quiet /\ read' = read /\ ended' = ended /\ phase = "pumping" /\ pump[d] = "writing"
  BY DEF Write, Pumping, sourceVars, Quiet
<1>2. /\ WrittenInOrder(d) /\ Ranked(d) /\ read[d] \in 0..Len(sent[d])
      /\ delivered[d] \in Seq(PumpLine) /\ Len(delivered[d]) \in Nat
      /\ passing[d] \in Seq(PumpLine) /\ sent[d] \in Seq(PumpLine)
  BY Shape
<1>3. /\ sent'[d] = sent[d] /\ passing'[d] = passing[d] /\ read'[d] = read[d]
      /\ ended'[d] = ended[d] /\ mode' = mode /\ open' = open
  BY <1>1 DEF Quiet
<1>4. CASE Target(d) \in gone
  <2>1. phase' = "failed" /\ pump' = pump /\ delivered' = delivered
    BY <1>4 DEF Write, Fail
  <2> QED BY <1>2, <1>3, <2>1, StillWritten, Shape DEF Still, Resting
<1>5. CASE Target(d) \notin gone
  <2>1. /\ phase' = phase /\ pump'[d] = "reading"
        /\ delivered'[d] = Append(delivered[d], sent[d][read[d]])
    BY <1>5 DEF Write, Goto, PumpsInv, Types
  <2>2. read[d] \in 1..Len(sent[d]) /\ Passes(d, read[d], sent[d][read[d]].kind)
        /\ Rank(d, read[d]) = Len(delivered[d]) + 1 /\ Rank(d, read[d]) = sent[d][read[d]].rank
    BY <1>1, <1>2 DEF WrittenInOrder, Rank
  <2>3. /\ Len(delivered[d]) + 1 <= Len(passing[d])
        /\ passing[d][Len(delivered[d]) + 1] = sent[d][read[d]]
    BY <1>2, <2>2 DEF Ranked
  <2>4. sent[d][read[d]] \in PumpLine
    BY <1>2, <2>2, ElementIn
  <2> DEFINE e == sent[d][read[d]]
             grown == Append(delivered[d], e)
  <2>5. /\ grown \in Seq(PumpLine) /\ Len(grown) = Len(delivered[d]) + 1
        /\ grown[Len(delivered[d]) + 1] = e
        /\ \A i \in 1..Len(delivered[d]) : grown[i] = delivered[d][i]
    BY <1>2, <2>4, Appended
  <2>6. delivered'[d] = grown
    BY <2>1
  <2>7. Rank(d, read[d])' = Rank(d, read[d])
    BY <1>3 DEF Rank
  <2>8. ~ended[d]
    BY <1>1, <1>2 DEF WrittenInOrder
  <2>9. Delivering(d)
    BY <1>1, <1>2, <1>3, <2>1, <2>3, <2>8 DEF Delivering
  <2> HIDE DEF grown
  <2>10. \A i \in 1..Len(delivered'[d]) : delivered'[d][i] = passing[d][i]
    <3> SUFFICES ASSUME NEW i \in 1..(Len(delivered[d]) + 1)
                 PROVE  grown[i] = passing[d][i]
      BY <2>5, <2>6
    <3>1. CASE i \in 1..Len(delivered[d])
      BY <1>2, <2>5, <3>1 DEF WrittenInOrder
    <3>2. CASE i = Len(delivered[d]) + 1
      BY <2>3, <2>5, <3>2
    <3>3. Len(delivered[d]) \in Nat
      BY <1>2
    <3> QED BY <3>1, <3>2, <3>3
  <2>11. WrittenInOrder(d)'
    BY <1>1, <1>2, <1>3, <2>1, <2>2, <2>3, <2>5, <2>6, <2>7, <2>10 DEF WrittenInOrder
  <2> QED BY <2>1, <2>5, <2>6, <2>9, <2>11 DEF PumpStates
<1> QED BY <1>4, <1>5

\* A pump that comes to the end has written all that counts.
LEMMA PassEndStep ==
  ASSUME PumpsInv, NEW d \in Directions, PassEnd(d)
  PROVE  /\ WrittenInOrder(d)' /\ (Ending(d) \/ Resting(d))
         /\ pump'[d] \in PumpStates /\ ended'[d] \in BOOLEAN
<1>1. /\ Quiet /\ read' = read /\ delivered' = delivered /\ phase = "pumping"
      /\ pump[d] = "reading" /\ ~open[d] /\ ~(read[d] < Len(sent[d]))
  BY DEF PassEnd, Pumping, AtEnd, Unread, sourceVars, Quiet
<1>2. /\ WrittenInOrder(d) /\ Ranked(d) /\ read[d] \in 0..Len(sent[d])
      /\ delivered[d] \in Seq(PumpLine) /\ Len(delivered[d]) \in Nat
      /\ passing[d] \in Seq(PumpLine) /\ Len(sent[d]) \in Nat /\ ended[d] \in BOOLEAN
  BY Shape DEF PumpsInv, Types
<1>3. /\ sent'[d] = sent[d] /\ passing'[d] = passing[d] /\ read'[d] = read[d]
      /\ delivered'[d] = delivered[d] /\ mode' = mode /\ open' = open
  BY <1>1 DEF Quiet
<1>4. CASE Target(d) \in gone
  <2>1. phase' = "failed" /\ pump' = pump /\ ended' = ended
    BY <1>4 DEF PassEnd, Fail
  <2> QED BY <1>2, <1>3, <2>1, StillWritten, Shape DEF Still, Resting
<1>5. CASE Target(d) \notin gone
  <2>1. phase' = phase /\ pump'[d] = "done" /\ ended'[d] = TRUE
    BY <1>5 DEF PassEnd, Goto, PumpsInv, Types
  <2>2. read[d] = Len(sent[d])
    BY <1>1, <1>2
  <2>3. Len(delivered[d]) = Len(passing[d])
    BY <1>1, <1>2, <2>2 DEF WrittenInOrder, Ranked
  <2>4. delivered[d] = passing[d]
    BY <1>2, <2>3 DEF WrittenInOrder
  <2>5. Ending(d)
    BY <1>1, <1>2, <1>3, <2>1, <2>4 DEF Ending, WrittenInOrder
  <2>6. Rank(d, read[d])' = Rank(d, read[d])
    BY <1>3 DEF Rank
  <2>7. WrittenInOrder(d)'
    BY <1>1, <1>2, <1>3, <2>1, <2>6 DEF WrittenInOrder
  <2> QED BY <2>1, <2>5, <2>7 DEF PumpStates
<1> QED BY <1>4, <1>5

-------------------------------------------------------------------------------
\* Every step.

\* A direction in which nothing happens.
LEMMA StillStep ==
  ASSUME PumpsInv, NEW d \in Directions, Still(d), open'[d] = open[d],
         phase = "failed" => phase' = "failed"
  PROVE  Ranked(d)' /\ WrittenInOrder(d)' /\ Resting(d)
<1>1. Ranked(d)'
  BY Shape, RankedStays DEF Still
<1>2. WrittenInOrder(d)'
  BY Shape, StillWritten
<1> QED BY <1>1, <1>2 DEF Still, Resting

Good(d) == Ranked(d)' /\ WrittenInOrder(d)' /\ Streaming(d)

LEMMA PeersStep ==
  ASSUME PumpsInv,
         \/ \E d \in Directions : \E kind \in Kinds[mode][d] : Sends(d, kind)
         \/ \E d \in Directions : Closes(d) \/ Reads(d) \/ Vanishes(d) \/ ReadFails(d)
  PROVE  Types' /\ Greeted' /\ \A e \in Directions : Good(e)
<1> USE DEF sourceVars, pumpVars
<1>1. CASE \E d \in Directions : \E kind \in Kinds[mode][d] : Sends(d, kind)
  <2>0. PICK d \in Directions : \E kind \in Kinds[mode][d] : Sends(d, kind)
    BY <1>1
  <2>1. PICK kind \in Kinds[mode][d] : Sends(d, kind)
    BY <2>0
  <2>2. /\ mode' = mode /\ open' = open /\ delivered' = delivered /\ ended' = ended
        /\ read' = read /\ pump' = pump /\ phase' = phase /\ open[d]
    BY <2>1 DEF Sends
  <2>3. /\ sent'[d] \in Seq(PumpLine) /\ passing'[d] \in Seq(PumpLine)
        /\ Ranked(d)' /\ WrittenInOrder(d)' /\ (Sending(d) \/ Resting(d))
    BY <2>1, SendsStep
  <2>4. ASSUME NEW e \in Directions, e # d
        PROVE  sent'[e] = sent[e] /\ passing'[e] = passing[e] /\ Good(e)
    <3>1. sent'[e] = sent[e] /\ passing'[e] = passing[e]
      BY <2>1, <2>4 DEF Sends, PumpsInv, Types
    <3>2. Still(e)
      BY <2>2, <3>1 DEF Still
    <3> QED BY <2>2, <3>1, <3>2, StillStep DEF Good, Streaming
  <2>5. Types'
    <3>1. DOMAIN sent' = Directions /\ DOMAIN passing' = Directions
      BY <2>1 DEF Sends, PumpsInv, Types
    <3>2. \A e \in Directions : sent'[e] \in Seq(PumpLine) /\ passing'[e] \in Seq(PumpLine)
      BY <2>3, <2>4, Shape
    <3>3. sent' = [e \in Directions |-> sent'[e]] /\ passing' = [e \in Directions |-> passing'[e]]
      BY <2>1 DEF Sends, PumpsInv, Types
    <3> QED BY <2>2, <3>2, <3>3 DEF PumpsInv, Types
  <2>6. Greeted'
    <3>1. AtEnd("up") => AtEnd("up")'
      <4>1. CASE d = "up"
        BY <2>2, <4>1 DEF AtEnd
      <4>2. CASE d # "up"
        BY <2>2, <2>4, <4>2 DEF AtEnd, Unread, Directions
      <4> QED BY <4>1, <4>2
    <3> QED BY <2>2, <3>1 DEF Greeted, PumpsInv
  <2> QED BY <2>3, <2>4, <2>5, <2>6 DEF Good, Streaming
<1>2. CASE \E d \in Directions : Closes(d) \/ Vanishes(d)
  <2>1. PICK d \in Directions : Closes(d) \/ Vanishes(d)
    BY <1>2
  <2>2. /\ mode' = mode /\ sent' = sent /\ passing' = passing /\ delivered' = delivered
        /\ ended' = ended /\ read' = read /\ pump' = pump /\ phase' = phase
        /\ open' = [open EXCEPT ![d] = FALSE]
    BY <2>1 DEF Closes, Vanishes
  <2>3. Types'
    BY <2>2 DEF PumpsInv, Types
  <2>4. AtEnd("up") => AtEnd("up")'
    BY <2>2 DEF AtEnd, Unread, PumpsInv, Types, Directions
  <2>5. Greeted'
    BY <2>2, <2>4 DEF Greeted, PumpsInv
  <2>6. ASSUME NEW e \in Directions PROVE Good(e)
    <3>1. Still(e)
      BY <2>2 DEF Still
    <3>2. Ranked(e)' /\ WrittenInOrder(e)'
      BY <2>2, <3>1, Shape, RankedStays, StillWritten
    <3>3. Closing(e) \/ Resting(e)
      <4>1. CASE e = d /\ open[d]
        BY <2>2, <4>1 DEF Closing, PumpsInv, Types
      <4>2. CASE ~(e = d /\ open[d])
        <5>1. open'[e] = open[e]
          BY <2>2, <4>2 DEF PumpsInv, Types
        <5> QED BY <2>2, <5>1 DEF Resting
      <4> QED BY <4>1, <4>2
    <3> QED BY <3>2, <3>3 DEF Good, Streaming
  <2> QED BY <2>3, <2>5, <2>6
<1>3. CASE \E d \in Directions : Reads(d) \/ ReadFails(d)
  <2>1. /\ mode' = mode /\ sent' = sent /\ passing' = passing /\ delivered' = delivered
        /\ ended' = ended /\ read' = read /\ pump' = pump /\ open' = open
        /\ phase' = phase \/ phase' = "failed"
    BY <1>3 DEF Reads, ReadFails, Fail
  <2>2. Types'
    BY <2>1 DEF PumpsInv, Types
  <2>3. AtEnd("up")' = AtEnd("up")
    BY <2>1 DEF AtEnd, Unread
  <2>4. Greeted'
    BY <2>1, <2>3 DEF Greeted, PumpsInv
  <2>5. ASSUME NEW e \in Directions PROVE Good(e)
    <3>1. Still(e)
      BY <2>1 DEF Still
    <3> QED BY <2>1, <3>1, StillStep DEF Good, Streaming
  <2> QED BY <2>2, <2>4, <2>5
<1> QED BY <1>1, <1>2, <1>3

LEMMA HandshakeStep ==
  ASSUME PumpsInv, Hello \/ Asking \/ Confirm
  PROVE  Types' /\ Greeted' /\ \A e \in Directions : Good(e)
<1> USE DEF sourceVars
<1>1. /\ Quiet /\ pump' = pump /\ delivered' = delivered /\ ended' = ended
      /\ phase \in {"hello", "asking", "confirm"} /\ mode = "forward"
      /\ \A e \in Directions : pump[e] = "reading"
  BY DEF Hello, Asking, Confirm, pumpVars, otherVars, Quiet, PumpsInv, Greeted
<1>2. PICK d \in Directions :
         /\ read' = read \/ (Unread(d) /\ read' = [read EXCEPT ![d] = @ + 1])
         /\ read[d] < Consumed(d)
  <2>1. Consumed("up") = 2 /\ Consumed("down") = 1
    BY <1>1 DEF Consumed
  <2>2. CASE Hello
    <3>1. read["up"] = 0
      BY <2>2 DEF Hello, PumpsInv, Greeted
    <3>2. read' = read \/ (Unread("up") /\ read' = [read EXCEPT !["up"] = @ + 1])
      BY <2>2 DEF Hello, Take
    <3> QED BY <2>1, <3>1, <3>2 DEF Directions
  <2>3. CASE Asking
    <3>1. read["down"] = 0
      BY <2>3 DEF Asking, PumpsInv, Greeted
    <3> QED BY <2>1, <2>3, <3>1 DEF Asking, Take, Directions
  <2>4. CASE Confirm
    <3>1. read["up"] = 1
      BY <2>4 DEF Confirm, PumpsInv, Greeted
    <3> QED BY <2>1, <2>4, <3>1 DEF Confirm, Take, Directions
  <2> QED BY <2>2, <2>3, <2>4
<1>3. Types'
  <2>1. read \in [Directions -> Nat]
    BY DEF PumpsInv, Types
  <2>2. read' \in [Directions -> Nat]
    BY <1>2, <2>1
  <2> QED BY <1>1, <2>2 DEF PumpsInv, Types, Quiet
<1>4. Greeted'
  <2>1. read \in [Directions -> Nat]
    BY DEF PumpsInv, Types
  <2>2. CASE Hello
    <3>1. read["up"] = 0 /\ read["down"] = 0
      BY <2>2 DEF Hello, PumpsInv, Greeted
    <3>2. \/ phase' \in {"failed", "returned"}
          \/ phase' = "asking" /\ read' = [read EXCEPT !["up"] = @ + 1]
      <4>1. CASE AtEnd("up") /\ phase' = "returned"
        BY <4>1
      <4>2. CASE Unread("up") /\ Take("up") /\ phase' # "returned"
        <5>1. read["up"] + 1 \in 1..Len(sent["up"])
          BY <4>2, Shape DEF Unread, Directions
        <5>2. NextIn("up") \in PumpLine
          BY <5>1, Shape, ElementIn DEF NextIn, Directions
        <5>3. NextIn("up").kind \in {"plain", "initialize", "blocked", "garbled"}
          BY <5>2 DEF PumpLine
        <5> QED BY <2>2, <4>2, <5>3 DEF Hello, Fail, Take
      <4>3. CASE Unread("up") /\ Take("up") /\ phase' = "returned"
        BY <4>3
      <4> QED BY <2>2, <4>1, <4>2, <4>3 DEF Hello
    <3> QED BY <1>1, <2>1, <3>1, <3>2 DEF Greeted, Directions, Quiet
  <2>3. CASE Asking
    <3>1. read["up"] = 1 /\ read["down"] = 0
      BY <2>3 DEF Asking, PumpsInv, Greeted
    <3>2. \/ phase' = "failed"
          \/ phase' = "confirm" /\ read' = [read EXCEPT !["down"] = @ + 1]
      BY <2>3 DEF Asking, Fail, Take
    <3> QED BY <1>1, <2>1, <3>1, <3>2 DEF Greeted, Directions, Quiet
  <2>4. CASE Confirm
    <3>1. read["up"] = 1 /\ read["down"] = 1 /\ phase' = "pumping"
      BY <2>4 DEF Confirm, PumpsInv, Greeted
    <3>2. CASE read' = [read EXCEPT !["up"] = @ + 1]
      BY <2>1, <3>1, <3>2 DEF Greeted, Directions
    <3>3. CASE AtEnd("up") /\ UNCHANGED read
      <4>1. AtEnd("up")'
        BY <1>1, <3>3 DEF AtEnd, Unread, Quiet
      <4> QED BY <3>1, <3>3, <4>1 DEF Greeted
    <3> QED BY <2>4, <3>2, <3>3 DEF Confirm, Take
  <2> QED BY <2>2, <2>3, <2>4
<1>5. ASSUME NEW e \in Directions PROVE Good(e)
  <2>1. Ranked(e)' /\ Resting(e)
    <3>1. phase' = "failed" \/ (phase # "failed" /\ phase' # "failed")
      BY <1>1
    <3> QED BY <1>1, <3>1, Shape, RankedStays DEF Quiet, Resting
  <2>2. CASE e = d /\ Unread(d) /\ read' = [read EXCEPT ![d] = @ + 1]
    <3>1. ReadsOne(e) /\ read[e] < Consumed(e) /\ pump[e] = "reading" /\ phase # "failed"
      BY <1>1, <1>2, <2>2 DEF ReadsOne
    <3> QED BY <1>1, <2>1, <3>1, GreetingRead DEF Good, Streaming
  <2>3. CASE read'[e] = read[e]
    <3>1. Still(e)
      BY <1>1, <2>3 DEF Still, Quiet
    <3> QED BY <2>1, <3>1, Shape, StillWritten DEF Good, Streaming
  <2> QED BY <1>2, <2>2, <2>3 DEF PumpsInv, Types
<1> QED BY <1>3, <1>4, <1>5

\* A step of the pump d is none of the other's.
LEMMA PumpStep ==
  ASSUME PumpsInv, NEW d \in Directions, Pump(d)
  PROVE  Types' /\ Greeted' /\ \A e \in Directions : Good(e)
<1> USE DEF sourceVars, otherVars
<1>1. /\ Quiet /\ phase = "pumping" /\ (phase' = "pumping" \/ phase' = "failed")
      /\ read' = read \/ (Receive(d) /\ Unread(d) /\ read' = [read EXCEPT ![d] = @ + 1])
      /\ \A e \in Directions \ {d} :
           pump'[e] = pump[e] /\ delivered'[e] = delivered[e] /\ ended'[e] = ended[e]
  BY DEF Pump, Receive, Write, PassEnd, Pumping, Fail, Goto, Take, Quiet, PumpsInv, Types
<1>2. Ranked(d)'
  BY <1>1, Shape, RankedStays DEF Quiet
<1>3. /\ WrittenInOrder(d)' /\ Streaming(d) /\ pump'[d] \in PumpStates
      /\ delivered'[d] \in Seq(PumpLine) /\ ended'[d] \in BOOLEAN
  <2>1. delivered[d] \in Seq(PumpLine) /\ ended[d] \in BOOLEAN
    BY DEF PumpsInv, Types
  <2>2. CASE Receive(d)
    BY <2>1, <2>2, ReceiveStep DEF Receive, Streaming
  <2>3. CASE Write(d)
    BY <2>1, <2>3, WriteStep DEF Write, Streaming
  <2>4. CASE PassEnd(d)
    BY <2>1, <2>4, PassEndStep DEF PassEnd, Streaming
  <2> QED BY <2>2, <2>3, <2>4 DEF Pump
<1>4. ASSUME NEW e \in Directions, e # d PROVE Good(e)
  <2>1. Still(e) /\ open'[e] = open[e] /\ phase # "failed"
    BY <1>1, <1>4 DEF Still, Quiet, PumpsInv, Types
  <2> QED BY <2>1, StillStep DEF Good, Streaming
<1>5. Types'
  <2>1. \A e \in Directions :
          delivered'[e] \in Seq(PumpLine) /\ pump'[e] \in PumpStates /\ ended'[e] \in BOOLEAN
    BY <1>1, <1>3 DEF PumpsInv, Types
  <2>2. /\ delivered' = [e \in Directions |-> delivered'[e]]
        /\ pump' = [e \in Directions |-> pump'[e]] /\ ended' = [e \in Directions |-> ended'[e]]
    BY DEF Pump, Receive, Write, PassEnd, Goto, PumpsInv, Types
  <2>3. read' \in [Directions -> Nat]
    <3>1. read \in [Directions -> Nat]
      BY DEF PumpsInv, Types
    <3> QED BY <1>1, <3>1
  <2> QED BY <1>1, <2>1, <2>2, <2>3 DEF PumpsInv, Types, Quiet
<1>6. Greeted'
  <2>1. read \in [Directions -> Nat]
    BY DEF PumpsInv, Types
  <2>2. CASE read' = read
    <3>1. AtEnd("up")' = AtEnd("up")
      BY <1>1, <2>2 DEF AtEnd, Unread, Quiet
    <3> QED BY <1>1, <2>2, <3>1 DEF Greeted, PumpsInv, Quiet
  <2>3. CASE Unread(d) /\ read' = [read EXCEPT ![d] = @ + 1]
    <3>1. CASE d = "up"
      BY <1>1, <2>1, <2>3, <3>1 DEF Greeted, PumpsInv, AtEnd, Quiet, Directions
    <3>2. CASE d = "down"
      <4>1. AtEnd("up")' = AtEnd("up")
        BY <1>1, <2>1, <2>3, <3>2 DEF AtEnd, Unread, Quiet, Directions
      <4> QED BY <1>1, <2>1, <2>3, <3>2, <4>1 DEF Greeted, PumpsInv, Quiet, Directions
    <3> QED BY <3>1, <3>2 DEF Directions
  <2> QED BY <1>1, <2>2, <2>3
<1> QED BY <1>2, <1>3, <1>4, <1>5, <1>6 DEF Good

LEMMA RestStep ==
  ASSUME PumpsInv, Refuse \/ Return \/ UNCHANGED vars
  PROVE  Types' /\ Greeted' /\ \A e \in Directions : Good(e)
<1> USE DEF sourceVars, pumpVars, otherVars, vars
<1>1. /\ Quiet /\ read' = read /\ delivered' = delivered /\ ended' = ended
      /\ phase' \in {phase, "failed", "returned"} /\ (phase = "failed" => phase' = "failed")
      /\ pump' = pump \/ (/\ pump["up"] = "refusing"
                          /\ pump' = [pump EXCEPT !["up"] = "reading"])
  BY DEF Refuse, Return, Pumping, Fail, Goto, Quiet
<1>2. Types'
  BY <1>1 DEF PumpsInv, Types, Quiet, PumpStates, Directions
<1>3. AtEnd("up")' = AtEnd("up")
  BY <1>1 DEF AtEnd, Unread, Quiet
<1>4. Greeted'
  BY <1>1, <1>3 DEF PumpsInv, Types, Greeted, Quiet, Directions
<1>5. ASSUME NEW e \in Directions PROVE Good(e)
  <2>1. Ranked(e)' /\ Resting(e)
    BY <1>1, Shape, RankedStays DEF Quiet, Resting
  <2>2. CASE pump'[e] = pump[e]
    <3>1. Still(e)
      BY <1>1, <2>2 DEF Still, Quiet
    <3> QED BY <2>1, <3>1, Shape, StillWritten DEF Good, Streaming
  <2>3. CASE pump[e] = "refusing" /\ pump'[e] = "reading"
    <3>1. Rank(e, read[e])' = Rank(e, read[e])
      BY <1>1 DEF Rank, Quiet
    <3>2. WrittenInOrder(e)
      BY Shape
    <3>3. WrittenInOrder(e)'
      BY <1>1, <2>3, <3>1, <3>2 DEF WrittenInOrder, Quiet
    <3> QED BY <2>1, <3>3 DEF Good, Streaming
  <2> QED BY <1>1, <2>2, <2>3 DEF PumpsInv, Types
<1> QED BY <1>2, <1>4, <1>5

LEMMA PumpsNext ==
  ASSUME PumpsInv, [Next]_vars
  PROVE  PumpsInv' /\ \A e \in Directions : Streaming(e)
<1>1. Types' /\ Greeted' /\ \A e \in Directions : Good(e)
  BY PeersStep, HandshakeStep, PumpStep, RestStep DEF Next, Task
<1> QED BY <1>1 DEF Good, PumpsInv

-------------------------------------------------------------------------------
\* The two streams.

LEMMA UpSteps == Streaming("up") => [Up!Next]_(Up!vars)
  BY DEF Streaming, Sending, Closing, Delivering, Ending, Resting, Up!Next, Up!vars, Up!Send,
         Up!Close, Up!Deliver, Up!End, Up!Drop

LEMMA DownSteps == Streaming("down") => [Down!Next]_(Down!vars)
  BY DEF Streaming, Sending, Closing, Delivering, Ending, Resting, Down!Next, Down!vars, Down!Send,
         Down!Close, Down!Deliver, Down!End, Down!Drop

\* Each direction of a proxied connection implements Stream: what is passed on is what was
\* sent and passes, in order and once, and the end comes after the last of it, under the
\* policy, the handshake and the failures of either side (pump in relay.rs,
\* transparent.rs and forward.rs).
THEOREM PumpsAreStreams == Spec => Streams
<1>1. Init => Up!Init /\ Down!Init
  BY DEF Init, Up!Init, Down!Init, Directions
<1>2. PumpsInv /\ [Next]_vars => PumpsInv' /\ [Up!Next]_(Up!vars) /\ [Down!Next]_(Down!vars)
  BY PumpsNext, UpSteps, DownSteps DEF Directions
<1> QED BY <1>1, <1>2, InvInit, PTL DEF Spec, Streams, Up!Spec, Down!Spec
-------------------------------------------------------------------------------
\* Refusals.

\* Of the first n messages those that the policy keeps back.
Kept(s, n) == {i \in 1..n : s[i].kind = "blocked"}

LEMMA KeptIsFinite ==
  ASSUME NEW s, NEW n \in Nat
  PROVE  IsFiniteSet(Kept(s, n)) /\ Cardinality(Kept(s, n)) \in Nat
<1>1. IsFiniteSet(1..n)
  BY FS_Interval
<1>2. Kept(s, n) \subseteq 1..n
  BY DEF Kept
<1>3. IsFiniteSet(Kept(s, n))
  BY <1>1, <1>2, FS_Subset
<1> QED BY <1>3, FS_CardinalityType

LEMMA KeptOneMore ==
  ASSUME NEW s, NEW n \in Nat
  PROVE  /\ s[n + 1].kind = "blocked" => Cardinality(Kept(s, n + 1)) = Cardinality(Kept(s, n)) + 1
         /\ s[n + 1].kind # "blocked" => Cardinality(Kept(s, n + 1)) = Cardinality(Kept(s, n))
<1>1. CASE s[n + 1].kind = "blocked"
  <2>1. Kept(s, n + 1) = Kept(s, n) \cup {n + 1} /\ n + 1 \notin Kept(s, n)
    BY <1>1 DEF Kept
  <2> QED BY <1>1, <2>1, KeptIsFinite, FS_AddElement
<1>2. CASE s[n + 1].kind # "blocked"
  <2>1. Kept(s, n + 1) = Kept(s, n)
    BY <1>2 DEF Kept
  <2> QED BY <1>2, <2>1
<1> QED BY <1>1, <1>2

\* One refusal per message kept back, but for the one in hand, when the policy applies;
\* and none when it does not.
Refusing == IF pump["up"] = "refusing" THEN 1 ELSE 0
Refusals ==
  /\ refused \in Nat /\ blocked = refused + Refusing
  /\ mode = "l1" => /\ blocked = Cardinality(Kept(sent["up"], read["up"]))
                    /\ \A i \in DOMAIN delivered["up"] : delivered["up"][i].kind # "blocked"
  /\ mode # "l1" => blocked = 0

LEMMA RefusalsInit == Init => Refusals
<1>1. Kept(<<>>, 0) = {} /\ Cardinality({}) = 0
  BY FS_EmptySet DEF Kept
<1>2. "up" \in Directions
  BY DEF Directions
<1> SUFFICES ASSUME Init PROVE Refusals
  OBVIOUS
<1>3. /\ refused = 0 /\ blocked = 0 /\ sent["up"] = <<>> /\ read["up"] = 0
      /\ delivered["up"] = <<>> /\ Refusing = 0
  BY <1>2 DEF Init, Refusing
<1> QED BY <1>1, <1>3 DEF Refusals

LEMMA RefusalsSuffice == PumpsInv /\ Refusals => RefusedOnce
<1> SUFFICES ASSUME PumpsInv, Refusals PROVE RefusedOnce
  OBVIOUS
<1> DEFINE all == {i \in 1..read["up"] : Policed("up") /\ sent["up"][i].kind = "blocked"}
<1>1. CASE mode = "l1"
  <2>1. all = Kept(sent["up"], read["up"])
    BY <1>1 DEF Policed, Kept
  <2> QED BY <1>1, <2>1 DEF Refusals, Refusing, RefusedOnce
<1>2. CASE mode # "l1"
  <2>1. all = {} /\ ~Policed("up")
    BY <1>2 DEF Policed
  <2> QED BY <1>2, <2>1, FS_EmptySet DEF Refusals, Refusing, RefusedOnce
<1> QED BY <1>1, <1>2

\* Steps that leave refusals and what was read and written alone.
LEMMA NothingRefused ==
  ASSUME Refusals, UNCHANGED <<mode, refused, blocked>>, Refusing' = Refusing,
         mode = "l1" => /\ Kept(sent["up"], read["up"])' = Kept(sent["up"], read["up"])
                        /\ delivered'["up"] = delivered["up"]
  PROVE  Refusals'
  BY DEF Refusals

LEMMA SentKeeps ==
  ASSUME PumpsInv, NEW d \in Directions, NEW kind \in Kinds[mode][d], Sends(d, kind)
  PROVE  Kept(sent["up"], read["up"])' = Kept(sent["up"], read["up"])
<1> DEFINE up == "up"
<1>1. read' = read /\ read[up] \in Nat /\ sent[up] \in Seq(PumpLine) /\ read[up] <= Len(sent[up])
  BY Shape DEF Sends, pumpVars, PumpsInv, Types, Directions
<1>2. \E e : sent' = [sent EXCEPT ![d] = Append(@, e)]
  BY DEF Sends
<1>3. \A i \in 1..read[up] : sent'[up][i] = sent[up][i]
  <2>1. CASE d # up
    BY <1>2, <2>1 DEF PumpsInv, Types, Directions
  <2>2. CASE d = up
    <3>1. PICK e : sent'[up] = Append(sent[up], e)
      BY <1>2, <2>2 DEF PumpsInv, Types, Directions
    <3>2. \A i \in 1..Len(sent[up]) : Append(sent[up], e)[i] = sent[up][i]
      BY <1>1
    <3> QED BY <1>1, <3>1, <3>2
  <2> QED BY <2>1, <2>2
<1> QED BY <1>1, <1>3 DEF Kept

LEMMA ReceiveRefuses ==
  ASSUME PumpsInv, Refusals, NEW d \in Directions, Receive(d)
  PROVE  Refusals'
<1>0. /\ Unread(d) /\ Pumping(d, "reading") /\ read' = [read EXCEPT ![d] = @ + 1]
      /\ UNCHANGED <<mode, sent, delivered, refused>>
      /\ read \in [Directions -> Nat] /\ pump \in [Directions -> PumpStates]
      /\ refused \in Nat
  BY DEF Receive, Take, sourceVars, PumpsInv, Types, Refusals
<1>1. CASE d = "down"
  <2>1. /\ read'["up"] = read["up"] /\ pump'["up"] = pump["up"] /\ blocked' = blocked
    BY <1>0, <1>1 DEF Receive, Policed, Goto, Directions
  <2> QED BY <1>0, <2>1, NothingRefused DEF Refusing, Kept
<1>2. CASE d = "up"
  <2>1. /\ read'["up"] = read["up"] + 1 /\ read["up"] \in Nat /\ Refusing = 0
    BY <1>0, <1>2 DEF Pumping, Refusing, Directions
  <2>2. /\ blocked = refused
        /\ mode = "l1" => /\ blocked = Cardinality(Kept(sent["up"], read["up"]))
                          /\ \A i \in DOMAIN delivered["up"] : delivered["up"][i].kind # "blocked"
        /\ mode # "l1" => blocked = 0
    BY <1>0, <2>1 DEF Refusals
  <2>3. CASE mode = "l1" /\ NextIn("up").kind = "blocked"
    <3>1. blocked' = blocked + 1 /\ pump' = [pump EXCEPT !["up"] = "refusing"]
      BY <1>2, <2>3 DEF Receive, Policed, Goto
    <3>2. Refusing' = 1
      BY <1>0, <3>1 DEF Refusing, Directions
    <3>3. Cardinality(Kept(sent["up"], read["up"] + 1)) = Cardinality(Kept(sent["up"], read["up"])) + 1
      BY <2>1, <2>3, KeptOneMore DEF NextIn
    <3> QED BY <1>0, <2>1, <2>2, <2>3, <3>1, <3>2, <3>3 DEF Refusals
  <2>4. CASE ~(mode = "l1" /\ NextIn("up").kind = "blocked")
    <3>1. blocked' = blocked /\ (pump' = pump \/ pump' = [pump EXCEPT !["up"] = "writing"])
      BY <1>2, <2>4 DEF Receive, Policed, Goto
    <3>2. Refusing' = 0
      BY <1>0, <2>1, <3>1 DEF Refusing, Directions
    <3>3. mode = "l1" => Cardinality(Kept(sent["up"], read["up"] + 1)) = Cardinality(Kept(sent["up"], read["up"]))
      BY <2>1, <2>4, KeptOneMore DEF NextIn
    <3> QED BY <1>0, <2>1, <2>2, <3>1, <3>2, <3>3 DEF Refusals
  <2> QED BY <2>3, <2>4
<1> QED BY <1>1, <1>2 DEF Directions

LEMMA WriteRefuses ==
  ASSUME PumpsInv, Refusals, NEW d \in Directions, Write(d)
  PROVE  Refusals'
<1>0. /\ Pumping(d, "writing") /\ UNCHANGED <<mode, sent, read, refused, blocked>>
      /\ pump \in [Directions -> PumpStates] /\ delivered \in [Directions -> Seq(PumpLine)]
      /\ sent \in [Directions -> Seq(PumpLine)]
      /\ pump' = pump \/ pump' = [pump EXCEPT ![d] = "reading"]
  BY DEF Write, sourceVars, otherVars, PumpsInv, Types, Goto
<1>1. Refusing' = Refusing /\ Kept(sent["up"], read["up"])' = Kept(sent["up"], read["up"])
  BY <1>0 DEF Refusing, Pumping, Directions, Kept
<1>2. CASE delivered'["up"] = delivered["up"]
  BY <1>0, <1>1, <1>2, NothingRefused
<1>3. CASE d = "up" /\ delivered' = [delivered EXCEPT !["up"] = Append(@, sent["up"][read["up"]])]
  <2> DEFINE e == sent["up"][read["up"]]
  <2>1. WrittenInOrder("up") /\ "up" \in Directions
    BY Shape DEF Directions
  <2>2. mode = "l1" => e.kind # "blocked"
    BY <1>0, <1>3, <2>1 DEF WrittenInOrder, Passes, Policed, Pumping
  <2>3. delivered'["up"] = Append(delivered["up"], e) /\ delivered["up"] \in Seq(PumpLine)
    BY <1>0, <1>3, <2>1
  <2> HIDE DEF e
  <2>4. \A i \in DOMAIN delivered'["up"] :
          \/ i \in DOMAIN delivered["up"] /\ delivered'["up"][i] = delivered["up"][i]
          \/ delivered'["up"][i] = e
    BY <2>3
  <2>5. mode = "l1" =>
          \A i \in DOMAIN delivered'["up"] : delivered'["up"][i].kind # "blocked"
    BY <2>2, <2>4 DEF Refusals
  <2> QED BY <1>0, <1>1, <2>5 DEF Refusals
<1>4. delivered'["up"] = delivered["up"] \/
      (d = "up" /\ delivered' = [delivered EXCEPT !["up"] = Append(@, sent["up"][read["up"]])])
  <2>1. delivered' = delivered \/ delivered' = [delivered EXCEPT ![d] = Append(@, sent[d][read[d]])]
    BY DEF Write
  <2> QED BY <1>0, <2>1 DEF Directions
<1> QED BY <1>2, <1>3, <1>4

LEMMA RefuseRefuses ==
  ASSUME PumpsInv, Refusals, Refuse
  PROVE  Refusals'
<1>0. /\ pump["up"] = "refusing" /\ UNCHANGED <<mode, sent, read, delivered, blocked>>
      /\ pump \in [Directions -> PumpStates] /\ refused \in Nat /\ Refusing = 1
  BY DEF Refuse, Pumping, sourceVars, PumpsInv, Types, Refusals, Refusing
<1>1. CASE refused' = refused /\ pump' = pump
  BY <1>0, <1>1, NothingRefused DEF Refusing, Kept
<1>2. CASE refused' = refused + 1 /\ pump' = [pump EXCEPT !["up"] = "reading"]
  <2>1. Refusing' = 0
    BY <1>0, <1>2 DEF Refusing, Directions
  <2>2. Kept(sent["up"], read["up"])' = Kept(sent["up"], read["up"])
    BY <1>0 DEF Kept
  <2> QED BY <1>0, <1>2, <2>1, <2>2 DEF Refusals
<1> QED BY <1>1, <1>2 DEF Refuse, Goto

LEMMA RefusalsNext ==
  ASSUME PumpsInv, Refusals, [Next]_vars
  PROVE  Refusals'
<1> USE DEF sourceVars, pumpVars, otherVars
<1>1. CASE \E d \in Directions : \E kind \in Kinds[mode][d] : Sends(d, kind)
  <2>1. PICK d \in Directions : \E kind \in Kinds[mode][d] : Sends(d, kind)
    BY <1>1
  <2>2. PICK kind \in Kinds[mode][d] : Sends(d, kind)
    BY <2>1
  <2>3. UNCHANGED <<mode, refused, blocked, pump, delivered>>
    BY <2>2 DEF Sends
  <2>4. Kept(sent["up"], read["up"])' = Kept(sent["up"], read["up"])
    BY <2>2, SentKeeps
  <2> QED BY <2>3, <2>4, NothingRefused DEF Refusing
<1>2. CASE \/ \E d \in Directions : Closes(d) \/ Reads(d) \/ Vanishes(d) \/ ReadFails(d)
           \/ Return \/ UNCHANGED vars
  <2>1. UNCHANGED <<mode, refused, blocked, pump, delivered, sent, read>>
    BY <1>2 DEF Closes, Reads, Vanishes, ReadFails, Return, vars
  <2> QED BY <2>1, NothingRefused DEF Refusing, Kept
<1>3. CASE Hello \/ Asking \/ Confirm
  <2>1. mode = "forward"
    BY <1>3 DEF Hello, Asking, Confirm, PumpsInv, Greeted
  <2>2. UNCHANGED <<mode, refused, blocked, pump, delivered, sent>>
    BY <1>3 DEF Hello, Asking, Confirm
  <2> QED BY <2>1, <2>2, NothingRefused DEF Refusing
<1>4. ASSUME NEW d \in Directions, PassEnd(d) PROVE Refusals'
  <2>1. /\ UNCHANGED <<mode, refused, blocked, delivered, sent, read>>
        /\ pump' = pump \/ (pump[d] = "reading" /\ pump' = [pump EXCEPT ![d] = "done"])
    BY <1>4 DEF PassEnd, Goto, Pumping
  <2>2. Refusing' = Refusing
    BY <2>1 DEF Refusing, PumpsInv, Types, Directions
  <2> QED BY <2>1, <2>2, NothingRefused DEF Kept
<1> QED BY <1>1, <1>2, <1>3, <1>4, ReceiveRefuses, WriteRefuses, RefuseRefuses DEF Next, Task, Pump

\* The client is told of every message that the policy kept from the backend, once, and
\* the counter agrees, whichever pump holds the client's writer and whoever fails when
\* (relay_up in transparent.rs, whose refusals cross the pump of the other direction).
THEOREM RefusalsAreTold == Spec => []RefusedOnce
<1>1. PumpsInv /\ Refusals /\ [Next]_vars => (PumpsInv /\ Refusals)'
  BY PumpsNext, RefusalsNext
<1>2. PumpsInv /\ Refusals => RefusedOnce
  BY RefusalsSuffice
<1> QED BY <1>1, <1>2, InvInit, RefusalsInit, PTL DEF Spec

-------------------------------------------------------------------------------
\* StatelessProxy: sequences whatever their elements are.
IsSeq(s) == \E S : s \in Seq(S)

LEMMA EmptyIsSeq == IsSeq(<<>>) /\ Len(<<>>) = 0
<1>1. <<>> \in Seq({})
  OBVIOUS
<1> QED BY <1>1 DEF IsSeq

LEMMA SeqFacts ==
  ASSUME NEW s, IsSeq(s)
  PROVE  Len(s) \in Nat /\ DOMAIN s = 1..Len(s) /\ (s = <<>> <=> Len(s) = 0)
<1>1. PICK S : s \in Seq(S)
  BY DEF IsSeq
<1> QED BY <1>1

LEMMA AppendFacts ==
  ASSUME NEW s, NEW e, IsSeq(s)
  PROVE  /\ IsSeq(Append(s, e)) /\ Len(Append(s, e)) = Len(s) + 1 /\ Len(s) \in Nat
         /\ Append(s, e)[Len(s) + 1] = e
         /\ \A i \in 1..Len(s) : Append(s, e)[i] = s[i]
<1>1. PICK S : s \in Seq(S)
  BY DEF IsSeq
<1>2. s \in Seq(S \cup {e}) /\ e \in S \cup {e}
  BY <1>1
<1>3. Append(s, e) \in Seq(S \cup {e})
  BY <1>2
<1> QED BY <1>2, <1>3 DEF IsSeq

LEMMA TailFacts ==
  ASSUME NEW s, IsSeq(s), s # <<>>
  PROVE  /\ IsSeq(Tail(s)) /\ Len(Tail(s)) = Len(s) - 1 /\ Head(s) = s[1]
         /\ Len(s) \in Nat \ {0}
         /\ \A i \in 1..Len(Tail(s)) : Tail(s)[i] = s[i + 1]
<1>1. PICK S : s \in Seq(S)
  BY DEF IsSeq
<1>2. Tail(s) \in Seq(S)
  BY <1>1
<1> QED BY <1>1, <1>2 DEF IsSeq

-------------------------------------------------------------------------------
\* The loop's invariant.

Shapes ==
  /\ alive \in [Ids -> BOOLEAN] /\ extras \in [Ids -> Nat]
  /\ calls = [b \in Ids |-> calls[b]] /\ lines = [b \in Ids |-> lines[b]]
  /\ \A b \in Ids : IsSeq(calls[b]) /\ IsSeq(lines[b])
  /\ IsSeq(replies) /\ taken \in Nat /\ target \in DOMAIN Backends
  /\ pc \in {"reading", "asking", "writing", "ended"}
  /\ pc \in {"asking", "writing"} => taken > 0

\* n lines of b are on their way; a backend that went away may owe less.
Called(b) == Len(calls[b])
Buffered(b) == Len(lines[b])
Owes(b, n) ==
  /\ Called(b) + Buffered(b) <= n
  /\ alive[b] => Called(b) + Buffered(b) = n

Skewed ==
  pc # "ended" => \A b \in Ids : /\ Waiting(b) => Owes(b, extras[b] + 1)
                                 /\ ~Waiting(b) => Owes(b, extras[b])

\* Undisturbed, what is on its way belongs to the request in hand.
AnswerInHand ==
  /\ Len(replies) = taken - (IF pc \in {"asking", "writing"} THEN 1 ELSE 0)
  /\ pc = "writing" => response.of = {taken}
  /\ \A b \in Ids : /\ \A i \in 1..Len(calls[b]) : calls[b][i] = taken
                    /\ \A i \in 1..Len(lines[b]) : lines[b][i].for = taken
  /\ parts \subseteq {taken} /\ (pc # "asking" => parts = {})

Paired == \A k \in 1..Len(replies) : replies[k].of = {k}

LoopInv ==
  /\ Shapes /\ Skewed
  /\ Undisturbed => (pc # "ended" => AnswerInHand) /\ Paired

LEMMA BackendsAt ==
  /\ \A i \in DOMAIN Backends : Backends[i] \in Ids
  /\ DOMAIN Backends = 1..Len(Backends) /\ Len(Backends) \in Nat \ {0}
  BY StatelessAssumption DEF Ids

LEMMA LoopInvInit == StatelessInit => LoopInv
<1> SUFFICES ASSUME StatelessInit PROVE LoopInv
  OBVIOUS
<1>1. Shapes
  BY EmptyIsSeq, BackendsAt DEF StatelessInit, Shapes
<1>2. \A b \in Ids : Len(calls[b]) = 0 /\ Len(lines[b]) = 0 /\ extras[b] = 0
  BY EmptyIsSeq DEF StatelessInit
<1>3. pc = "reading" /\ taken = 0 /\ parts = {} /\ Len(replies) = 0
  BY EmptyIsSeq DEF StatelessInit
<1>4. Skewed
  <2> SUFFICES ASSUME NEW b \in Ids PROVE ~Waiting(b) /\ Owes(b, extras[b])
    BY DEF Skewed
  <2>1. ~Waiting(b)
    BY <1>3 DEF Waiting
  <2>2. Called(b) = 0 /\ Buffered(b) = 0 /\ extras[b] = 0
    BY <1>2 DEF Called, Buffered
  <2> QED BY <2>1, <2>2 DEF Owes
<1>5. AnswerInHand /\ Paired
  <2>1. pc \notin {"asking", "writing"} /\ Len(replies) = taken - 0
    BY <1>3
  <2>2. \A b \in Ids : /\ \A i \in 1..Len(calls[b]) : calls[b][i] = taken
                      /\ \A i \in 1..Len(lines[b]) : lines[b][i].for = taken
    BY <1>2
  <2>3. parts \subseteq {taken} /\ (pc # "asking" => parts = {})
    BY <1>3
  <2>4. Len(replies) = taken - (IF pc \in {"asking", "writing"} THEN 1 ELSE 0)
    BY <2>1
  <2>5. Paired
    BY <1>3 DEF Paired
  <2>6. pc = "writing" => response.of = {taken}
    BY <2>1, Zenon
  <2> QED BY <2>2, <2>3, <2>4, <2>5, <2>6, Zenon DEF AnswerInHand
<1> QED BY <1>1, <1>4, <1>5 DEF LoopInv

LEMMA InvSuffices == LoopInv => SkewIsExtra /\ ResponsesPair
<1> SUFFICES ASSUME LoopInv PROVE SkewIsExtra /\ ResponsesPair
  OBVIOUS
<1>1. SkewIsExtra
  <2> SUFFICES ASSUME pc # "ended", NEW b \in Ids, alive[b]
               PROVE  Called(b) + Buffered(b) = extras[b] + (IF Waiting(b) THEN 1 ELSE 0)
    BY DEF SkewIsExtra, Called, Buffered
  <2>1. extras[b] \in Nat
    BY DEF LoopInv, Shapes
  <2>2. CASE Waiting(b)
    BY <2>2 DEF LoopInv, Skewed, Owes, Waiting
  <2>3. CASE ~Waiting(b)
    BY <2>1, <2>3 DEF LoopInv, Skewed, Owes, Waiting
  <2> QED BY <2>2, <2>3
<1>2. DOMAIN replies = 1..Len(replies)
  BY SeqFacts DEF LoopInv, Shapes
<1>3. ResponsesPair
  BY <1>2 DEF LoopInv, Paired, ResponsesPair
<1> QED BY <1>1, <1>3

-------------------------------------------------------------------------------
\* Pieces of the loop's steps.

\* Lengths are numbers.
LEMMA Lengths ==
  ASSUME Shapes, NEW b \in Ids
  PROVE  Called(b) \in Nat /\ Buffered(b) \in Nat /\ extras[b] \in Nat
  BY SeqFacts DEF Shapes, Called, Buffered

\* A connection that ends.
LEMMA Ended ==
  ASSUME LoopInv, Shapes', pc' = "ended", replies' = replies, extras' = extras
  PROVE  LoopInv'
  BY DEF LoopInv, Skewed, Paired, Undisturbed

\* A response to the n-th request.
LEMMA Replied ==
  ASSUME LoopInv, NEW r, replies' = Append(replies, r)
  PROVE  /\ IsSeq(replies') /\ Len(replies') = Len(replies) + 1 /\ Len(replies) \in Nat
         /\ Paired /\ r.of = {Len(replies) + 1} => Paired'
<1>1. /\ IsSeq(replies') /\ Len(replies') = Len(replies) + 1 /\ Len(replies) \in Nat
      /\ replies'[Len(replies) + 1] = r
      /\ \A i \in 1..Len(replies) : replies'[i] = replies[i]
  BY AppendFacts DEF LoopInv, Shapes
<1>2. ASSUME Paired, r.of = {Len(replies) + 1} PROVE Paired'
  <2> SUFFICES ASSUME NEW k \in 1..(Len(replies) + 1) PROVE replies'[k].of = {k}
    BY <1>1 DEF Paired
  <2>1. k \in 1..Len(replies) \/ k = Len(replies) + 1
    BY <1>1
  <2> QED BY <1>1, <1>2, <2>1 DEF Paired
<1> QED BY <1>1, <1>2

\* A call to the i-th backend.
LEMMA Asked ==
  ASSUME Shapes, NEW i \in DOMAIN Backends, NEW r, NEW n, Ask(i, r, n)
  PROVE  /\ replies' = replies /\ target' \in DOMAIN Backends
         /\ calls' = [b \in Ids |-> calls'[b]]
         /\ \A b \in Ids : IsSeq(calls'[b])
         /\ pc' = "ended" \/ (pc' = "asking" /\ target' = i)
         /\ \A b \in Ids \ {Backends[i]} : calls'[b] = calls[b]
         /\ pc' = "asking" =>
              \/ ~alive[Backends[i]] /\ calls'[Backends[i]] = calls[Backends[i]]
              \/ alive[Backends[i]] /\ calls'[Backends[i]] = Append(calls[Backends[i]], n)
<1> DEFINE id == Backends[i]
<1>1. id \in Ids
  BY BackendsAt
<1>2. CASE alive[id] /\ calls' = [calls EXCEPT ![id] = Append(@, n)]
           /\ pc' = "asking" /\ target' = i /\ replies' = replies
  <2>1. calls' = [b \in Ids |-> calls'[b]]
    BY <1>2 DEF Shapes
  <2>2. calls'[id] = Append(calls[id], n) /\ \A b \in Ids \ {id} : calls'[b] = calls[b]
    BY <1>1, <1>2 DEF Shapes
  <2>3. IsSeq(calls'[id])
    BY <1>1, <2>2, AppendFacts DEF Shapes
  <2>4. \A b \in Ids : IsSeq(calls'[b])
    BY <2>2, <2>3 DEF Shapes
  <2> QED BY <1>2, <2>1, <2>2, <2>4
<1>3. CASE ~alive[id] /\ calls' = calls /\ replies' = replies
           /\ ((pc' = "ended" /\ target' = target) \/ (pc' = "asking" /\ target' = i))
  BY <1>1, <1>3 DEF Shapes
<1> QED BY <1>2, <1>3 DEF Ask

\* While no backend is awaited and nobody disturbs the loop, every stream is empty.
LEMMA NothingOnTheWay ==
  ASSUME LoopInv, pc \in {"reading", "writing"}, Undisturbed, NEW b \in Ids
  PROVE  Len(calls[b]) = 0 /\ Len(lines[b]) = 0
<1>1. extras[b] = 0 /\ ~Waiting(b)
  BY DEF Undisturbed, Waiting
<1>2. Owes(b, 0)
  BY <1>1 DEF LoopInv, Skewed
<1>3. Called(b) \in Nat /\ Buffered(b) \in Nat
  BY Lengths DEF LoopInv
<1>4. Called(b) = 0 /\ Buffered(b) = 0
  BY <1>2, <1>3 DEF Owes
<1> QED BY <1>4 DEF Called, Buffered

\* After a call to the i-th backend, when no other was awaited any more: m lines stay
\* of each stream that was to be read.
LEMMA AskedSkew ==
  ASSUME LoopInv, NEW i \in DOMAIN Backends, NEW r, NEW n, Ask(i, r, n), pc' = "asking",
         alive' = alive, extras' = extras, Shapes',
         \A b \in Ids : /\ Called(b) + Buffered(b)' <= extras[b]
                        /\ alive[b] => Called(b) + Buffered(b)' = extras[b]
  PROVE  Skewed'
<1> SUFFICES ASSUME NEW b \in Ids
             PROVE  /\ Waiting(b)' => Owes(b, extras[b] + 1)'
                    /\ ~Waiting(b)' => Owes(b, extras[b])'
  BY DEF Skewed
<1>0. Shapes
  BY DEF LoopInv
<1>1. /\ target' = i
      /\ \A c \in Ids \ {Backends[i]} : calls'[c] = calls[c]
      /\ \/ ~alive[Backends[i]] /\ calls'[Backends[i]] = calls[Backends[i]]
         \/ alive[Backends[i]] /\ calls'[Backends[i]] = Append(calls[Backends[i]], n)
  BY <1>0, Asked
<1>2. Called(b) \in Nat /\ Buffered(b)' \in Nat /\ extras[b] \in Nat
  BY SeqFacts DEF LoopInv, Shapes, Called, Buffered
<1>3. /\ Called(b) + Buffered(b)' <= extras[b]
      /\ alive[b] => Called(b) + Buffered(b)' = extras[b]
  OBVIOUS
<1>4. CASE b # Backends[i]
  <2>1. ~Waiting(b)'
    BY <1>1, <1>4 DEF Waiting
  <2>2. Called(b)' = Called(b)
    BY <1>1, <1>4 DEF Called
  <2> QED BY <1>2, <1>3, <2>1, <2>2 DEF Owes
<1>5. CASE b = Backends[i]
  <2>1. Waiting(b)'
    BY <1>1, <1>5 DEF Waiting
  <2>3. CASE ~alive[b]
    <3>1. Called(b)' = Called(b) /\ ~alive'[b]
      BY <1>1, <1>5, <2>3 DEF Called
    <3> QED BY <1>2, <1>3, <2>1, <3>1 DEF Owes
  <2>4. CASE alive[b]
    <3>1. calls'[b] = Append(calls[b], n)
      BY <1>1, <1>5, <2>4
    <3>2. Called(b)' = Called(b) + 1
      BY <3>1, AppendFacts DEF LoopInv, Shapes, Called
    <3>3. Called(b) + Buffered(b)' = extras[b]
      BY <1>3, <2>4
    <3> QED BY <1>2, <2>1, <3>2, <3>3 DEF Owes
  <2> QED BY <2>3, <2>4
<1> QED BY <1>4, <1>5

\* The calls under way are those for n, if they were before.
LEMMA AskedCalls ==
  ASSUME Shapes, NEW i \in DOMAIN Backends, NEW r, NEW n, Ask(i, r, n), pc' = "asking",
         \A b \in Ids : \A k \in 1..Len(calls[b]) : calls[b][k] = n
  PROVE  \A b \in Ids : \A k \in 1..Len(calls'[b]) : calls'[b][k] = n
<1> SUFFICES ASSUME NEW b \in Ids, NEW k \in 1..Len(calls'[b]) PROVE calls'[b][k] = n
  OBVIOUS
<1>1. calls'[b] = calls[b] \/ calls'[b] = Append(calls[b], n)
  BY Asked
<1>2. CASE calls'[b] = calls[b]
  BY <1>2
<1>3. CASE calls'[b] = Append(calls[b], n)
  <2>1. /\ Len(calls'[b]) = Len(calls[b]) + 1 /\ Len(calls[b]) \in Nat
        /\ calls'[b][Len(calls[b]) + 1] = n
        /\ \A j \in 1..Len(calls[b]) : calls'[b][j] = calls[b][j]
    BY <1>3, AppendFacts DEF Shapes
  <2>2. k \in 1..Len(calls[b]) \/ k = Len(calls[b]) + 1
    BY <2>1
  <2> QED BY <2>1, <2>2
<1> QED BY <1>1, <1>2, <1>3

-------------------------------------------------------------------------------
\* The steps of the loop.

LEMMA TakeStep ==
  ASSUME LoopInv, TakeRequest
  PROVE  LoopInv'
<1>0. Shapes /\ pc = "reading" /\ taken' = taken + 1 /\ taken \in Nat /\ taken' # 0
      /\ alive' = alive /\ lines' = lines /\ extras' = extras
  BY DEF TakeRequest, LoopInv, Shapes
<1>1. \A b \in Ids : /\ Called(b) + Buffered(b) <= extras[b]
                     /\ alive[b] => Called(b) + Buffered(b) = extras[b]
  <2> SUFFICES ASSUME NEW b \in Ids PROVE Owes(b, extras[b])
    BY DEF Owes
  <2>1. ~Waiting(b)
    BY <1>0 DEF Waiting
  <2> QED BY <1>0, <2>1 DEF LoopInv, Skewed
<1>2. CASE End /\ UNCHANGED <<calls, received>>
  <2>1. Shapes'
    BY <1>0, <1>2 DEF End, Shapes
  <2> QED BY <1>0, <1>2, <2>1, Ended DEF End
<1>3. CASE Respond(Rejection(taken + 1)) /\ UNCHANGED <<calls, received>>
  <2>1. /\ replies' = replies /\ pc' = "writing" /\ parts' = {} /\ target' = target
        /\ response'.of = {taken + 1}
    BY <1>3 DEF Respond, Rejection, Response
  <2>2. Shapes'
    BY <1>0, <1>3, <2>1 DEF Shapes
  <2>3. Skewed'
    <3> SUFFICES ASSUME NEW b \in Ids PROVE ~Waiting(b)' /\ Owes(b, extras[b])'
      BY DEF Skewed
    <3>1. ~Waiting(b)'
      BY <2>1 DEF Waiting
    <3>2. Called(b)' = Called(b) /\ Buffered(b)' = Buffered(b)
      BY <1>0, <1>3 DEF Called, Buffered
    <3> QED BY <1>0, <1>1, <3>1, <3>2 DEF Owes
  <2>4. ASSUME Undisturbed' PROVE AnswerInHand' /\ Paired'
    <3>1. Undisturbed /\ AnswerInHand /\ Paired
      BY <1>0, <2>4 DEF Undisturbed, LoopInv
    <3>2. Len(replies') = taken' - 1
      BY <1>0, <2>1, <3>1 DEF AnswerInHand
    <3>3. \A b \in Ids : Len(calls'[b]) = 0 /\ Len(lines'[b]) = 0
      BY <1>0, <1>3, <3>1, NothingOnTheWay
    <3> QED BY <1>0, <2>1, <3>1, <3>2, <3>3 DEF AnswerInHand, Paired
  <2> QED BY <2>2, <2>3, <2>4 DEF LoopInv
<1>4. ASSUME NEW i \in DOMAIN Backends, NEW r, Ask(i, r, taken + 1),
             UNCHANGED <<gathered, parts>>
      PROVE  LoopInv'
  <2>1. /\ replies' = replies /\ target' \in DOMAIN Backends
        /\ calls' = [b \in Ids |-> calls'[b]]
        /\ \A b \in Ids : IsSeq(calls'[b])
        /\ pc' \in {"ended", "asking"}
    BY <1>0, <1>4, Asked
  <2>2. Shapes'
    BY <1>0, <2>1 DEF Shapes
  <2>3. CASE pc' = "ended"
    BY <1>0, <2>1, <2>2, <2>3, Ended
  <2>4. CASE pc' = "asking"
    <3>0. \A b \in Ids : Buffered(b)' = Buffered(b)
      BY <1>0 DEF Buffered
    <3>1. Skewed'
      BY <1>0, <1>1, <1>4, <2>2, <2>4, <3>0, AskedSkew
    <3>2. ASSUME Undisturbed' PROVE AnswerInHand' /\ Paired'
      <4>1. Undisturbed /\ AnswerInHand /\ Paired
        BY <1>0, <3>2 DEF Undisturbed, LoopInv
      <4>2. Len(replies) = taken /\ parts = {} /\ parts' = parts
        BY <1>0, <1>4, <4>1, SeqFacts DEF AnswerInHand, Shapes
      <4>3. \A b \in Ids : Len(calls[b]) = 0 /\ Len(lines[b]) = 0
        BY <1>0, <4>1, NothingOnTheWay
      <4>4. \A b \in Ids : \A k \in 1..Len(calls'[b]) : calls'[b][k] = taken + 1
        BY <1>0, <1>4, <2>4, <4>3, AskedCalls
      <4>5. Len(replies') = taken' - 1
        BY <1>0, <2>1, <4>2
      <4> QED BY <1>0, <2>1, <2>4, <4>1, <4>2, <4>3, <4>4, <4>5 DEF AnswerInHand, Paired
    <3> QED BY <2>2, <3>1, <3>2 DEF LoopInv
  <2> QED BY <2>1, <2>3, <2>4
<1>5. ASSUME NEW id \in Ids PROVE Position(id) \in DOMAIN Backends
  BY <1>5 DEF Position, Ids
<1>6. CASE \E i \in DOMAIN Backends : \E r : Ask(i, r, taken + 1) /\ UNCHANGED <<gathered, parts>>
  BY <1>4, <1>6
<1>7. CASE /\ asked[taken + 1].method = "tools/call" /\ Known(asked[taken + 1])
           /\ Ask(Position(asked[taken + 1].name.backend), Forwarded(asked[taken + 1]), taken + 1)
           /\ UNCHANGED <<gathered, parts>>
  BY <1>4, <1>5, <1>7 DEF Known
<1>8. CASE Ask(1, Discover(asked[taken + 1]), taken + 1) /\ UNCHANGED <<gathered, parts>>
  BY <1>4, <1>8, BackendsAt
<1> QED BY <1>2, <1>3, <1>7, <1>8 DEF TakeRequest

\* The line read is the one awaited, and nothing is awaited any more.
LEMMA LineRead ==
  ASSUME LoopInv, HasLine, ReadLine
  PROVE  /\ lines' = [b \in Ids |-> lines'[b]] /\ \A b \in Ids : IsSeq(lines'[b])
         /\ \A b \in Ids : /\ Called(b) + Buffered(b)' <= extras[b]
                           /\ alive[b] => Called(b) + Buffered(b)' = extras[b]
         /\ Undisturbed => /\ \A b \in Ids : Len(calls[b]) = 0 /\ Len(lines'[b]) = 0
                           /\ Line.for = taken
<1>a. PICK id : id = Backends[target]
  OBVIOUS
<1>0. /\ Shapes /\ id \in Ids /\ Waiting(id) /\ pc = "asking" /\ lines[id] # <<>>
      /\ id = Backends[target]
  BY <1>a, BackendsAt DEF LoopInv, Shapes, HasLine, Waiting
<1>1. \A b \in Ids \ {id} : ~Waiting(b) /\ lines'[b] = lines[b] /\ Buffered(b)' = Buffered(b)
  BY <1>0 DEF Waiting, ReadLine, Shapes, Buffered
<1>2. lines'[id] = Tail(lines[id])
  BY <1>0 DEF ReadLine, Shapes
<1>3. /\ IsSeq(lines'[id]) /\ Buffered(id)' = Buffered(id) - 1 /\ Line = lines[id][1]
      /\ Buffered(id) \in Nat \ {0}
  <2>1. IsSeq(lines[id]) /\ lines[id] # <<>>
    BY <1>0 DEF Shapes
  <2>2. /\ IsSeq(Tail(lines[id])) /\ Len(Tail(lines[id])) = Len(lines[id]) - 1
        /\ Head(lines[id]) = lines[id][1] /\ Len(lines[id]) \in Nat \ {0}
    BY <2>1, TailFacts
  <2>3. Buffered(id) = Len(lines[id]) /\ Line = Head(lines[id])
    BY <1>0 DEF Buffered, Line
  <2>4. Buffered(id)' = Len(lines'[id])
    BY DEF Buffered
  <2> QED BY <1>2, <2>2, <2>3, <2>4
<1>4. lines' = [b \in Ids |-> lines'[b]] /\ \A b \in Ids : IsSeq(lines'[b])
  <2>1. lines' = [b \in Ids |-> lines'[b]]
    BY <1>0 DEF ReadLine, Shapes
  <2>2. \A b \in Ids : IsSeq(lines'[b])
    BY <1>0, <1>1, <1>3 DEF Shapes
  <2> QED BY <2>1, <2>2
<1>5. ASSUME NEW b \in Ids
      PROVE  /\ Called(b) + Buffered(b)' <= extras[b]
             /\ alive[b] => Called(b) + Buffered(b)' = extras[b]
             /\ Called(b) \in Nat /\ Buffered(b)' \in Nat
  <2>1. Called(b) \in Nat /\ Buffered(b) \in Nat /\ extras[b] \in Nat
    BY <1>0, Lengths
  <2>2. CASE b = id
    <3>1. Waiting(b) /\ pc # "ended"
      BY <1>0, <2>2
    <3>2. Owes(b, extras[b] + 1)
      BY <3>1 DEF LoopInv, Skewed
    <3>3. Buffered(b)' = Buffered(b) - 1 /\ Buffered(b) \in Nat \ {0}
      BY <1>3, <2>2
    <3>4. CASE alive[b]
      BY <2>1, <3>2, <3>3, <3>4 DEF Owes
    <3>5. CASE ~alive[b]
      BY <2>1, <3>2, <3>3, <3>5 DEF Owes
    <3> QED BY <3>4, <3>5
  <2>3. CASE b # id
    <3>1. Owes(b, extras[b]) /\ Buffered(b)' = Buffered(b)
      BY <1>0, <1>1, <2>3 DEF LoopInv, Skewed
    <3> QED BY <2>1, <3>1 DEF Owes
  <2> QED BY <2>2, <2>3
<1>6. ASSUME Undisturbed PROVE /\ \A b \in Ids : Len(calls[b]) = 0 /\ Len(lines'[b]) = 0
                               /\ Line.for = taken
  <2>1. ASSUME NEW b \in Ids PROVE Len(calls[b]) = 0 /\ Len(lines'[b]) = 0
    <3>1. Called(b) + Buffered(b)' <= 0 /\ Called(b) \in Nat /\ Buffered(b)' \in Nat
      BY <1>5, <1>6, <2>1 DEF Undisturbed
    <3>2. Called(b) = 0 /\ Buffered(b)' = 0
      BY <3>1
    <3> QED BY <3>2 DEF Called, Buffered
  <2>2. lines[id][1].for = taken
    <3>1. AnswerInHand
      BY <1>0, <1>6 DEF LoopInv
    <3>2. 1 \in 1..Len(lines[id])
      BY <1>3 DEF Buffered
    <3> QED BY <1>0, <3>1, <3>2 DEF AnswerInHand
  <2> QED BY <1>3, <2>1, <2>2
<1> QED BY <1>4, <1>5, <1>6

\* A response made of the lines read for the request.
LEMMA AnswerResponds ==
  ASSUME LoopInv, HasLine, ReadLine, NEW r, Undisturbed => r.of = {taken}, Respond(r),
         UNCHANGED <<taken, alive, calls, extras>>
  PROVE  LoopInv'
<1>0. /\ lines' = [b \in Ids |-> lines'[b]] /\ \A b \in Ids : IsSeq(lines'[b])
      /\ \A b \in Ids : /\ Called(b) + Buffered(b)' <= extras[b]
                        /\ alive[b] => Called(b) + Buffered(b)' = extras[b]
      /\ Undisturbed => \A b \in Ids : Len(calls[b]) = 0 /\ Len(lines'[b]) = 0
  BY LineRead
<1>1. Shapes /\ pc = "asking"
  BY DEF LoopInv, HasLine
<1>2. /\ replies' = replies /\ pc' = "writing" /\ parts' = {} /\ target' = target
      /\ response' = r
  BY DEF Respond
<1>3. Shapes'
  BY <1>0, <1>1, <1>2 DEF Shapes
<1>4. Skewed'
  <2> SUFFICES ASSUME NEW b \in Ids PROVE ~Waiting(b)' /\ Owes(b, extras[b])'
    BY DEF Skewed
  <2>1. ~Waiting(b)'
    BY <1>2 DEF Waiting
  <2>2. Called(b)' = Called(b)
    BY DEF Called
  <2> QED BY <1>0, <2>1, <2>2 DEF Owes
<1>5. ASSUME Undisturbed' PROVE AnswerInHand' /\ Paired'
  <2>1. Undisturbed /\ AnswerInHand /\ Paired
    BY <1>1, <1>5 DEF Undisturbed, LoopInv
  <2>2. Len(replies') = taken' - 1 /\ response'.of = {taken'}
    BY <1>1, <1>2, <2>1 DEF AnswerInHand
  <2>3. \A b \in Ids : Len(calls'[b]) = 0 /\ Len(lines'[b]) = 0
    BY <1>0, <2>1
  <2> QED BY <1>2, <2>1, <2>2, <2>3 DEF AnswerInHand, Paired
<1> QED BY <1>3, <1>4, <1>5 DEF LoopInv

\* The response is written, or the client has vanished.
LEMMA WriteResponseStep ==
  ASSUME LoopInv, WriteResponse
  PROVE  LoopInv'
<1>1. /\ Shapes /\ pc = "writing" /\ UNCHANGED <<taken, alive, calls, lines, extras>>
  BY DEF LoopInv, WriteResponse, backendVars
<1>2. CASE End
  <2>1. Shapes'
    BY <1>1, <1>2 DEF End, Shapes
  <2> QED BY <1>1, <1>2, <2>1, Ended DEF End
<1>3. CASE /\ replies' = Append(replies, response) /\ pc' = "reading"
           /\ UNCHANGED <<response, target, gathered, parts>>
  <2>1. /\ IsSeq(replies') /\ Len(replies') = Len(replies) + 1 /\ Len(replies) \in Nat
        /\ Paired /\ response.of = {Len(replies) + 1} => Paired'
    BY <1>3, Replied
  <2>2. Shapes'
    BY <1>1, <1>3, <2>1 DEF Shapes
  <2>3. Skewed'
    <3> SUFFICES ASSUME NEW b \in Ids PROVE ~Waiting(b)' /\ Owes(b, extras[b])'
      BY DEF Skewed
    <3>1. ~Waiting(b)' /\ ~Waiting(b)
      BY <1>1, <1>3 DEF Waiting
    <3>2. Owes(b, extras[b]) /\ Called(b)' = Called(b) /\ Buffered(b)' = Buffered(b)
      BY <1>1, <3>1 DEF LoopInv, Skewed, Called, Buffered
    <3> QED BY <1>1, <3>1, <3>2 DEF Owes
  <2>4. ASSUME Undisturbed' PROVE AnswerInHand' /\ Paired'
    <3>1. Undisturbed /\ AnswerInHand /\ Paired
      BY <1>1, <2>4 DEF Undisturbed, LoopInv
    <3>2. /\ Len(replies) + 1 = taken /\ taken \in Nat /\ parts = {}
          /\ response.of = {Len(replies) + 1}
      BY <1>1, <2>1, <3>1 DEF AnswerInHand, Shapes
    <3>3. Paired' /\ Len(replies') = taken
      BY <2>1, <3>1, <3>2
    <3>4. \A b \in Ids : Len(calls'[b]) = 0 /\ Len(lines'[b]) = 0
      BY <1>1, <3>1, NothingOnTheWay
    <3> QED BY <1>1, <1>3, <3>2, <3>3, <3>4 DEF AnswerInHand
  <2> QED BY <2>2, <2>3, <2>4 DEF LoopInv
<1> QED BY <1>2, <1>3 DEF WriteResponse

LEMMA CallAnsweredStep ==
  ASSUME LoopInv, CallAnswered
  PROVE  LoopInv'
<1>1. HasLine /\ ReadLine /\ UNCHANGED <<taken, alive, calls, extras>>
  BY DEF CallAnswered
<1>2. CASE End
  <2>1. Shapes'
    BY <1>1, <1>2, LineRead DEF End, Shapes, LoopInv
  <2> QED BY <1>1, <1>2, <2>1, Ended DEF End
<1>3. CASE Respond(Response("result", {Line.for}, <<>>))
  <2> DEFINE r == Response("result", {Line.for}, <<>>)
  <2>1. Undisturbed => r.of = {taken}
    BY <1>1, LineRead DEF Response
  <2>2. Respond(r)
    BY <1>3
  <2> HIDE DEF r
  <2> QED BY <1>1, <2>1, <2>2, AnswerResponds
<1> QED BY <1>2, <1>3 DEF CallAnswered

LEMMA DiscoverAnsweredStep ==
  ASSUME LoopInv, DiscoverAnswered
  PROVE  LoopInv'
<1>1. HasLine /\ ReadLine /\ UNCHANGED <<taken, alive, extras>>
  BY DEF DiscoverAnswered
<1>2. CASE End /\ UNCHANGED <<calls, received>>
  <2>1. Shapes'
    BY <1>1, <1>2, LineRead DEF End, Shapes, LoopInv
  <2> QED BY <1>1, <1>2, <2>1, Ended DEF End
<1>3. ASSUME NEW tools, UNCHANGED calls,
             Respond(Response("tools", parts \cup {Line.for}, tools))
      PROVE  LoopInv'
  <2> DEFINE r == Response("tools", parts \cup {Line.for}, tools)
  <2>1. Undisturbed => r.of = {taken}
    <3>1. Undisturbed => parts \subseteq {taken}
      BY <1>1 DEF LoopInv, AnswerInHand, HasLine
    <3>2. Undisturbed => Line.for = taken
      BY <1>1, LineRead
    <3> QED BY <3>1, <3>2 DEF Response
  <2>2. Respond(r)
    BY <1>3
  <2> HIDE DEF r
  <2> QED BY <1>1, <1>3, <2>1, <2>2, AnswerResponds
<1>4. CASE /\ target < Len(Backends) /\ Ask(target + 1, Discover(Now), taken)
           /\ parts' = parts \cup {Line.for}
  <2>0. /\ lines' = [b \in Ids |-> lines'[b]] /\ \A b \in Ids : IsSeq(lines'[b])
        /\ \A b \in Ids : /\ Called(b) + Buffered(b)' <= extras[b]
                          /\ alive[b] => Called(b) + Buffered(b)' = extras[b]
        /\ Undisturbed => /\ \A b \in Ids : Len(calls[b]) = 0 /\ Len(lines'[b]) = 0
                          /\ Line.for = taken
    BY <1>1, LineRead
  <2>1. Shapes /\ pc = "asking" /\ target + 1 \in DOMAIN Backends
    BY <1>1, <1>4, BackendsAt DEF LoopInv, Shapes, HasLine
  <2>2. /\ replies' = replies /\ target' \in DOMAIN Backends
        /\ calls' = [b \in Ids |-> calls'[b]]
        /\ \A b \in Ids : IsSeq(calls'[b])
        /\ pc' \in {"ended", "asking"}
    BY <1>4, <2>1, Asked
  <2>3. Shapes'
    BY <1>1, <2>0, <2>1, <2>2 DEF Shapes
  <2>4. CASE pc' = "ended"
    BY <1>1, <2>2, <2>3, <2>4, Ended
  <2>5. CASE pc' = "asking"
    <3>1. Skewed'
      BY <1>1, <1>4, <2>0, <2>1, <2>3, <2>5, AskedSkew
    <3>2. ASSUME Undisturbed' PROVE AnswerInHand' /\ Paired'
      <4>1. Undisturbed /\ AnswerInHand /\ Paired
        BY <1>1, <2>1, <3>2 DEF Undisturbed, LoopInv
      <4>2. parts' \subseteq {taken}
        BY <1>4, <2>0, <4>1 DEF AnswerInHand
      <4>3. \A b \in Ids : \A k \in 1..Len(calls[b]) : calls[b][k] = taken
        BY <2>1, <4>1 DEF AnswerInHand
      <4>4. \A b \in Ids : \A k \in 1..Len(calls'[b]) : calls'[b][k] = taken
        BY <1>4, <2>1, <2>5, <4>3, AskedCalls
      <4>5. \A b \in Ids : Len(lines'[b]) = 0
        BY <2>0, <4>1
      <4> QED BY <1>1, <2>1, <2>2, <2>5, <4>1, <4>2, <4>4, <4>5 DEF AnswerInHand, Paired
    <3> QED BY <2>3, <3>1, <3>2 DEF LoopInv
  <2> QED BY <2>2, <2>4, <2>5
<1> QED BY <1>2, <1>3, <1>4 DEF DiscoverAnswered

-------------------------------------------------------------------------------
\* The backends.

LEMMA AnswersStep ==
  ASSUME LoopInv, NEW b \in Ids, Answers(b)
  PROVE  LoopInv'
<1>0. /\ Shapes /\ pc # "ended" /\ UNCHANGED <<replies, response, pc, taken, target, parts>>
      /\ UNCHANGED <<alive, extras>> /\ calls[b] # <<>>
  BY DEF LoopInv, Answers
<1>1. PICK e : e.for = Head(calls[b]) /\ lines' = [lines EXCEPT ![b] = Append(@, e)]
  <2>1. CASE asked[Head(calls[b])].method = "server/discover"
    <3> DEFINE line == [kind |-> "tools", for |-> Head(calls[b]), tools |-> Tools[b]]
    <3>1. lines' = [lines EXCEPT ![b] = Append(@, line)]
      BY <2>1 DEF Answers
    <3>2. line.for = Head(calls[b])
      OBVIOUS
    <3> HIDE DEF line
    <3> QED BY <3>1, <3>2
  <2>2. CASE asked[Head(calls[b])].method # "server/discover"
    <3> DEFINE line == [kind |-> "result", for |-> Head(calls[b]), tools |-> <<>>]
    <3>1. lines' = [lines EXCEPT ![b] = Append(@, line)]
      BY <2>2 DEF Answers
    <3>2. line.for = Head(calls[b])
      OBVIOUS
    <3> HIDE DEF line
    <3> QED BY <3>1, <3>2
  <2> QED BY <2>1, <2>2
<1>2. /\ calls' = [c \in Ids |-> calls'[c]] /\ lines' = [c \in Ids |-> lines'[c]]
      /\ calls'[b] = Tail(calls[b]) /\ lines'[b] = Append(lines[b], e)
      /\ \A c \in Ids \ {b} : calls'[c] = calls[c] /\ lines'[c] = lines[c]
  BY <1>0, <1>1 DEF Answers, Shapes
<1>3. /\ IsSeq(calls'[b]) /\ Called(b)' = Called(b) - 1 /\ Called(b) \in Nat \ {0}
      /\ Head(calls[b]) = calls[b][1] /\ Len(calls'[b]) = Len(calls[b]) - 1
      /\ \A i \in 1..Len(calls'[b]) : calls'[b][i] = calls[b][i + 1]
  BY <1>0, <1>2, TailFacts DEF Shapes, Called
<1>4. /\ IsSeq(lines'[b]) /\ Buffered(b)' = Buffered(b) + 1 /\ Buffered(b) \in Nat
      /\ Len(lines'[b]) = Len(lines[b]) + 1 /\ lines'[b][Len(lines[b]) + 1] = e
      /\ \A i \in 1..Len(lines[b]) : lines'[b][i] = lines[b][i]
  BY <1>0, <1>2, AppendFacts DEF Shapes, Buffered
<1>5. \A c \in Ids : IsSeq(calls'[c]) /\ IsSeq(lines'[c])
  BY <1>0, <1>2, <1>3, <1>4 DEF Shapes
<1>6. Shapes'
  BY <1>0, <1>2, <1>5 DEF Shapes
<1>7. Skewed'
  <2> SUFFICES ASSUME NEW c \in Ids
               PROVE  /\ Waiting(c)' => Owes(c, extras[c] + 1)'
                      /\ ~Waiting(c)' => Owes(c, extras[c])'
    BY DEF Skewed
  <2>1. Waiting(c)' <=> Waiting(c)
    BY <1>0 DEF Waiting
  <2>2. Called(c)' + Buffered(c)' = Called(c) + Buffered(c)
    <3>1. CASE c = b
      BY <1>3, <1>4, <3>1
    <3>2. CASE c # b
      <4>1. Called(c)' = Called(c) /\ Buffered(c)' = Buffered(c)
        BY <1>2, <3>2 DEF Called, Buffered
      <4> QED BY <4>1
    <3> QED BY <3>1, <3>2
  <2>3. \A n : Owes(c, n)' <=> Owes(c, n)
    BY <1>0, <2>2 DEF Owes
  <2>4. /\ Waiting(c) => Owes(c, extras[c] + 1)
        /\ ~Waiting(c) => Owes(c, extras[c])
    BY <1>0 DEF LoopInv, Skewed
  <2> QED BY <1>0, <2>1, <2>2, <2>4 DEF Owes
<1>8. ASSUME Undisturbed' PROVE AnswerInHand' /\ Paired'
  <2>1. Undisturbed /\ AnswerInHand /\ Paired
    BY <1>0, <1>8 DEF Undisturbed, LoopInv
  <2>2. e.for = taken
    <3>1. 1 \in 1..Len(calls[b])
      BY <1>3 DEF Called
    <3> QED BY <1>1, <1>3, <2>1, <3>1 DEF AnswerInHand
  <2>3. \A i \in 1..Len(calls'[b]) : calls'[b][i] = taken
    <3> SUFFICES ASSUME NEW i \in 1..Len(calls'[b]) PROVE calls'[b][i] = taken
      OBVIOUS
    <3>1. i + 1 \in 1..Len(calls[b])
      BY <1>3 DEF Called
    <3> QED BY <1>3, <2>1, <3>1 DEF AnswerInHand
  <2>4. \A i \in 1..Len(lines'[b]) : lines'[b][i].for = taken
    <3> SUFFICES ASSUME NEW i \in 1..Len(lines'[b]) PROVE lines'[b][i].for = taken
      OBVIOUS
    <3>1. i \in 1..Len(lines[b]) \/ i = Len(lines[b]) + 1
      BY <1>4 DEF Buffered
    <3> QED BY <1>4, <2>1, <2>2, <3>1 DEF AnswerInHand
  <2>5. \A c \in Ids : /\ \A i \in 1..Len(calls'[c]) : calls'[c][i] = taken
                       /\ \A i \in 1..Len(lines'[c]) : lines'[c][i].for = taken
    <3> SUFFICES ASSUME NEW c \in Ids
                 PROVE  /\ \A i \in 1..Len(calls'[c]) : calls'[c][i] = taken
                        /\ \A i \in 1..Len(lines'[c]) : lines'[c][i].for = taken
      OBVIOUS
    <3>1. CASE c = b
      BY <2>3, <2>4, <3>1
    <3>2. CASE c # b
      <4>1. calls'[c] = calls[c] /\ lines'[c] = lines[c]
        BY <1>2, <3>2
      <4>2. /\ \A i \in 1..Len(calls[c]) : calls[c][i] = taken
            /\ \A i \in 1..Len(lines[c]) : lines[c][i].for = taken
        BY <2>1 DEF AnswerInHand
      <4> QED BY <4>1, <4>2
    <3> QED BY <3>1, <3>2
  <2> QED BY <1>0, <2>1, <2>5 DEF AnswerInHand, Paired
<1> QED BY <1>6, <1>7, <1>8 DEF LoopInv

LEMMA ExtraStep ==
  ASSUME LoopInv, NEW b \in Ids, NEW kind, Extra(b, kind)
  PROVE  LoopInv'
<1>0. /\ Shapes /\ pc # "ended"
      /\ UNCHANGED <<replies, response, pc, taken, target, parts, alive, calls>>
  BY DEF LoopInv, Extra
<1>1. PICK e : lines' = [lines EXCEPT ![b] = Append(@, e)]
  BY DEF Extra
<1>2. /\ lines' = [c \in Ids |-> lines'[c]] /\ lines'[b] = Append(lines[b], e)
      /\ \A c \in Ids \ {b} : lines'[c] = lines[c]
  BY <1>0, <1>1 DEF Shapes
<1>3. /\ extras' \in [Ids -> Nat] /\ extras'[b] = extras[b] + 1 /\ extras[b] \in Nat
      /\ \A c \in Ids \ {b} : extras'[c] = extras[c]
  BY <1>0 DEF Extra, Shapes
<1>4. IsSeq(lines'[b]) /\ Buffered(b)' = Buffered(b) + 1 /\ Buffered(b) \in Nat
  BY <1>0, <1>2, AppendFacts DEF Shapes, Buffered
<1>5. \A c \in Ids : IsSeq(calls'[c]) /\ IsSeq(lines'[c])
  BY <1>0, <1>2, <1>4 DEF Shapes
<1>6. Shapes'
  BY <1>0, <1>2, <1>3, <1>5 DEF Shapes
<1>7. Skewed'
  <2> SUFFICES ASSUME NEW c \in Ids
               PROVE  /\ Waiting(c)' => Owes(c, extras[c] + 1)'
                      /\ ~Waiting(c)' => Owes(c, extras[c])'
    BY DEF Skewed
  <2>1. Waiting(c)' <=> Waiting(c)
    BY <1>0 DEF Waiting
  <2>2. /\ Waiting(c) => Owes(c, extras[c] + 1)
        /\ ~Waiting(c) => Owes(c, extras[c])
        /\ Called(c) \in Nat /\ Buffered(c) \in Nat /\ extras[c] \in Nat
    BY <1>0, Lengths DEF LoopInv, Skewed
  <2>3. Called(c)' = Called(c) /\ alive' = alive
    BY <1>0 DEF Called
  <2>4. CASE c = b
    BY <1>3, <1>4, <2>1, <2>2, <2>3, <2>4 DEF Owes
  <2>5. CASE c # b
    <3>1. Buffered(c)' = Buffered(c) /\ extras'[c] = extras[c]
      BY <1>2, <1>3, <2>5 DEF Buffered
    <3> QED BY <2>1, <2>2, <2>3, <3>1 DEF Owes
  <2> QED BY <2>4, <2>5
<1>8. ~Undisturbed'
  BY <1>3 DEF Undisturbed
<1> QED BY <1>6, <1>7, <1>8 DEF LoopInv

LEMMA DiesStep ==
  ASSUME LoopInv, NEW b \in Ids, Dies(b)
  PROVE  LoopInv'
<1>0. Shapes /\ UNCHANGED <<replies, response, pc, taken, target, parts, lines, extras>>
  BY DEF LoopInv, Dies
<1>1. /\ alive' \in [Ids -> BOOLEAN] /\ ~alive'[b] /\ \A c \in Ids \ {b} : alive'[c] = alive[c]
      /\ calls' = [c \in Ids |-> calls'[c]] /\ calls'[b] = <<>>
      /\ \A c \in Ids \ {b} : calls'[c] = calls[c]
  BY <1>0 DEF Dies, Shapes
<1>2. IsSeq(calls'[b]) /\ Called(b)' = 0
  BY <1>1, EmptyIsSeq DEF Called
<1>3. \A c \in Ids : IsSeq(calls'[c]) /\ IsSeq(lines'[c])
  BY <1>0, <1>1, <1>2 DEF Shapes
<1>4. Shapes'
  BY <1>0, <1>1, <1>3 DEF Shapes
<1>5. Skewed'
  <2> SUFFICES ASSUME pc # "ended", NEW c \in Ids
               PROVE  /\ Waiting(c)' => Owes(c, extras[c] + 1)'
                      /\ ~Waiting(c)' => Owes(c, extras[c])'
    BY <1>0 DEF Skewed
  <2>1. (Waiting(c)' <=> Waiting(c)) /\ Buffered(c)' = Buffered(c)
    BY <1>0 DEF Waiting, Buffered
  <2>2. /\ Waiting(c) => Owes(c, extras[c] + 1)
        /\ ~Waiting(c) => Owes(c, extras[c])
        /\ Called(c) \in Nat /\ Buffered(c) \in Nat /\ extras[c] \in Nat
    BY <1>0, Lengths DEF LoopInv, Skewed
  <2>3. CASE c = b
    BY <1>0, <1>1, <1>2, <2>1, <2>2, <2>3 DEF Owes
  <2>4. CASE c # b
    <3>1. Called(c)' = Called(c) /\ alive'[c] = alive[c]
      BY <1>1, <2>4 DEF Called
    <3> QED BY <1>0, <2>1, <2>2, <3>1 DEF Owes
  <2> QED BY <2>3, <2>4
<1>6. ASSUME Undisturbed' PROVE (pc' # "ended" => AnswerInHand') /\ Paired'
  <2>1. Undisturbed /\ (pc # "ended" => AnswerInHand) /\ Paired
    BY <1>0, <1>6 DEF Undisturbed, LoopInv
  <2>2. ASSUME pc # "ended" PROVE AnswerInHand'
    <3>1. \A c \in Ids : \A i \in 1..Len(calls'[c]) : calls'[c][i] = taken
      <4> SUFFICES ASSUME NEW c \in Ids, NEW i \in 1..Len(calls'[c]) PROVE calls'[c][i] = taken
        OBVIOUS
      <4>1. c # b
        BY <1>2 DEF Called
      <4> QED BY <1>1, <2>1, <2>2, <4>1 DEF AnswerInHand
    <3> QED BY <1>0, <2>1, <2>2, <3>1 DEF AnswerInHand
  <2> QED BY <1>0, <2>1, <2>2 DEF Paired
<1> QED BY <1>4, <1>5, <1>6 DEF LoopInv

-------------------------------------------------------------------------------
\* Every step.

LEMMA NextStep ==
  ASSUME LoopInv, [StatelessNext]_statelessVars
  PROVE  LoopInv'
<1>1. CASE Loop
  <2>1. CASE Finish \/ BackendGone
    <3>1. End /\ UNCHANGED <<taken, backendVars>>
      BY <2>1 DEF Finish, BackendGone
    <3>2. Shapes'
      BY <3>1 DEF End, backendVars, LoopInv, Shapes
    <3> QED BY <3>1, <3>2, Ended DEF End, backendVars
  <2> QED BY <1>1, <2>1, TakeStep, CallAnsweredStep, DiscoverAnsweredStep, WriteResponseStep DEF Loop
<1>2. CASE \/ \E request \in Requests \cup {Garbled} : ClientSends(request)
           \/ ClientReads \/ \E how \in {"closed", "gone"} : ClientLeaves(how)
           \/ UNCHANGED statelessVars
  <2>1. UNCHANGED <<replies, response, pc, taken, target, parts, alive, calls, lines, extras>>
    BY <1>2 DEF ClientSends, ClientReads, ClientLeaves, backendVars, statelessVars
  <2>2. Shapes'
    BY <2>1 DEF LoopInv, Shapes
  <2>3. Skewed' <=> Skewed
    BY <2>1 DEF Skewed, Owes, Called, Buffered, Waiting
  <2>4. (Undisturbed' <=> Undisturbed) /\ (AnswerInHand' <=> AnswerInHand) /\ (Paired' <=> Paired)
    BY <2>1 DEF Undisturbed, AnswerInHand, Paired
  <2> QED BY <2>1, <2>2, <2>3, <2>4 DEF LoopInv
<1>3. CASE \E b \in Ids : Answers(b) \/ Dies(b) \/ \E kind \in {"note", "garbage"} : Extra(b, kind)
  BY <1>3, AnswersStep, DiesStep, ExtraStep
<1> QED BY <1>1, <1>2, <1>3 DEF StatelessNext

LEMMA LoopInvariant == StatelessSpec => []LoopInv
<1> QED BY LoopInvInit, NextStep, PTL DEF StatelessSpec

\* Every line nobody asked for shifts the answers of its backend by one, and nothing else
\* does (SyncStdioBackend exchanges one line for one line).
THEOREM SkewIsOfExtras == StatelessSpec => []SkewIsExtra
<1>1. LoopInv => SkewIsExtra
  BY InvSuffices
<1> QED BY <1>1, LoopInvariant, PTL

\* Without such lines every response is to its own request and made of the answers to it,
\* however the client pipelines, whatever is refused and whoever goes away
\* (StatelessForwarder::serve, serve_stateless_l2).
THEOREM ResponsesArePaired == StatelessSpec => []ResponsesPair
<1>1. LoopInv => ResponsesPair
  BY InvSuffices
<1> QED BY <1>1, LoopInvariant, PTL

-------------------------------------------------------------------------------
\* What the backends were sent.

\* A message m in the hands of backend b is what became of the request it is for.
Fits(b, m, request) ==
  /\ ~Rejected(request) /\ m.request.method = request.method
  /\ m.request.method = "tools/call" =>
       /\ request.name = [backend |-> b, tool |-> m.request.name.tool]
       /\ m.request.body = request.body
  /\ variant = "l2" => m.request.hops = request.hops + 1
  /\ variant = "forwarder" => m.request.version \in SupportedVersions \cup {None}

Ordered(s) == \A i, j \in DOMAIN s : i < j => s[i].for < s[j].for
Below(s, n) == \A i \in DOMAIN s : s[i].for < n

RequestsKept ==
  /\ IsSeq(asked) /\ taken \in 0..Len(asked)
  /\ \A i \in DOMAIN asked : asked[i] \in Requests \cup {Garbled}

Sent ==
  /\ received = [b \in Ids |-> received[b]]
  /\ \A b \in Ids : /\ IsSeq(received[b]) /\ Ordered(received[b])
                    /\ \A i \in DOMAIN received[b] : /\ received[b][i].for \in 1..taken
                                                /\ Fits(b, received[b][i], asked[received[b][i].for])

\* The request in hand has passed the checks, and a discover has not been sent to the
\* backends behind the one asked.
Current ==
  pc = "asking" =>
    /\ Now # Garbled /\ ~Rejected(Now)
    /\ Now.method = "server/discover" =>
         \A i \in DOMAIN Backends : target < i => Below(received[Backends[i]], taken)

SentInv == LoopInv /\ RequestsKept /\ Sent /\ Current

\* A message to the i-th backend for the request in hand, which that one had not received.
LEMMA AskSends ==
  ASSUME Shapes, RequestsKept, Sent, NEW i \in DOMAIN Backends, NEW r, NEW n \in Nat,
         Ask(i, r, n), taken' = n, taken <= n, n \in DOMAIN asked, asked' = asked, variant' = variant,
         Below(received[Backends[i]], n),
         Fits(Backends[i], [request |-> r, for |-> n], asked[n])
  PROVE  /\ RequestsKept' /\ Sent'
         /\ \A b \in Ids \ {Backends[i]} : received'[b] = received[b]
<1> DEFINE id == Backends[i]
<1>0. id \in Ids /\ DOMAIN asked = 1..Len(asked) /\ Len(asked) \in Nat /\ taken \in Nat
  BY BackendsAt, SeqFacts DEF RequestsKept, Shapes
<1>1. RequestsKept'
  BY <1>0 DEF RequestsKept
<1>2. \A m, request : Fits(id, m, request)' <=> Fits(id, m, request)
  BY DEF Fits, Rejected
<1>3. \A b, m, request : Fits(b, m, request)' <=> Fits(b, m, request)
  BY DEF Fits, Rejected
<1>4. CASE received' = received
  <2>1. ASSUME NEW b \in Ids, NEW k \in DOMAIN received[b]
        PROVE  received[b][k].for \in 1..n
    BY <1>0 DEF Sent
  <2> QED BY <1>1, <1>3, <1>4, <2>1 DEF Sent
<1>5. CASE received' = [received EXCEPT ![id] = Append(@, [request |-> r, for |-> n])]
  <2> DEFINE m == [request |-> r, for |-> n]
  <2>0. m.for = n /\ Fits(id, m, asked[n])
    OBVIOUS
  <2>1. /\ received' = [b \in Ids |-> received'[b]] /\ received'[id] = Append(received[id], m)
        /\ \A b \in Ids \ {id} : received'[b] = received[b]
    BY <1>0, <1>5 DEF Sent
  <2> HIDE DEF m
  <2>2. IsSeq(received[id])
    BY <1>0 DEF Sent
  <2>3. /\ IsSeq(received'[id]) /\ Len(received'[id]) = Len(received[id]) + 1 /\ Len(received[id]) \in Nat
        /\ received'[id][Len(received[id]) + 1] = m
        /\ \A k \in 1..Len(received[id]) : received'[id][k] = received[id][k]
    BY <2>1, <2>2, AppendFacts
  <2>4. DOMAIN received'[id] = 1..(Len(received[id]) + 1) /\ DOMAIN received[id] = 1..Len(received[id])
    BY <2>2, <2>3, SeqFacts
  <2>5. \A k \in DOMAIN received'[id] :
          \/ k \in DOMAIN received[id] /\ received'[id][k] = received[id][k]
          \/ k = Len(received[id]) + 1 /\ received'[id][k] = m
    BY <2>3, <2>4
  <2>6. \A k \in DOMAIN received[id] : /\ received[id][k].for \in 1..taken
                                  /\ Fits(id, received[id][k], asked[received[id][k].for])
    BY <1>0 DEF Sent
  <2>7. Ordered(received'[id])
    <3> SUFFICES ASSUME NEW k \in DOMAIN received'[id], NEW j \in DOMAIN received'[id], k < j
                 PROVE  received'[id][k].for < received'[id][j].for
      BY DEF Ordered
    <3>1. k \in DOMAIN received[id] /\ received'[id][k] = received[id][k]
      BY <2>3, <2>4, <2>5
    <3>2. CASE j \in DOMAIN received[id] /\ received'[id][j] = received[id][j]
      <4>1. Ordered(received[id])
        BY <1>0 DEF Sent
      <4> QED BY <3>1, <3>2, <4>1 DEF Ordered
    <3>3. CASE received'[id][j] = m
      BY <2>0, <3>1, <3>3 DEF Below
    <3> QED BY <2>5, <3>2, <3>3
  <2>8. ASSUME NEW k \in DOMAIN received'[id]
        PROVE  received'[id][k].for \in 1..n /\ Fits(id, received'[id][k], asked[received'[id][k].for])
    <3>1. CASE k \in DOMAIN received[id] /\ received'[id][k] = received[id][k]
      BY <1>0, <2>6, <3>1
    <3>2. CASE received'[id][k] = m
      BY <1>0, <2>0, <3>2
    <3> QED BY <2>5, <3>1, <3>2
  <2>9. ASSUME NEW b \in Ids
        PROVE  /\ IsSeq(received'[b]) /\ Ordered(received'[b])
               /\ \A k \in DOMAIN received'[b] : /\ received'[b][k].for \in 1..n
                                            /\ Fits(b, received'[b][k], asked[received'[b][k].for])
    <3>1. CASE b = id
      BY <2>3, <2>7, <2>8, <3>1
    <3>2. CASE b # id
      <4>1. received'[b] = received[b]
        BY <2>1, <3>2
      <4>2. /\ IsSeq(received[b]) /\ Ordered(received[b])
            /\ \A k \in DOMAIN received[b] : /\ received[b][k].for \in 1..taken
                                        /\ Fits(b, received[b][k], asked[received[b][k].for])
        BY DEF Sent
      <4>3. \A x : x \in 1..taken => x \in 1..n
        BY <1>0
      <4> QED BY <4>1, <4>2, <4>3
    <3> QED BY <3>1, <3>2
  <2>10. Sent'
    BY <1>3, <2>1, <2>9 DEF Sent
  <2> QED BY <1>1, <2>1, <2>10
<1> QED BY <1>4, <1>5 DEF Ask

\* The fields of what is sent.
LEMMA ForwardedFits ==
  ASSUME NEW request \in Requests, NEW n, ~Rejected(request), request.method = "tools/call",
         Known(request), variant \in {"forwarder", "l2"}
  PROVE  Fits(request.name.backend, [request |-> Forwarded(request), for |-> n], request)
<1>1. /\ request = [method |-> request.method, name |-> request.name, body |-> request.body,
                    version |-> request.version, hops |-> request.hops]
      /\ request.name = [backend |-> request.name.backend, tool |-> request.name.tool]
  BY StatelessAssumption DEF Known
<1>2. /\ Forwarded(request).method = request.method
      /\ Forwarded(request).body = request.body
      /\ Forwarded(request).name.tool = request.name.tool
      /\ variant = "l2" => Forwarded(request).hops = request.hops + 1
      /\ variant = "forwarder" => Forwarded(request).version = negotiate(request.version)
  BY <1>1 DEF Forwarded
<1>3. variant = "forwarder" => negotiate(request.version) \in SupportedVersions
  BY DEF Rejected, negotiate, SupportedVersions
<1> QED BY <1>1, <1>2, <1>3 DEF Fits

LEMMA DiscoverFits ==
  ASSUME NEW b, NEW request, NEW n, ~Rejected(request), request.method = "server/discover",
         variant \in {"forwarder", "l2"}
  PROVE  Fits(b, [request |-> Discover(request), for |-> n], request)
<1>1. /\ Discover(request).method = "server/discover"
      /\ variant = "l2" => Discover(request).hops = request.hops + 1
      /\ variant = "forwarder" => Discover(request).version = None
  BY DEF Discover
<1> QED BY <1>1 DEF Fits

LEMMA SentInit == StatelessInit => SentInv /\ variant \in {"forwarder", "l2"}
<1> SUFFICES ASSUME StatelessInit PROVE RequestsKept /\ Sent /\ Current /\ variant \in {"forwarder", "l2"}
  BY LoopInvInit DEF SentInv
<1>1. IsSeq(<<>>) /\ Len(<<>>) = 0 /\ DOMAIN <<>> = {}
  BY EmptyIsSeq
<1>2. RequestsKept
  BY <1>1 DEF StatelessInit, RequestsKept
<1>3. \A b \in Ids : received[b] = <<>>
  BY DEF StatelessInit
<1>4. Sent
  <2>1. received = [b \in Ids |-> received[b]]
    BY DEF StatelessInit
  <2> QED BY <1>1, <1>3, <2>1 DEF Sent, Ordered
<1> QED BY <1>2, <1>4 DEF StatelessInit, Current

\* Steps that send nothing.
LEMMA NothingSent ==
  ASSUME RequestsKept, Sent, received' = received, variant' = variant, taken' \in taken..Len(asked), Shapes,
         asked' = asked \/ \E r \in Requests \cup {Garbled} : asked' = Append(asked, r)
  PROVE  /\ RequestsKept' /\ Sent'
         /\ \A i \in 1..Len(asked) : asked'[i] = asked[i]
<1>0. /\ Len(asked) \in Nat /\ DOMAIN asked = 1..Len(asked) /\ taken \in Nat
      /\ \A i \in DOMAIN asked : asked[i] \in Requests \cup {Garbled}
  BY SeqFacts DEF RequestsKept, Shapes
<1>1. /\ IsSeq(asked') /\ Len(asked') >= Len(asked) /\ Len(asked') \in Nat
      /\ \A i \in 1..Len(asked) : asked'[i] = asked[i]
      /\ \A i \in DOMAIN asked' : asked'[i] \in Requests \cup {Garbled}
  <2>1. CASE asked' = asked
    BY <1>0, <2>1 DEF RequestsKept
  <2>2. ASSUME NEW r \in Requests \cup {Garbled}, asked' = Append(asked, r)
        PROVE  /\ IsSeq(asked') /\ Len(asked') >= Len(asked) /\ Len(asked') \in Nat
               /\ \A i \in 1..Len(asked) : asked'[i] = asked[i]
               /\ \A i \in DOMAIN asked' : asked'[i] \in Requests \cup {Garbled}
    <3>1. IsSeq(asked)
      BY DEF RequestsKept
    <3>2. /\ IsSeq(asked') /\ Len(asked') = Len(asked) + 1
          /\ asked'[Len(asked) + 1] = r
          /\ \A i \in 1..Len(asked) : asked'[i] = asked[i]
      BY <2>2, <3>1, AppendFacts
    <3>3. DOMAIN asked' = 1..(Len(asked) + 1)
      BY <3>2, SeqFacts
    <3>4. \A i \in DOMAIN asked' : i \in DOMAIN asked \/ i = Len(asked) + 1
      BY <1>0, <3>3
    <3>5. \A i \in DOMAIN asked' : asked'[i] \in Requests \cup {Garbled}
      BY <1>0, <2>2, <3>2, <3>4
    <3>6. Len(asked') >= Len(asked) /\ Len(asked') \in Nat
      BY <1>0, <3>2
    <3> QED BY <3>2, <3>5, <3>6
  <2> QED BY <2>1, <2>2
<1>2. RequestsKept'
  BY <1>0, <1>1 DEF RequestsKept
<1>3. \A b, m, request : Fits(b, m, request)' <=> Fits(b, m, request)
  BY DEF Fits, Rejected
<1>4. ASSUME NEW b \in Ids, NEW i \in DOMAIN received[b]
      PROVE  received[b][i].for \in 1..taken' /\ asked'[received[b][i].for] = asked[received[b][i].for]
  <2>1. received[b][i].for \in 1..taken
    BY DEF Sent
  <2> QED BY <1>0, <1>1, <2>1 DEF RequestsKept
<1>5. Sent'
  BY <1>3, <1>4 DEF Sent
<1> QED BY <1>1, <1>2, <1>5

LEMMA TakeSends ==
  ASSUME SentInv, variant \in {"forwarder", "l2"}, TakeRequest
  PROVE  RequestsKept' /\ Sent' /\ Current'
<1>0. /\ Shapes /\ RequestsKept /\ Sent /\ taken \in Nat /\ pc = "reading"
      /\ taken' = taken + 1 /\ taken + 1 \in taken..Len(asked) /\ taken < Len(asked)
      /\ asked' = asked /\ variant' = variant
      /\ DOMAIN asked = 1..Len(asked) /\ Len(asked) \in Nat /\ taken + 1 \in DOMAIN asked
  <2>1. /\ Shapes /\ RequestsKept /\ Sent /\ pc = "reading" /\ taken' = taken + 1
        /\ taken < Len(asked) /\ asked' = asked /\ variant' = variant
    BY DEF SentInv, LoopInv, TakeRequest, clientVars
  <2>2. taken \in Nat /\ DOMAIN asked = 1..Len(asked) /\ Len(asked) \in Nat
    BY <2>1, SeqFacts DEF Shapes, RequestsKept
  <2> QED BY <2>1, <2>2
<1> DEFINE request == asked[taken + 1]
<1>1. request \in Requests \cup {Garbled} /\ Now' = request
  BY <1>0 DEF RequestsKept, Now
<1>2. \A b \in Ids : Below(received[b], taken + 1)
  <2> SUFFICES ASSUME NEW b \in Ids, NEW i \in DOMAIN received[b] PROVE received[b][i].for < taken + 1
    BY DEF Below
  <2>1. received[b][i].for \in 1..taken
    BY <1>0 DEF Sent
  <2> QED BY <1>0, <2>1
<1>3. CASE UNCHANGED received /\ pc' # "asking"
  BY <1>0, <1>3, NothingSent DEF Current
<1>4. \A r : Rejected(r)' <=> Rejected(r)
  BY <1>0 DEF Rejected
<1>5. ASSUME request # Garbled, ~Rejected(request), request.method = "tools/call",
             Known(request),
             Ask(Position(request.name.backend), Forwarded(request), taken + 1)
      PROVE  RequestsKept' /\ Sent' /\ Current'
  <2> DEFINE i == Position(request.name.backend)
  <2>1. i \in DOMAIN Backends /\ Backends[i] = request.name.backend
    BY <1>5 DEF Position, Known, Ids
  <2>2. request \in Requests
    BY <1>1, <1>5
  <2>3. Fits(Backends[i], [request |-> Forwarded(request), for |-> taken + 1], request)
    BY <1>5, <2>1, <2>2, ForwardedFits
  <2>4. Below(received[Backends[i]], taken + 1)
    BY <1>2, <2>1, BackendsAt
  <2> HIDE DEF i
  <2>5. RequestsKept' /\ Sent'
    BY <1>0, <1>5, <2>1, <2>3, <2>4, AskSends DEF i
  <2>6. Current'
    BY <1>1, <1>4, <1>5 DEF Current
  <2> QED BY <2>5, <2>6
<1>6. ASSUME request # Garbled, ~Rejected(request), request.method = "server/discover",
             Ask(1, Discover(request), taken + 1)
      PROVE  RequestsKept' /\ Sent' /\ Current'
  <2>1. 1 \in DOMAIN Backends
    BY BackendsAt
  <2>2. Fits(Backends[1], [request |-> Discover(request), for |-> taken + 1], request)
    BY <1>6, DiscoverFits
  <2>3. Below(received[Backends[1]], taken + 1)
    BY <1>2, <2>1, BackendsAt
  <2>4. /\ RequestsKept' /\ Sent'
        /\ \A b \in Ids \ {Backends[1]} : received'[b] = received[b]
    BY <1>0, <1>6, <2>1, <2>2, <2>3, AskSends
  <2>5. Current'
    <3> SUFFICES ASSUME pc' = "asking", NEW i \in DOMAIN Backends, target' < i
                 PROVE  Below(received'[Backends[i]], taken + 1)
      BY <1>0, <1>1, <1>4, <1>6 DEF Current
    <3>1. target' = 1
      BY <1>0, <1>6, <2>1, Asked
    <3>2. Backends[i] \in Ids \ {Backends[1]}
      BY <2>1, <3>1, BackendsAt, StatelessAssumption
    <3> QED BY <1>2, <2>4, <3>2
  <2> QED BY <2>4, <2>5
<1>7. CASE Respond(Rejection(taken + 1)) /\ UNCHANGED <<calls, received>>
  BY <1>3, <1>7 DEF Respond, End
<1> QED BY <1>3, <1>5, <1>6, <1>7 DEF TakeRequest, End

LEMMA DiscoverSends ==
  ASSUME SentInv, variant \in {"forwarder", "l2"}, DiscoverAnswered
  PROVE  RequestsKept' /\ Sent' /\ Current'
<1>0. /\ Shapes /\ RequestsKept /\ Sent /\ Current /\ pc = "asking" /\ Now.method = "server/discover"
      /\ UNCHANGED <<taken, asked, variant>> /\ taken \in Nat \ {0} /\ taken \in DOMAIN asked
      /\ taken \in taken..Len(asked)
  <2>1. /\ Shapes /\ RequestsKept /\ Sent /\ Current /\ pc = "asking"
        /\ Now.method = "server/discover" /\ UNCHANGED <<taken, asked, variant>>
    BY DEF SentInv, LoopInv, DiscoverAnswered, HasLine, clientVars
  <2>2. taken \in Nat \ {0} /\ DOMAIN asked = 1..Len(asked) /\ Len(asked) \in Nat
    BY <2>1, SeqFacts DEF Shapes, RequestsKept
  <2> QED BY <2>1, <2>2 DEF RequestsKept
<1>1. Now # Garbled /\ ~Rejected(Now) /\ Now' = Now /\ (Rejected(Now)' <=> Rejected(Now))
  BY <1>0 DEF Current, Now, Rejected
<1>2. CASE UNCHANGED received /\ pc' # "asking"
  BY <1>0, <1>2, NothingSent DEF Current
<1>3. CASE target < Len(Backends) /\ Ask(target + 1, Discover(Now), taken)
  <2>1. /\ target + 1 \in DOMAIN Backends /\ target \in Nat
        /\ \A i \in DOMAIN Backends : i \in Nat
    BY <1>0, <1>3, BackendsAt DEF Shapes
  <2>2. Fits(Backends[target + 1], [request |-> Discover(Now), for |-> taken], asked[taken])
    BY <1>0, <1>1, DiscoverFits DEF Now
  <2>3. Below(received[Backends[target + 1]], taken)
    BY <1>0, <2>1 DEF Current
  <2>4. /\ RequestsKept' /\ Sent'
        /\ \A b \in Ids \ {Backends[target + 1]} : received'[b] = received[b]
    BY <1>0, <1>3, <2>1, <2>2, <2>3, AskSends
  <2>5. Current'
    <3> SUFFICES ASSUME pc' = "asking", NEW i \in DOMAIN Backends, target' < i
                 PROVE  Below(received'[Backends[i]], taken)
      BY <1>0, <1>1 DEF Current
    <3>1. target' = target + 1
      BY <1>0, <1>3, <2>1, Asked
    <3>2. i # target + 1 /\ target < i
      BY <2>1, <3>1
    <3>3. Backends[i] \in Ids \ {Backends[target + 1]}
      BY <2>1, <3>2, BackendsAt, StatelessAssumption
    <3>4. Below(received[Backends[i]], taken)
      BY <1>0, <3>2 DEF Current
    <3> QED BY <2>4, <3>3, <3>4
  <2> QED BY <2>4, <2>5
<1>4. ASSUME NEW r, Respond(r), UNCHANGED <<calls, received>>
      PROVE  RequestsKept' /\ Sent' /\ Current'
  BY <1>2, <1>4 DEF Respond, End
<1> QED BY <1>2, <1>3, <1>4 DEF DiscoverAnswered, End

LEMMA SentStep ==
  ASSUME SentInv, variant \in {"forwarder", "l2"}, [StatelessNext]_statelessVars
  PROVE  SentInv' /\ variant' = variant
<1>0. LoopInv' /\ Shapes /\ RequestsKept /\ Sent /\ Current /\ LoopInv /\ variant' = variant
  <2>1. variant' = variant
    BY DEF StatelessNext, Loop, ClientSends, ClientReads, ClientLeaves, TakeRequest, Finish, CallAnswered,
           DiscoverAnswered, BackendGone, WriteResponse, Answers, Dies, Extra, statelessVars
  <2> QED BY <2>1, NextStep DEF SentInv, LoopInv
<1>1. taken \in taken..Len(asked) /\ Len(asked) \in Nat /\ taken \in Nat
  BY <1>0, SeqFacts DEF RequestsKept, Shapes
<1>2. CASE TakeRequest
  BY <1>0, <1>2, TakeSends DEF SentInv
<1>3. CASE DiscoverAnswered
  BY <1>0, <1>3, DiscoverSends DEF SentInv
<1>4. CASE Finish \/ BackendGone \/ CallAnswered \/ WriteResponse
  <2>1. UNCHANGED <<received, asked, taken>> /\ pc' # "asking"
    BY <1>4 DEF Finish, BackendGone, CallAnswered, WriteResponse, End, Respond, backendVars,
                clientVars
  <2> QED BY <1>0, <1>1, <2>1, NothingSent DEF SentInv, Current
<1>5. ASSUME UNCHANGED <<received, pc, taken, target>>,
             asked' = asked \/ \E r \in Requests \cup {Garbled} : asked' = Append(asked, r)
      PROVE  RequestsKept' /\ Sent' /\ Current'
  <2>1. RequestsKept' /\ Sent' /\ \A i \in 1..Len(asked) : asked'[i] = asked[i]
    BY <1>0, <1>1, <1>5, NothingSent
  <2>2. CASE pc # "asking"
    BY <1>5, <2>1, <2>2 DEF Current
  <2>3. CASE pc = "asking"
    <3>1. taken \in 1..Len(asked)
      BY <1>0, <1>1, <2>3 DEF Shapes
    <3>2. Now' = Now
      BY <1>5, <2>1, <3>1 DEF Now
    <3>3. Rejected(Now)' <=> Rejected(Now)
      BY <1>0, <3>2 DEF Rejected
    <3> QED BY <1>0, <1>5, <2>1, <2>3, <3>2, <3>3 DEF Current
  <2> QED BY <2>2, <2>3
<1>6. CASE \/ \E request \in Requests \cup {Garbled} : ClientSends(request)
           \/ ClientReads \/ \E how \in {"closed", "gone"} : ClientLeaves(how)
           \/ \E b \in Ids : Answers(b) \/ Dies(b) \/ \E kind \in {"note", "garbage"} : Extra(b, kind)
           \/ UNCHANGED statelessVars
  <2>1. /\ UNCHANGED <<received, pc, taken, target>>
        /\ asked' = asked \/ \E r \in Requests \cup {Garbled} : asked' = Append(asked, r)
    BY <1>6 DEF ClientSends, ClientReads, ClientLeaves, Answers, Dies, Extra, statelessVars,
                backendVars, clientVars
  <2> QED BY <1>0, <1>5, <2>1 DEF SentInv
<1> QED BY <1>2, <1>3, <1>4, <1>6 DEF StatelessNext, Loop

\* No refused or unroutable request reaches a backend, none the wrong one, each at most
\* once and in the client's order, under the name the backend knows (level 2 rewrites the
\* header and not the body; a discover goes to every backend, once).
THEOREM CallsReachTheirOwner == StatelessSpec => []CallsReachOwner
<1> DEFINE I == SentInv /\ variant \in {"forwarder", "l2"}
<1>1. StatelessInit => I
  BY SentInit
<1>2. I /\ [StatelessNext]_statelessVars => I'
  BY SentStep
<1>3. I => CallsReachOwner
  BY DEF SentInv, Sent, Ordered, Fits, CallsReachOwner
<1> QED BY <1>1, <1>2, <1>3, PTL DEF StatelessSpec
===============================================================================
