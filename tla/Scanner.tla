-------------------------------- MODULE Scanner --------------------------------
(***************************************************************************)
(* ContentScanner and its CalloutClient: the content blocks of a message   *)
(* are sent one by one to a scanning service over a framed stream, each in *)
(* a preview call and, if the service continues, in a body call.  Answers  *)
(* carry no id: the next line of the stream is the answer, also after a    *)
(* call whose deadline passed.  The stream to the service holds so many    *)
(* calls it has not read; the write of the next one waits for it, and no   *)
(* deadline bounds that wait.  A verdict cache keyed by content spares     *)
(* the second call for the same payload.                                   *)
(*                                                                         *)
(* A payload is a model value.  What the service says is a record; every   *)
(* answer also carries, as a ghost, the payload it is about.               *)
(***************************************************************************)
EXTENDS Naturals, Sequences, FiniteSets

CONSTANTS
  Payloads,    \* contents a block may have
  Oversize,    \* those above the byte budget
  Clean,       \* what a rewriting service puts in place of a payload
  Bytes,       \* the same, of bytes that are no UTF-8
  Replaced,    \* the text that is made of them
  Undecodable, \* a base64 field that does not decode
  None,
  Host,        \* ghost: the verdict is the failure policy's, not the service's
  Messages,    \* messages to scan: the items of result.content and result.contents
  Setups,      \* failure policy, deadline, cache
  Capacity,    \* calls the stream holds that the service has not read
  MaxScans     \* bound of the instance: messages scanned

ASSUME ScannerAssumption ==
  /\ Oversize \subseteq Payloads /\ MaxScans \in Nat /\ Capacity \in Nat \ {0}
  /\ Cardinality({Clean, Bytes, Replaced, Undecodable, None, Host}) = 6
  /\ {Clean, Bytes, Replaced, Undecodable, None, Host} \cap Payloads = {}
  /\ Setups \subseteq [policy: {"fail_open", "fail_closed"}, deadline: BOOLEAN,
                       cached: BOOLEAN]

VARIABLES
  setup,
  cache,       \* VerdictCache: payload -> verdict or None
  \* --- the stream to the service ---
  requests, answers,   \* calls not answered yet, answers not read yet
  unread,      \* of the calls, the last ones that the service has not read
  serving,     \* the service reads and answers
  \* --- the scan that runs ---
  pc,          \* "idle", "next" block, "preview" or "body" awaited, "more" to send, "done"
  original, working, at, provenance, outcome,
  taken,       \* history: the verdict on each block so far, None if skipped
  late,        \* history: calls given up at their deadline
  scans

streamVars == <<requests, unread, answers, serving>>
scanVars   == <<original, working, provenance, outcome, taken, at, pc>>
vars == <<setup, cache, streamVars, scanVars, late, scans>>

-------------------------------------------------------------------------------
\* Content blocks.

\* The descriptor of an item.  An inline payload is text or decoded bytes; a link and
\* an unknown item have none, nor has a binary field that does not decode.
Path(array, i) == [array |-> array, index |-> i]
Inline(item) ==
  IF item.type \in {"text", "binary"} /\ item.data # Undecodable THEN item.data ELSE None
Descriptor(array, i, item) ==
  [path |-> Path(array, i), payload |-> Inline(item), text |-> item.type = "text"]

\* The blocks of a message, those of content first; an item of contents without text and
\* blob has none.
HasPayloadField(item) == item.type \in {"text", "binary"}
blocks(message) ==
  LET content == [i \in DOMAIN message.content |-> Descriptor("content", i, message.content[i])]
      upTo[n \in 0..Len(message.contents)] ==
        IF n = 0 THEN content
        ELSE IF HasPayloadField(message.contents[n])
        THEN Append(upTo[n - 1], Descriptor("contents", n, message.contents[n]))
        ELSE upTo[n - 1]
  IN  upTo[Len(message.contents)]

\* Bytes become text by from_utf8_lossy, which keeps UTF-8 as it is.
Written(block, content) == IF block.text /\ content = Bytes THEN Replaced ELSE content

\* A rewrite of contents that is looked for in content.
apply_mutation_inContent(message, block, content) ==
  IF block.path.index \notin DOMAIN message.content THEN message
  ELSE [message EXCEPT !.content[block.path.index].data = Written(block, content)]

\* set_text and set_bytes put the new content where the block was found.
apply_mutation(message, block, content) ==
  [message EXCEPT ![block.path.array][block.path.index].data = Written(block, content)]

\* What scans meet: a message has its two arrays of items, and their inline payloads are
\* among the payloads.
ASSUME MessagesAssumption ==
  \A m \in Messages :
    /\ m = [array \in {"content", "contents"} |-> m[array]]
    /\ \A array \in {"content", "contents"} :
         /\ m[array] \in Seq({[type |-> m[array][i].type, data |-> m[array][i].data] :
                               i \in DOMAIN m[array]})
         /\ \A i \in DOMAIN m[array] : Inline(m[array][i]) \in Payloads \cup {None}

-------------------------------------------------------------------------------
\* Verdicts.

Verdict(kind, content, notes, by) ==
  [kind |-> kind, content |-> content, notes |-> notes, by |-> by]

Terminal == {"allow", "deny", "mutate", "annotate", "quarantine"}
Verdicts ==
  [kind: Terminal \cup {"continue"}, content: {Clean, Bytes, None}, notes: SUBSET {"icap", "dlp"},
   by: Payloads \cup {Host}]

ASSUME VerdictAssumption == None \notin Verdicts

\* The two policies mixed up.
resolve_failure_swapped(policy) == IF policy = "fail_open" THEN "deny" ELSE "allow"

resolve_failure(policy) == IF policy = "fail_closed" THEN "deny" ELSE "allow"
Failed == Verdict(resolve_failure(setup.policy), None, {}, Host)

\* What the ICAP bridge makes of a server's response.
Icap == [threat: BOOLEAN, status: {200, 204, 403, 500}, modified: {Clean, Bytes, Undecodable, None}]
Says(verdict, content, notes) == [verdict |-> verdict, content |-> content, notes |-> notes]
icap_to_callout(r) ==
  CASE r.threat -> Says("quarantine", None, {})
    [] ~r.threat /\ r.status = 204 -> Says("allow", None, {})
    [] ~r.threat /\ r.status = 200 /\ r.modified # None -> Says("mutate", r.modified, {"icap"})
    [] ~r.threat /\ r.status = 200 /\ r.modified = None -> Says("allow", None, {})
    [] OTHER -> Says("deny", None, {})

\* Other services use the rest of the protocol; a line may also be no answer at all.
Garbage == Says("garbage", None, {})
Sayings == {icap_to_callout(r) : r \in Icap}
           \cup {Says("annotate", None, {"dlp"}), Says("continue", None, {}), Garbage}

parse_verdict(answer) ==
  LET says == answer.says
  IN  CASE says.verdict \notin Terminal \cup {"continue"} -> Failed
        [] says.verdict = "mutate" ->
             Verdict("mutate", IF says.content = Undecodable THEN None ELSE says.content,
                     says.notes, answer.about)
        [] OTHER -> Verdict(says.verdict, None, says.notes, answer.about)

-------------------------------------------------------------------------------
\* The scan.

Blocks == blocks(original)
Block == Blocks[at]
Awaiting == pc \in {"preview", "body"}
Scanning == pc \in {"next", "more"} \/ Awaiting

NoMessage == [content |-> <<>>, contents |-> <<>>]

Init ==
  /\ setup \in Setups
  /\ cache = [p \in Payloads |-> None]
  /\ requests = <<>> /\ unread = 0 /\ answers = <<>> /\ serving = TRUE
  /\ pc = "idle" /\ original = NoMessage /\ working = NoMessage /\ at = 1
  /\ provenance = {} /\ outcome = "none" /\ taken = <<>>
  /\ late = 0 /\ scans = 0

Begin(m) ==
  /\ pc \in {"idle", "done"} /\ scans < MaxScans
  /\ scans' = scans + 1
  /\ pc' = "next" /\ original' = m /\ working' = m /\ at' = 1
  /\ provenance' = {} /\ outcome' = "none" /\ taken' = <<>>
  /\ UNCHANGED <<setup, cache, streamVars, late>>

\* The scanner's share of a verdict: a terminal one ends the scan, a rewrite is put in
\* the block if its content decoded, notes are gathered.
Judge(v) ==
  /\ taken' = Append(taken, v)
  /\ IF v.kind \in {"deny", "quarantine"}
     THEN /\ outcome' = "block" /\ pc' = "done"
          /\ UNCHANGED <<working, provenance, at>>
     ELSE /\ working' = IF v.kind = "mutate" /\ v.content # None
                        THEN apply_mutation(working, Block, v.content) ELSE working
          /\ provenance' = provenance \cup v.notes
          /\ at' = at + 1 /\ pc' = "next" /\ UNCHANGED outcome
  /\ UNCHANGED original

\* Kept under the payload of the message's first block.
Settle_first(v) ==
  /\ cache' = IF setup.cached /\ v.kind # "continue" /\ Blocks[1].payload # None
              THEN [cache EXCEPT ![Blocks[1].payload] = v] ELSE cache
  /\ Judge(v)

\* The client's share: every verdict but continue is kept, failures too.
Settle(v) ==
  /\ cache' = IF setup.cached /\ v.kind # "continue"
              THEN [cache EXCEPT ![Block.payload] = v] ELSE cache
  /\ Judge(v)

\* A block without inline payload is passed over.
Skip ==
  /\ pc = "next" /\ at <= Len(Blocks) /\ Block.payload = None
  /\ at' = at + 1 /\ taken' = Append(taken, None)
  /\ UNCHANGED <<setup, cache, streamVars, pc, original, working, provenance, outcome,
                 late, scans>>

Scannable == pc = "next" /\ at <= Len(Blocks) /\ Block.payload # None
Fits == Block.payload \notin Oversize
Hit == setup.cached /\ cache[Block.payload] # None

\* A write waits for room on the stream, whatever the deadline.  To a service that went
\* away it fails, or goes into a buffer nobody reads.
Put ==
  IF serving
  THEN /\ unread < Capacity /\ unread' = unread + 1
       /\ requests' = Append(requests, [about |-> Block.payload, torn |-> FALSE])
  ELSE UNCHANGED <<requests, unread>>

\* The budget looked at only after the call was sent.
OverBudget_afterSend ==
  /\ Scannable /\ ~Fits /\ Judge(Failed) /\ Put
  /\ UNCHANGED <<setup, cache, answers, serving, late, scans>>

OverBudget ==
  /\ Scannable /\ ~Fits /\ Judge(Failed)
  /\ UNCHANGED <<setup, cache, streamVars, late, scans>>

CacheHit ==
  /\ Scannable /\ Fits /\ Hit /\ Judge(cache[Block.payload])
  /\ UNCHANGED <<setup, cache, streamVars, late, scans>>

Send(phase) ==
  /\ Put /\ pc' = phase
  /\ UNCHANGED <<cache, original, working, provenance, outcome, taken, at>>
SendFails == ~serving /\ Settle(Failed) /\ UNCHANGED <<requests, unread>>
Call(phase) == (Send(phase) \/ SendFails) /\ UNCHANGED <<setup, answers, serving, late, scans>>

\* How much of the payload the preview carries changes nothing here.
Preview == Scannable /\ Fits /\ ~Hit /\ Call("preview")

\* The next line of the stream is taken for the answer.
Said == parse_verdict(Head(answers))
AsksForMore == pc = "preview" /\ Said.kind = "continue"

Receive ==
  /\ Awaiting /\ answers # <<>> /\ ~AsksForMore
  /\ answers' = Tail(answers) /\ Settle(Said)
  /\ UNCHANGED <<setup, requests, unread, serving, late, scans>>

\* A preview that asks for more is followed by the body.
Escalate ==
  /\ Awaiting /\ answers # <<>> /\ AsksForMore
  /\ answers' = Tail(answers) /\ pc' = "more"
  /\ UNCHANGED <<setup, cache, requests, unread, serving, original, working, at, provenance,
                 outcome, taken, late, scans>>

Body == pc = "more" /\ Call("body")

Closed ==
  /\ Awaiting /\ answers = <<>> /\ ~serving /\ Settle(Failed)
  /\ UNCHANGED <<setup, streamVars, late, scans>>

\* A deadline on the preview call only.
Deadline_previewOnly ==
  /\ pc = "preview" /\ answers = <<>> /\ setup.deadline
  /\ Settle(Failed) /\ late' = late + 1
  /\ UNCHANGED <<setup, streamVars, scans>>

\* The deadline drops the read; what had been read of a line by then is gone, so its
\* rest will not decode.
Deadline ==
  /\ Awaiting /\ answers = <<>> /\ setup.deadline
  /\ Settle(Failed)
  /\ \/ UNCHANGED requests
     \/ Len(requests) > unread /\ requests' = [requests EXCEPT ![1].torn = TRUE]
  /\ late' = late + 1
  /\ UNCHANGED <<setup, unread, answers, serving, scans>>

Finish ==
  /\ pc = "next" /\ at > Len(Blocks)
  /\ pc' = "done" /\ outcome' = "forward"
  /\ UNCHANGED <<setup, cache, streamVars, original, working, at, provenance, taken,
                 late, scans>>

\* The service reads and answers its calls in order, and may go away.
Read ==
  /\ unread > 0 /\ unread' = unread - 1
  /\ UNCHANGED <<setup, cache, requests, answers, serving, scanVars, late, scans>>

Answer(says) ==
  /\ serving /\ Len(requests) > unread
  /\ requests' = Tail(requests)
  /\ answers' = Append(answers, [about |-> Head(requests).about,
                                 says |-> IF Head(requests).torn THEN Garbage ELSE says])
  /\ UNCHANGED <<setup, cache, unread, serving, scanVars, late, scans>>

Leave ==
  /\ serving /\ serving' = FALSE /\ requests' = <<>> /\ unread' = 0
  /\ UNCHANGED <<setup, cache, answers, scanVars, late, scans>>

Scan ==
  \/ Skip \/ OverBudget \/ CacheHit
  \/ Preview \/ Receive \/ Escalate \/ Body \/ Closed
  \/ Finish
Next ==
  \/ \E m \in Messages : Begin(m)
  \/ Scan \/ Deadline \/ Read \/ Leave
  \/ \E says \in Sayings : Answer(says)

Spec == Init /\ [][Next]_vars

\* The task of the scan and its timer are run by the executor; the service need not read
\* what it is sent.
UnreadSpec == Spec /\ WF_vars(Scan) /\ WF_vars(Deadline)

\* It reads what it is sent, and need not answer.
FairSpec == UnreadSpec /\ WF_vars(Read)

-------------------------------------------------------------------------------
\* Properties.

\* Every variable stays in its range.
TypeOK ==
  /\ setup \in Setups /\ serving \in BOOLEAN
  /\ cache \in [Payloads -> Verdicts \cup {None}]
  /\ \A i \in DOMAIN requests : requests[i] \in [about: Payloads, torn: BOOLEAN]
  /\ \A i \in DOMAIN answers : answers[i] \in [about: Payloads, says: Sayings]
  /\ unread \in 0..Capacity /\ unread <= Len(requests)
  /\ pc \in {"idle", "next", "preview", "more", "body", "done"}
  /\ outcome \in {"none", "forward", "block"}
  /\ Len(taken) \in {at - 1, at} /\ \A i \in DOMAIN taken : taken[i] \in Verdicts \cup {None}
  /\ provenance \subseteq {"icap", "dlp"} /\ late \in Nat /\ scans \in 0..MaxScans

\* Calls that the service has still to answer, or that were answered and not read, are
\* the one awaited and those given up at their deadline: nothing drains the stream, and
\* nothing else is left in it by failures, cache hits and escalations.
SkewIsLate ==
  serving => Len(requests) + Len(answers) = late + (IF Awaiting THEN 1 ELSE 0)

\* As long as no deadline passed, a verdict that was applied or cached is the service's
\* own word on that payload (or the failure policy's), across messages, escalations and
\* cache hits.
OwnVerdict ==
  late = 0 =>
    /\ \A p \in Payloads : cache[p] # None => cache[p].by \in {p, Host}
    /\ \A i \in DOMAIN taken : taken[i] # None => taken[i].by \in {Blocks[i].payload, Host}

\* A scanner that fails closed forwards nothing that has an inline payload the failure
\* policy decided on, whatever failed on the way and whatever was cached: every line that
\* passed it came from the service, could be read and refuses nothing.  Two of those lines
\* are no verdict on the payload (see MalformedIsRefused).
FailClosedVetted ==
  (outcome = "forward" /\ setup.policy = "fail_closed") =>
    \A i \in DOMAIN Blocks :
      Blocks[i].payload # None => taken[i].by # Host /\ taken[i].kind \notin {"deny", "quarantine"}

\* "A malformed response is resolved by the failure policy, never trusted" (parse_verdict):
\* false of a rewrite whose content does not decode and of a CONTINUE that answers the
\* body; the original goes on.
MalformedIsRefused ==
  (outcome = "forward" /\ setup.policy = "fail_closed") =>
    \A i \in DOMAIN taken :
      taken[i] # None => /\ taken[i].kind # "continue"
                         /\ taken[i].kind = "mutate" => taken[i].content # None

\* What is forwarded is the message with exactly the rewrites of its blocks' verdicts in
\* their places, duplicates and decoys included, and the notes of all of them.
ForwardCarriesVerdicts ==
  outcome = "forward" =>
    /\ \A array \in {"content", "contents"} : \A k \in DOMAIN original[array] :
         LET judged == {i \in DOMAIN Blocks : Blocks[i].path = Path(array, k) /\ taken[i] # None
                                            /\ taken[i].content # None}
         IN  working[array][k].data =
               IF judged = {} THEN original[array][k].data
               ELSE LET i == CHOOSE i \in judged : TRUE
                    IN  Written(Blocks[i], taken[i].content)
    /\ provenance = UNION {taken[i].notes : i \in {j \in DOMAIN taken : taken[j] # None}}

\* One payload has one verdict for as long as the cache lives: what was cached is never
\* replaced, a failure and a rewrite included, and later scans of the payload take it.
CachedVerdictStands ==
  [][/\ \A p \in Payloads : cache[p] # None => cache'[p] = cache[p]
     /\ (Len(taken') = Len(taken) + 1 /\ Block.payload \in Payloads \ Oversize)
        => (cache[Block.payload] # None => taken'[Len(taken')] = cache[Block.payload])]_vars

\* With a deadline every scan ends, even if the service never answers again, as long as
\* it reads what it is sent (under UnreadSpec it is false: the deadline begins only when
\* the call is written).
ScanEnds == setup.deadline => [](Scanning => <>(pc = "done"))
===============================================================================
