--------------------------------- MODULE Pumps ----------------------------------
(***************************************************************************)
(* The byte-faithful paths: Relay, the transparent level 1 with its header *)
(* policy, and ForwardProxy, which performs a handshake with both sides    *)
(* and relays afterwards; the stateful level 2 is one of the last two.     *)
(* Two pumps run in one task under try_join: each copies one direction and *)
(* passes its end on; the first error drops both.                          *)
(*                                                                         *)
(* A message is its kind.  The ghosts passing and rank say which messages  *)
(* a direction has to pass on, and how many of them came up to a message.  *)
(***************************************************************************)
EXTENDS Naturals, Sequences, FiniteSets

CONSTANTS
  Modes,       \* "relay", "l1" and "forward"
  Kinds,       \* mode -> direction -> kinds of messages that are sent
  Watched,     \* bound of the instance: messages whose arrival is watched
  Capacity,    \* messages that fit in a pipe its reader does not empty
  MaxSent      \* bound of the instance: mode -> direction -> messages sent

ASSUME PumpsAssumption ==
  /\ Modes \subseteq {"relay", "l1", "forward"}
  /\ Kinds \in [Modes -> [{"up", "down"} ->
                             SUBSET {"plain", "initialize", "blocked", "garbled"}]]
  /\ Watched \in Nat /\ Capacity \in Nat \ {0} /\ MaxSent \in [Modes -> [{"up", "down"} -> Nat]]

VARIABLES
  mode, phase, \* "hello", "asking", "confirm", "pumping", "returned" or "failed"
  gone,        \* peers that vanished: "client", "backend"
  \* --- per direction, "up" to the backend and "down" to the client ---
  sent, open,  \* messages of the source; its writing half
  read,        \* messages the proxy read
  pump,        \* "reading", "writing", "refusing" or "done"
  delivered, ended,   \* what the destination was written, and its end
  got,         \* messages the destination took out of its pipe
  passing,     \* ghost: the messages that must be passed on
  \* --- the rest of what is written ---
  greetings,   \* handshake messages to the backend
  refused, blocked,   \* blocked_response lines to the client; its counter
  reply        \* the handshake's answer to the client: "none", "error" or "result"

sourceVars == <<sent, open, passing>>
pumpVars   == <<read, pump, delivered, ended>>
otherVars  == <<greetings, refused, blocked, reply>>
vars == <<mode, phase, gone, sourceVars, pumpVars, got, otherVars>>

Directions == {"up", "down"}
Source(d) == IF d = "up" THEN "client" ELSE "backend"
Target(d) == IF d = "up" THEN "backend" ELSE "client"

\* What the handshake consumes: two messages of the client, one of the backend.
Consumed(d) == IF mode # "forward" THEN 0 ELSE IF d = "up" THEN 2 ELSE 1

\* The policy looks at the headers of what the client sends.
Policed(d) == mode = "l1" /\ d = "up"
Passes(d, i, kind) == i > Consumed(d) /\ (Policed(d) => kind \notin {"blocked", "garbled"})

Rank(d, i) == IF i = 0 THEN 0 ELSE sent[d][i].rank

Init ==
  /\ mode \in Modes
  /\ phase = IF mode = "forward" THEN "hello" ELSE "pumping"
  /\ gone = {}
  /\ sent = [d \in Directions |-> <<>>] /\ passing = [d \in Directions |-> <<>>]
  /\ open = [d \in Directions |-> TRUE] /\ ended = [d \in Directions |-> FALSE]
  /\ read = [d \in Directions |-> 0] /\ got = [d \in Directions |-> 0]
  /\ pump = [d \in Directions |-> "reading"]
  /\ delivered = [d \in Directions |-> <<>>]
  /\ greetings = 0 /\ refused = 0 /\ blocked = 0 /\ reply = "none"

-------------------------------------------------------------------------------
\* The two peers send, close their writing half, read, or vanish.
Sends(d, kind) ==
  /\ open[d] /\ Len(sent[d]) < MaxSent[mode][d]
  /\ LET i == Len(sent[d]) + 1
         passes == Passes(d, i, kind)
         message == [kind |-> kind, rank |-> Rank(d, i - 1) + (IF passes THEN 1 ELSE 0)]
     IN  /\ sent' = [sent EXCEPT ![d] = Append(@, message)]
         /\ passing' = IF passes THEN [passing EXCEPT ![d] = Append(@, message)] ELSE passing
  /\ UNCHANGED <<mode, phase, gone, open, pumpVars, got, otherVars>>

Closes(d) ==
  /\ open[d] /\ open' = [open EXCEPT ![d] = FALSE]
  /\ UNCHANGED <<mode, phase, gone, sent, passing, pumpVars, got, otherVars>>

Written(d) == Len(delivered[d]) + (IF d = "down" THEN refused ELSE 0)
Reads(d) ==
  /\ got[d] < Written(d) /\ Target(d) \notin gone
  /\ got' = [got EXCEPT ![d] = @ + 1]
  /\ UNCHANGED <<mode, phase, gone, sourceVars, pumpVars, otherVars>>

Vanishes(d) ==
  /\ Source(d) \notin gone /\ gone' = gone \cup {Source(d)}
  /\ open' = [open EXCEPT ![d] = FALSE]
  /\ UNCHANGED <<mode, phase, sent, passing, pumpVars, got, otherVars>>

-------------------------------------------------------------------------------
\* Everything ends with the first error.
Fail == phase' = "failed"

Unread(d) == read[d] < Len(sent[d])
NextIn(d) == sent[d][read[d] + 1]
AtEnd(d) == ~Unread(d) /\ ~open[d]
Take(d) == read' = [read EXCEPT ![d] = @ + 1]

\* The handshake of ForwardProxy.
Hello ==
  /\ phase = "hello"
  /\ \/ AtEnd("up") /\ phase' = "returned" /\ UNCHANGED <<read, greetings, reply>>
     \/ /\ Unread("up") /\ Take("up")
        /\ CASE NextIn("up").kind = "garbled" -> Fail /\ UNCHANGED <<greetings, reply>>
             [] NextIn("up").kind \in {"plain", "blocked"} ->
                  Fail /\ reply' = "error" /\ UNCHANGED greetings
             [] NextIn("up").kind = "initialize" ->
                  /\ UNCHANGED reply
                  /\ IF "backend" \in gone THEN Fail /\ UNCHANGED greetings
                     ELSE phase' = "asking" /\ greetings' = 1
  /\ UNCHANGED <<mode, gone, sourceVars, pump, delivered, ended, got, refused, blocked>>

\* The backend's next line is its answer, whatever it is.
Asking ==
  /\ phase = "asking"
  /\ \/ AtEnd("down") /\ Fail /\ UNCHANGED <<read, greetings, reply>>
     \/ /\ Unread("down") /\ Take("down")
        /\ IF NextIn("down").kind = "garbled" \/ "backend" \in gone
           THEN Fail /\ UNCHANGED <<greetings, reply>>
           ELSE /\ greetings' = 2
                /\ IF "client" \in gone THEN Fail /\ UNCHANGED reply
                   ELSE phase' = "confirm" /\ reply' = "result"
  /\ UNCHANGED <<mode, gone, sourceVars, pump, delivered, ended, got, refused, blocked>>

\* The client's next message is consumed as its initialized, whatever it is.
Confirm ==
  /\ phase = "confirm"
  /\ (Unread("up") /\ Take("up")) \/ (AtEnd("up") /\ UNCHANGED read)
  /\ phase' = "pumping"
  /\ UNCHANGED <<mode, gone, sourceVars, pump, delivered, ended, got, otherVars>>

\* A vanished peer may also fail the read of whoever waits for it.
Awaits(d) ==
  \/ phase = "pumping" /\ pump[d] = "reading"
  \/ d = "up" /\ phase \in {"hello", "confirm"}
  \/ d = "down" /\ phase = "asking"
ReadFails(d) ==
  /\ Awaits(d) /\ Source(d) \in gone /\ Fail
  /\ UNCHANGED <<mode, gone, sourceVars, pumpVars, got, otherVars>>

-------------------------------------------------------------------------------
\* The pumps.
Goto(d, where) == pump' = [pump EXCEPT ![d] = where]
Pumping(d, where) == phase = "pumping" /\ pump[d] = where

\* A message that is counted and dropped without a word.
Receive_silent(d) ==
  /\ Pumping(d, "reading") /\ Unread(d) /\ Take(d)
  /\ IF Policed(d) /\ NextIn(d).kind \in {"blocked", "garbled"}
     THEN blocked' = blocked + 1 /\ UNCHANGED pump
     ELSE Goto(d, "writing") /\ UNCHANGED blocked
  /\ UNCHANGED <<mode, phase, gone, sourceVars, delivered, ended, got, greetings, refused, reply>>

Receive(d) ==
  /\ Pumping(d, "reading") /\ Unread(d) /\ Take(d)
  /\ LET kind == NextIn(d).kind
     IN  CASE Policed(d) /\ kind = "garbled" -> Fail /\ UNCHANGED <<pump, blocked>>
           [] Policed(d) /\ kind = "blocked" ->
                Goto(d, "refusing") /\ blocked' = blocked + 1 /\ UNCHANGED phase
           [] OTHER -> Goto(d, "writing") /\ UNCHANGED <<phase, blocked>>
  /\ UNCHANGED <<mode, gone, sourceVars, delivered, ended, got, greetings, refused, reply>>

Room(d) == Written(d) - got[d] < Capacity

Write(d) ==
  /\ Pumping(d, "writing")
  /\ IF Target(d) \in gone
     THEN Fail /\ UNCHANGED <<pump, delivered>>
     ELSE /\ Room(d)
          /\ delivered' = [delivered EXCEPT ![d] = Append(@, sent[d][read[d]])]
          /\ Goto(d, "reading") /\ UNCHANGED phase
  /\ UNCHANGED <<mode, gone, sourceVars, read, ended, got, otherVars>>

\* The client's writer is shared with the pump down, which may have shut it down.
Refuse ==
  /\ Pumping("up", "refusing")
  /\ IF "client" \in gone \/ ended["down"]
     THEN Fail /\ UNCHANGED <<pump, refused>>
     ELSE Room("down") /\ refused' = refused + 1 /\ Goto("up", "reading") /\ UNCHANGED phase
  /\ UNCHANGED <<mode, gone, sourceVars, read, delivered, ended, got, greetings, blocked, reply>>

\* An end passed on as soon as it is known, ahead of what is unread.
PassEnd_eager(d) ==
  /\ Pumping(d, "reading") /\ ~open[d] /\ Target(d) \notin gone
  /\ ended' = [ended EXCEPT ![d] = TRUE] /\ Goto(d, "done")
  /\ UNCHANGED <<mode, phase, gone, sourceVars, read, delivered, got, otherVars>>
\* The first end is the end of both directions.
PassEnd_both(d) ==
  /\ Pumping(d, "reading") /\ AtEnd(d) /\ Target(d) \notin gone
  /\ ended' = [ended EXCEPT ![d] = TRUE] /\ Goto(d, "done") /\ phase' = "returned"
  /\ UNCHANGED <<mode, gone, sourceVars, read, delivered, got, otherVars>>

PassEnd(d) ==
  /\ Pumping(d, "reading") /\ AtEnd(d)
  /\ IF Target(d) \in gone
     THEN Fail /\ UNCHANGED <<pump, ended>>
     ELSE ended' = [ended EXCEPT ![d] = TRUE] /\ Goto(d, "done") /\ UNCHANGED phase
  /\ UNCHANGED <<mode, gone, sourceVars, read, delivered, got, otherVars>>

Return ==
  /\ phase = "pumping" /\ \A d \in Directions : pump[d] = "done"
  /\ phase' = "returned"
  /\ UNCHANGED <<mode, gone, sourceVars, pumpVars, got, otherVars>>

Pump(d) == Receive(d) \/ Write(d) \/ PassEnd(d)
Task == Hello \/ Asking \/ Confirm \/ Refuse \/ Return \/ \E d \in Directions : Pump(d)

Next ==
  \/ \E d \in Directions : \E kind \in Kinds[mode][d] : Sends(d, kind)
  \/ \E d \in Directions : Closes(d) \/ Reads(d) \/ Vanishes(d) \/ ReadFails(d)
  \/ Task

Spec == Init /\ [][Next]_vars

\* The executor runs the task as long as one of its pumps can go on; peers keep reading.
FairSpec == Spec /\ WF_vars(Task) /\ \A d \in Directions : WF_vars(Reads(d))

-------------------------------------------------------------------------------
\* Properties.

\* Every variable stays in its range.
TypeOK ==
  /\ mode \in Modes
  /\ phase \in {"hello", "asking", "confirm", "pumping", "returned", "failed"}
  /\ gone \subseteq {"client", "backend"}
  /\ \A d \in Directions :
       /\ sent[d] \in Seq([kind: Kinds[mode][d], rank: Nat])
       /\ read[d] \in 0..Len(sent[d]) /\ got[d] \in 0..Written(d)
       /\ pump[d] \in {"reading", "writing", "refusing", "done"}
  /\ open \in [Directions -> BOOLEAN] /\ ended \in [Directions -> BOOLEAN]
  /\ greetings \in 0..2 /\ refused \in Nat /\ blocked \in Nat
  /\ reply \in {"none", "error", "result"}

\* At most one message is in the proxy's hands per direction, whatever fails when: what it
\* read and must pass on it has written, but for the one a pump is writing.
InHand ==
  \A d \in Directions : ~(Policed(d) /\ phase = "failed") =>
    Rank(d, read[d]) = Len(delivered[d]) + (IF pump[d] = "writing" THEN 1 ELSE 0)

\* The client is told of every message the policy kept from the backend, once, and the
\* counter agrees, but for the one refusal that is under way or was cut off.
RefusedOnce ==
  /\ blocked = Cardinality({i \in 1..read["up"] : Policed("up") /\ sent["up"][i].kind = "blocked"})
  /\ blocked = refused + (IF pump["up"] = "refusing" THEN 1 ELSE 0)
  /\ \A i \in DOMAIN delivered["up"] : Policed("up") => delivered["up"][i].kind # "blocked"

\* Each direction is a stream: in order, once, nothing made up, the end passed on after
\* the last message, whatever the policy, the handshake and the other direction do.
Up == INSTANCE Stream
        WITH sent <- passing["up"], delivered <- delivered["up"], open <- open["up"],
             ended <- ended["up"], dropped <- phase = "failed"
Down == INSTANCE Stream
          WITH sent <- passing["down"], delivered <- delivered["down"], open <- open["down"],
               ended <- ended["down"], dropped <- phase = "failed"
Streams == Up!Spec /\ Down!Spec

\* While the proxy runs, what was sent arrives, also after the other direction has ended:
\* a half-closed client still gets its answers, a refusal in the way or not.
PumpedArrives ==
  \A d \in Directions, n \in 1..Watched :
    (phase = "pumping" /\ Len(passing[d]) >= n) ~> (Len(delivered[d]) >= n \/ phase = "failed")

\* Once both peers have closed their halves or vanished, the run ends, in any phase.
BothEnd == (~open["up"] /\ ~open["down"]) ~> phase \in {"returned", "failed"}
===============================================================================
