--------------------------- MODULE MCAccountability ----------------------------
(***************************************************************************)
(* Accountability with two connections and chains of up to three filters:  *)
(* a guard that refuses bad arguments, rewriters that make good ones bad   *)
(* and bad ones good, two that note the same key, and two that fail.       *)
(***************************************************************************)
EXTENDS Accountability

CONSTANTS good, bad, far, near, nowhere, key, x, y

Always(verdict) == [a \in {good, bad} |-> verdict]
Note(value) == Annotate([k \in Keys |-> value])
Everything == [methods |-> {}, directions |-> {}, tools |-> {}, content_types |-> {}]
Filter(verdicts, policy, interest) ==
  [verdict |-> verdicts, policy |-> policy, interest |-> interest]

Guard  == Filter([a \in {good, bad} |-> IF a = bad THEN Deny ELSE Allow], "fail_closed", Everything)
Cdr    == Filter(Always(Mutate(good)), "fail_closed", [Everything EXCEPT !.directions = {"c2u"}])
Spoil  == Filter(Always(Mutate(bad)), "fail_open", [Everything EXCEPT !.tools = {far}])
NoteX  == Filter(Always(Note(x)), "fail_open", [Everything EXCEPT !.methods = {Any}])
NoteY  == Filter(Always(Note(y)), "fail_open", [Everything EXCEPT !.tools = {far, near}])
Closed == Filter(Always(Crash), "fail_closed", [Everything EXCEPT !.tools = {near}])
Open   == Filter(Always(Crash), "fail_open", Everything)
Images == Filter(Always(Quarantine), "fail_closed", [Everything EXCEPT !.content_types = {x}])
Jail   == Filter([a \in {good, bad} |-> IF a = bad THEN Quarantine ELSE Allow], "fail_open",
                 [Everything EXCEPT !.directions = {"u2c", Any}])

MCChains ==
  {<<>>, <<Guard>>, <<Guard, Spoil>>, <<Spoil, Guard>>, <<Cdr, Guard>>, <<Spoil, Cdr, Jail>>,
   <<NoteX, NoteY>>, <<NoteY, Open, NoteX>>, <<Closed, NoteY>>, <<NoteX, Spoil, NoteY>>,
   <<Images, Cdr>>, <<Cdr, Spoil>>}

MCRequests ==
  [method: {"tools/call"}, tool: {far, near, nowhere}, arguments: {good, bad},
   meta: {[k \in Keys |-> None]}]
===============================================================================
