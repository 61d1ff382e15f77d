------------------------------ MODULE FilterChain ------------------------------
(***************************************************************************)
(* The extension filter chain: verdicts, interests, the chain that runs at *)
(* a hook and the reduction of its verdicts to an outcome.  The chain      *)
(* shapes the message twice, once while it runs, so that each filter sees  *)
(* what those before it made of the message, and once when it reduces the  *)
(* verdicts; both codings are here.                                        *)
(*                                                                         *)
(* A message is [method, tool, arguments, meta], meta a function on Keys.  *)
(* A filter has an interest, a failure policy and its verdict for each     *)
(* value of the arguments; Crash stands for an Err.                        *)
(***************************************************************************)
EXTENDS Naturals, Sequences

CONSTANTS
  Keys,        \* keys of _meta that filters annotate
  None,        \* no value
  Crash,       \* the filter's own failure
  Any          \* the wildcard of an interest

Allow == [kind |-> "allow"]
Deny == [kind |-> "deny"]
Quarantine == [kind |-> "quarantine"]
Mutate(arguments) == [arguments |-> arguments, kind |-> "mutate"]
Annotate(provenance) == [kind |-> "annotate", provenance |-> provenance]

Blocking(verdict) == verdict.kind \in {"deny", "quarantine"}

resolve_failure(policy) == IF policy = "fail_closed" THEN Deny ELSE Allow

-------------------------------------------------------------------------------
\* Interest: an empty list matches everything, so does the wildcard; an absent value
\* matches nothing else.
matches(declared, value) == declared = {} \/ Any \in declared \/ value \in declared

\* The tool counts for tools/call only, and a request carries no content types.
Context(message, direction) ==
  [method |-> message.method, direction |-> direction,
   tool |-> IF message.method = "tools/call" THEN message.tool ELSE None]

interested(interest, context) ==
  /\ matches(interest.methods, context.method)
  /\ matches(interest.directions, context.direction)
  /\ matches(interest.tools, context.tool)
  /\ matches(interest.content_types, None)

-------------------------------------------------------------------------------
\* One verdict applied; a kind outside the set leaves the message as it is.
apply_one(verdict, message) ==
  CASE verdict.kind = "mutate" -> [message EXCEPT !.arguments = verdict.arguments]
    [] verdict.kind = "annotate" ->
         [message EXCEPT !.meta = [k \in Keys |-> IF verdict.provenance[k] # None
                                                  THEN verdict.provenance[k] ELSE @[k]]]
    [] OTHER -> message

\* The reduction: the first blocking verdict, or all the others in order.
Forward(message) == [action |-> "forward", message |-> message]
Block(verdict) == [action |-> "block", quarantined |-> verdict.kind = "quarantine"]

chain_outcome(verdicts, request) ==
  LET reduce[i \in 0..Len(verdicts)] ==
        IF i = 0 THEN Forward(request)
        ELSE IF reduce[i - 1].action = "block" THEN reduce[i - 1]
        ELSE IF Blocking(verdicts[i]) THEN Block(verdicts[i])
        ELSE Forward(apply_one(verdicts[i], reduce[i - 1].message))
  IN  reduce[Len(verdicts)]

-------------------------------------------------------------------------------
\* The chain that runs: one turn of its loop, from the verdicts and the message so far.
Evaluate(handler, message) ==
  IF handler.verdict[message.arguments] = Crash THEN resolve_failure(handler.policy)
  ELSE handler.verdict[message.arguments]

\* Every filter looks at the message as it came.
Turn_unshaped(handler, context, state) ==
  IF state.stopped \/ ~interested(handler.interest, context) THEN state
  ELSE LET verdict == Evaluate(handler, state.message)
       IN  [state EXCEPT !.verdicts = Append(@, verdict), !.stopped = Blocking(verdict)]

Turn(handler, context, state) ==
  IF state.stopped \/ ~interested(handler.interest, context) THEN state
  ELSE LET verdict == Evaluate(handler, state.message)
       IN  [verdicts |-> Append(state.verdicts, verdict),
            stopped |-> Blocking(verdict),
            message |-> IF Blocking(verdict) THEN state.message
                        ELSE apply_one(verdict, state.message)]

RunLoop(handlers, request) ==
  LET context == Context(request, "c2u")
      loop[i \in 0..Len(handlers)] ==
        IF i = 0 THEN [verdicts |-> <<>>, stopped |-> FALSE, message |-> request]
        ELSE Turn(handlers[i], context, loop[i - 1])
  IN  loop[Len(handlers)]

run(handlers, request) == chain_outcome(RunLoop(handlers, request).verdicts, request)
===============================================================================
