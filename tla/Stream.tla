--------------------------------- MODULE Stream ---------------------------------
(***************************************************************************)
(* What one direction of a proxied connection promises: messages arrive in *)
(* the order they were sent, each once, none that was not sent; the end of *)
(* the stream is passed on after the last message, and only then.  It may  *)
(* be dropped at any time, with what is on its way, and is silent then.    *)
(***************************************************************************)
EXTENDS Naturals, Sequences

VARIABLES sent, delivered, open, ended, dropped

vars == <<sent, delivered, open, ended, dropped>>

Init ==
  /\ sent = <<>> /\ delivered = <<>>
  /\ open = TRUE /\ ended = FALSE /\ dropped = FALSE

Send ==
  /\ open
  /\ Len(sent') = Len(sent) + 1 /\ SubSeq(sent', 1, Len(sent)) = sent
  /\ UNCHANGED <<delivered, open, ended, dropped>>

Close ==
  /\ open /\ open' = FALSE
  /\ UNCHANGED <<sent, delivered, ended, dropped>>

Deliver ==
  /\ ~ended /\ ~dropped /\ Len(delivered) < Len(sent)
  /\ delivered' = Append(delivered, sent[Len(delivered) + 1])
  /\ UNCHANGED <<sent, open, ended, dropped>>

End ==
  /\ ~open /\ ~ended /\ ~dropped /\ delivered = sent
  /\ ended' = TRUE
  /\ UNCHANGED <<sent, delivered, open, dropped>>

Drop ==
  /\ dropped' = TRUE
  /\ UNCHANGED <<sent, delivered, open, ended>>

Next == Send \/ Close \/ Deliver \/ End \/ Drop

Spec == Init /\ [][Next]_vars
===============================================================================
