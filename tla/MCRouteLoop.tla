------------------------------ MODULE MCRouteLoop -------------------------------
(***************************************************************************)
(* RouteLoop under three loads: requests of backends crossing calls, with  *)
(* and without a timeout; breakers that open and close under the health    *)
(* tasks; subscriptions and updates.                                       *)
(***************************************************************************)
EXTENDS RouteLoop

Load(calls, asks, timeout) ==
  [calls |-> calls, lists |-> 0, subscriptions |-> 0, asks |-> asks, toggles |-> 0,
   publishes |-> 0, timeout |-> timeout, health |-> FALSE]

Watch(lists) == [Load(0, 0, FALSE) EXCEPT !.lists = lists, !.toggles = 2, !.health = TRUE]

MCLoads ==
  {Load(1, 1, TRUE), Load(2, 1, FALSE), [Load(2, 0, TRUE) EXCEPT !.toggles = 1], Watch(0),
   [Load(0, 0, FALSE) EXCEPT !.subscriptions = 3, !.publishes = 2]}
ViewLoads == {Watch(1)}
===============================================================================
