--------------------------- MODULE MCStatelessProxy ----------------------------
(***************************************************************************)
(* StatelessProxy with two backends that list two tools each, one hidden.  *)
(***************************************************************************)
EXTENDS StatelessProxy

CONSTANTS a, b, x, secret

MCBackends == <<a, b>>
MCTools == [id \in {a, b} |-> <<x, secret>>]

Name(id, t) == [backend |-> id, tool |-> t]
Body(method, name) == [method |-> method, name |-> name, opaque |-> FALSE]
Request(method, name, body, version, hops) ==
  [method |-> method, name |-> name, body |-> body, version |-> version, hops |-> hops]

MCRequests ==
  {Request("server/discover", None, Opaque, None, 0),
   Request("tools/call", Name(a, x), Body("tools/call", Name(a, x)), "2025-06-18", 1),
   Request("tools/call", Name(b, x), Body("tools/call", Name(b, secret)), None, 0),
   Request("tools/call", Name(Nobody, x), Opaque, "1999-01-01", 0),
   Request("ping", None, Body("tools/call", None), "2026-07-28", 0)}
===============================================================================
