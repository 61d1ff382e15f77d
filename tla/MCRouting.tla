------------------------------- MODULE MCRouting --------------------------------
(***************************************************************************)
(* Routing with two backends, whose ids and tools contain underscores, and *)
(* one local handler.                                                      *)
(***************************************************************************)
EXTENDS Routing, NamingChecks, Surface

A == <<"a">>
B == <<"a", "_", "b">>
H == <<"h">>
X == <<"x">>
Y == <<"y", "_", "_", "x">>

MCChars == {"_", "a", "b", "h", "t", "u", "x", "y"}
MCBackends == <<A, B>>
MCHandlers == <<[id |-> H, tools |-> <<X>>]>>
MCTools == {X, Y}
MCSurfaces == {<<X>>, <<X, Y>>}
MCTaskIds == {<<"t", "_", "_", "u">>}

\* An id that ends in an underscore.
U == <<"a", "_">>
MCUnderscored == <<A, U>>
MCPrefixed ==
  {[strategy |-> "prefix", overrides |-> <<>>, priority |-> <<>>, resilient |-> TRUE,
    advertised |-> <<<<>>, <<>>>>, started |-> {A, U}]}

Setup(strategy, overrides, resilient, advertised) ==
  [strategy |-> strategy, overrides |-> overrides, priority |-> <<B>>,
   resilient |-> resilient, advertised |-> advertised, started |-> {A, B}]
Plain == <<<<>>, <<>>>>

\* Breakers are configured with the prefix strategy only.  No two overrides expose one
\* name; the last one takes the name of the local tool.
MCConfigs ==
  {Setup("prefix", <<>>, TRUE, Plain),
   Setup("prefix", <<>>, FALSE, <<<<"v", "w">>, <<"w", "u">>>>),
   Setup("prefix", <<>>, FALSE, <<<<>>, <<"v", "w">>>>),
   Setup("priority", <<>>, FALSE, Plain),
   Setup("passthrough", <<>>, FALSE, Plain),
   Setup("manual", Prefix(A, X) :> X, FALSE, Plain),
   Setup("manual", Prefix(A, X) :> Prefix(H, X), FALSE, Plain)}

\* Two overrides that expose one name.
MCClashingConfigs ==
  {Setup("manual", Prefix(A, X) :> X @@ Prefix(B, Y) :> X, FALSE, Plain)}
===============================================================================
