-------------------------------- MODULE Naming ---------------------------------
(***************************************************************************)
(* The names by which a client of the forward router sees what its         *)
(* backends offer (namespace.rs): "{id}__{original}" for tools, prompts    *)
(* and tasks, the id as first path segment for resources.  A name is a     *)
(* sequence of characters, of which only the underscore matters; a URI is  *)
(* opaque (it has no "://") or a path of segments under an authority.      *)
(***************************************************************************)
EXTENDS Naturals, Sequences

Underscore == "_"
Delimiter == <<Underscore, Underscore>>
Unresolved == <<>>        \* None; a resolved name is the pair <<id, original>>

DelimiterAt(s, i) == i \in 1..Len(s) - 1 /\ s[i] = Underscore /\ s[i + 1] = Underscore
Delimited(s) == \E i \in 1..Len(s) : DelimiterAt(s, i)

\* "An id containing the delimiter would break reverse resolution."
ValidId(id) == id # <<>> /\ ~Delimited(id)

Prefix(id, name) == id \o Delimiter \o name

FirstDelimiter(s) ==
  CHOOSE i \in 1..Len(s) :
    DelimiterAt(s, i) /\ \A j \in 1..Len(s) : DelimiterAt(s, j) => i <= j

Split(s) ==
  IF ~Delimited(s) THEN Unresolved
  ELSE LET i == FirstDelimiter(s) IN
       IF i = 1 \/ i + 1 = Len(s) THEN Unresolved
       ELSE <<SubSeq(s, 1, i - 1), SubSeq(s, i + 2, Len(s))>>

\* A URI's path is the sequence of its segments, <<>> when no "/" follows the authority.
PrefixUri(id, uri) == IF uri.opaque THEN uri ELSE [uri EXCEPT !.path = <<id>> \o @]

SplitUri(uri) ==
  IF uri.opaque \/ uri.path = <<>> THEN Unresolved
  ELSE IF Head(uri.path) = <<>> THEN Unresolved
  ELSE <<Head(uri.path), [uri EXCEPT !.path = Tail(@)]>>

\* ValidId lets "a_" through, whose label "a_" + "__" + "x" splits after "a".
EndsInUnderscore(id) == id[Len(id)] = Underscore
Resolvable(id) == ValidId(id) /\ ~EndsInUnderscore(id)
===============================================================================
