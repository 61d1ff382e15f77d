--------------------------------- MODULE Surface ---------------------------------
(***************************************************************************)
(* What the router puts before its client: composed tools and             *)
(* capabilities, progressive disclosure and its search (capability.rs),    *)
(* name filters and keyword selection (routing.rs).  A text is a sequence  *)
(* of characters and a tool a record of its name and description; the      *)
(* assumptions, which TLC evaluates with each run of Routing, compare the  *)
(* loops with what they promise over bounded inputs.                       *)
(***************************************************************************)
LOCAL INSTANCE Naturals
LOCAL INSTANCE SequencesExt
LOCAL INSTANCE Functions

HasText(text, part) ==
  \E i \in 0..Len(text) : IsPrefix(part, SubSeq(text, i + 1, Len(text)))

\* A pattern has at most one star at either end; elsewhere a star is itself.
Star == "*"
Glob(pattern, name) ==
  LET first == pattern # <<>> /\ Head(pattern) = Star
      last == pattern # <<>> /\ Last(pattern) = Star
  IN  CASE pattern = <<Star>> -> TRUE
        [] pattern # <<Star>> /\ first /\ last ->
             HasText(name, SubSeq(pattern, 2, Len(pattern) - 1))
        [] first /\ ~last -> IsSuffix(Tail(pattern), name)
        [] last /\ ~first -> IsPrefix(Front(pattern), name)
        [] OTHER -> name = pattern
NameMatches(name, patterns) ==
  patterns = <<>> \/ \E i \in DOMAIN patterns : Glob(patterns[i], name)

BackendSelected(declared, wanted) ==
  declared = {} \/ wanted = {} \/ declared \cap wanted # {}

\* The tools of all backends in order, those of the names all backends have once each,
\* or those of the curated names.
ToolNames(tools) == {tools[i].name : i \in DOMAIN tools}
ComposeTools(perBackend, mode, curated) ==
  LET all == FlattenSeq(perBackend)
      common == {n \in ToolNames(all) :
                   \A b \in DOMAIN perBackend : n \in ToolNames(perBackend[b])}
  IN  CASE mode = "union" -> all
        [] mode = "curated" -> SelectSeq(all, LAMBDA t : t.name \in curated)
        [] mode = "intersection" ->
             FoldLeft(LAMBDA out, t : IF t.name \in common \ ToolNames(out) THEN Append(out, t)
                                      ELSE out,
                      <<>>, all)

\* Capabilities are functions from names to flags, themselves functions; a value that is
\* no object counts as present and adds no flag, as an empty one.
Primitives == {"tools", "resources", "prompts", "logging", "sampling"}
Elicitation == "elicitation"
Extensions == "extensions"
NoFlags == <<>>
Overlay(above, below) ==
  [k \in DOMAIN above \cup DOMAIN below |-> IF k \in DOMAIN above THEN above[k] ELSE below[k]]
Flags(caps, name) == IF name \in DOMAIN caps THEN caps[name] ELSE NoFlags

ComposeCapabilities(backendCaps, clientCaps) ==
  LET flags(p) == FoldLeft(LAMBDA m, c : Overlay(Flags(c, p), m), NoFlags, backendCaps)
      extensions ==
        FoldLeft(LAMBDA m, c : Overlay(m, Flags(c, Extensions)), NoFlags, backendCaps)
      present == {p \in Primitives : \E i \in DOMAIN backendCaps : p \in DOMAIN backendCaps[i]}
  IN  [k \in present \cup (DOMAIN clientCaps \cap {Elicitation})
              \cup (IF DOMAIN extensions = {} THEN {} ELSE {Extensions}) |->
         IF k = Elicitation THEN clientCaps[k]
         ELSE IF k = Extensions THEN extensions ELSE flags(k)]

\* Letters are compared in lower case.
Lower(text) == [i \in DOMAIN text |-> IF text[i] = "A" THEN "a" ELSE text[i]]
SearchTools(query, tools) ==
  SelectSeq(tools, LAMBDA t : \/ HasText(Lower(t.name), Lower(query))
                              \/ HasText(Lower(t.description), Lower(query)))
SearchTool == [name |-> <<"search">>, description |-> <<"search">>]
Disclose(tools, threshold) ==
  IF Len(tools) > threshold THEN Append(SubSeq(tools, 1, threshold), SearchTool) ELSE tools

------------------------------------------------------------------------------
LOCAL Texts == BoundedSeq({"a", "b", Star}, 3)
LOCAL Starless(text) == \A i \in DOMAIN text : text[i] # Star
LOCAL SomeTools == [name: {<<"a">>, <<"A", "b">>, <<"b">>}, description: {<<>>, <<"b">>}]
LOCAL ShortLists == BoundedSeq(SomeTools, 2)
LOCAL ToolLists == {<<>>} \cup ShortLists \X {<<>>} \cup ShortLists \X ShortLists
LOCAL Caps == UNION {[D -> {NoFlags, [x |-> 1], [x |-> 2, y |-> 2]}] :
                       D \in SUBSET {"tools", Extensions}}
LOCAL CapLists == BoundedSeq(Caps, 3)

\* "a* prefix, *a suffix, *a* contains, * everything, otherwise an exact match": a
\* pattern is a word with a star at either end or none, and a star stands for any text
\* (routing.rs, glob).
ASSUME StarsStandForText ==
  \A name, pattern \in Texts : Starless(name) =>
    LET open == pattern # <<>> /\ Head(pattern) = Star
        body == IF open THEN Tail(pattern) ELSE pattern
        closed == body # <<>> /\ Last(body) = Star
        word == IF closed THEN Front(body) ELSE body
        stands(star, text) == IF star THEN TRUE ELSE text = <<>>
    IN  Glob(pattern, name) =
          \E i, j \in 0..Len(name) :
            /\ i <= j /\ SubSeq(name, i + 1, j) = word
            /\ stands(open, SubSeq(name, 1, i))
            /\ stands(closed, SubSeq(name, j + 1, Len(name)))

\* The intersection has each name once that every backend lists, with the definition of
\* the first backend (capability.rs, compose).
ASSUME CommonToolsOnce ==
  \A lists \in ToolLists :
    LET out == ComposeTools(lists, "intersection", {}) IN
    /\ \A i, j \in DOMAIN out : out[i].name = out[j].name => i = j
    /\ \A t \in SomeTools : t.name \in ToolNames(out) <=>
         lists # <<>> /\ \A b \in DOMAIN lists : t.name \in ToolNames(lists[b])
    /\ \A i \in DOMAIN out : out[i] \in ToSet(lists[1])

\* Of a flag that backends disagree about the last one's value is advertised, of an
\* extension the first one's, and nothing is advertised that nobody has
\* (capability.rs, compose_capabilities).
ASSUME CapabilitiesOfTheBackends ==
  \A caps \in CapLists :
    LET composed == ComposeCapabilities(caps, [elicitation |-> NoFlags])
        having(k, f) == {i \in DOMAIN caps : f \in DOMAIN Flags(caps[i], k)}
        winner(k, f) == CHOOSE i \in having(k, f) : \A j \in having(k, f) :
                          IF k = Extensions THEN i <= j ELSE j <= i
    IN  /\ Elicitation \in DOMAIN composed
        /\ "tools" \in DOMAIN composed <=> \E i \in DOMAIN caps : "tools" \in DOMAIN caps[i]
        /\ \A k \in {"tools", Extensions} \cap DOMAIN composed, f \in {"x", "y"} :
             /\ f \in DOMAIN composed[k] <=> having(k, f) # {}
             /\ f \in DOMAIN composed[k] =>
                  composed[k][f] = Flags(caps[winner(k, f)], k)[f]

\* Every tool of a list that was cut short is either shown or found by the search for its
\* own name in the same list (capability.rs, disclose and search_tools).
ASSUME HiddenToolsAreFound ==
  \A tools \in BoundedSeq(SomeTools, 3), threshold \in 0..2 :
    LET shown == ToSet(Disclose(tools, threshold)) IN
    \A t \in ToSet(tools) \ shown :
      SearchTool \in shown /\ t \in ToSet(SearchTools(t.name, tools))
===============================================================================
