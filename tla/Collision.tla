------------------------------- MODULE Collision --------------------------------
(***************************************************************************)
(* The collision strategies of the composed tool list (collision.rs): how  *)
(* labelled names are thinned out by priority or renamed by hand, and how  *)
(* an exposed name is turned back into a label.  A list is a sequence of   *)
(* items with a name.                                                      *)
(***************************************************************************)
EXTENDS Naming, SequencesExt

Original(name) == IF Split(name) = Unresolved THEN name ELSE Split(name)[2]

\* Places of an id in the priority list; collecting them into a HashMap keeps the last.
Places(id, priority) == {i \in DOMAIN priority : priority[i] = id}
Rank(name, priority) ==
  IF Split(name) = Unresolved \/ Places(Split(name)[1], priority) = {}
  THEN Len(priority)
  ELSE Max(Places(Split(name)[1], priority)) - 1

\* One step of the loop: an original seen for the first time is appended, a better
\* ranked copy takes the place of the one kept, any other copy is discarded.
Prefer(kept, item, priority) ==
  LET same == {i \in DOMAIN kept : Original(kept[i].name) = Original(item.name)} IN
  IF same = {} THEN Append(kept, item)
  ELSE [i \in DOMAIN kept |->
          IF i \in same /\ Rank(item.name, priority) < Rank(kept[i].name, priority)
          THEN item ELSE kept[i]]

ApplyPriority(items, priority) ==
  LET kept[n \in 0..Len(items)] ==
        IF n = 0 THEN <<>> ELSE Prefer(kept[n - 1], items[n], priority)
  IN  kept[Len(items)]

\* What priority promises: of every original the best ranked copy, the first of equals,
\* in the order in which the originals first appear.
Best(items, priority, o) ==
  LET copies == {i \in DOMAIN items : Original(items[i].name) = o} IN
  CHOOSE i \in copies : \A j \in copies \ {i} :
    \/ Rank(items[i].name, priority) < Rank(items[j].name, priority)
    \/ Rank(items[i].name, priority) = Rank(items[j].name, priority) /\ i < j
FirstCopy(items, i) == \A j \in 1..i - 1 : Original(items[j].name) # Original(items[i].name)
Preferred(items, priority) ==
  LET firsts == SetToSortSeq({i \in DOMAIN items : FirstCopy(items, i)}, <) IN
  [k \in DOMAIN firsts |-> items[Best(items, priority, Original(items[firsts[k]].name))]]

\* manual: the label under which a name is exposed, the labels that claim one exposed
\* name, and the labels one exposed name may be inverted to: the first that iterating
\* the HashMap of overrides finds, the name itself when there is none.
Target(name, overrides) == IF name \in DOMAIN overrides THEN overrides[name] ELSE name
Clash(names, overrides) ==
  \E i, j \in DOMAIN names :
    names[i] # names[j] /\ Target(names[i], overrides) = Target(names[j], overrides)
Inversions(value, overrides) ==
  LET renamed == {name \in DOMAIN overrides : overrides[name] = value} IN
  IF renamed = {} THEN {value} ELSE renamed

\* compose_variants: the variants of the first backend that has any which all of the
\* others that have any have too, in its order; `advertised` holds one sequence a
\* backend, <<>> without the extension.
ComposeVariants(advertised) ==
  LET supporting == SelectSeq(advertised, LAMBDA vs : vs # <<>>) IN
  IF supporting = <<>> THEN <<>>
  ELSE SelectSeq(Head(supporting),
                 LAMBDA v : \A i \in DOMAIN supporting : v \in ToSet(supporting[i]))
===============================================================================
