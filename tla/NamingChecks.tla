------------------------------ MODULE NamingChecks ------------------------------
(***************************************************************************)
(* Naming and Collision over bounded inputs: what the code computes, with  *)
(* what it promises.  TLC evaluates the assumptions of this module with    *)
(* each run of Routing.                                                    *)
(***************************************************************************)
EXTENDS Collision

LOCAL Words == BoundedSeq({"a", "_"}, 4)
LOCAL Paths == BoundedSeq({<<>>, <<"a">>}, 2)
LOCAL Originals == {<<"x">>, <<"y">>, <<"_", "_", "x">>}
LOCAL Labels == Originals \cup {Prefix(b, t) : b \in {<<"a">>, <<"b">>}, t \in Originals}
\* The last puts an id twice.
LOCAL Orders == {<<>>, <<<<"b">>>>, <<<<"b">>, <<"a">>>>, <<<<"a">>, <<"b">>, <<"a">>>>}

\* A label resolves to the id it was made with and the name it was made of, whatever
\* delimiters the name has; an id that ends in an underscore is the exception
\* (namespace.rs, prefix and split).
ASSUME LabelsRoundTrip ==
  \A id, name \in Words :
    Resolvable(id) /\ name # <<>> => Split(Prefix(id, name)) = <<id, name>>

\* A labelled URI resolves to the backend's own URI, with or without a path; an opaque
\* one cannot be labelled and resolves to nobody (prefix_uri and split_uri).
ASSUME UrisRoundTrip ==
  \A id \in Words \ {<<>>}, uri \in [opaque: BOOLEAN, path: Paths] :
    SplitUri(PrefixUri(id, uri)) = IF uri.opaque THEN Unresolved ELSE <<id, uri>>

\* The loop of apply_priority keeps of every original the best ranked copy, the first of
\* equals, in the order of first appearance; the same tool may be listed twice, and a
\* single backend's names are not labelled.
ASSUME PriorityKeepsBest ==
  \A labels \in BoundedSeq(Labels, 3), priority \in Orders :
    LET items == [i \in DOMAIN labels |-> [name |-> labels[i], nth |-> i]]
    IN  ApplyPriority(items, priority) = Preferred(items, priority)
===============================================================================
