------------------------------- MODULE MCScanner -------------------------------
(***************************************************************************)
(* Scanner with two payloads that fit the budget and one that does not.    *)
(***************************************************************************)
EXTENDS Scanner

CONSTANTS p, q, huge

Item(type, data) == [type |-> type, data |-> data]
Message(content, contents) == [content |-> content, contents |-> contents]

MCMessages ==
  {Message(<<Item("text", p), Item("binary", q)>>, <<>>),
   Message(<<Item("link", p), Item("binary", Undecodable)>>,
           <<Item("bare", None), Item("binary", p)>>),
   Message(<<Item("text", q)>>, <<Item("text", q)>>),
   Message(<<Item("text", huge)>>, <<>>)}

MCSetups ==
  [policy: {"fail_open", "fail_closed"}, deadline: BOOLEAN, cached: BOOLEAN]
===============================================================================
