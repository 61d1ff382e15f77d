----------------------------- MODULE MCListCache ------------------------------
(***************************************************************************)
(* ListCache with two connections of different principals.                 *)
(***************************************************************************)
EXTENDS ListCache

CONSTANTS alice, bob

MCPrincipal(c) == c       \* one connection each
===============================================================================
