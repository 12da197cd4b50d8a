------------------------------ MODULE MCEviction ------------------------------
(***************************************************************************)
(* EvictionFreeList with prompts that share prefixes, up to three blocks   *)
(* long, over a handful of blocks that are alike.                          *)
(***************************************************************************)
EXTENDS EvictionFreeList, TLC

MCPrompts == {<<"a">>, <<"a", "b">>, <<"a", "b", "c">>, <<"x", "y">>}
BlocksAlike == Permutations(Blocks)
=============================================================================
