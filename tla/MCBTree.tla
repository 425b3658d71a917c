-------------------------------- MODULE MCBTree --------------------------------
(***************************************************************************)
(* Key sets for checking BTree, and a bound on the tree's height: deletes *)
(* leave empty leaves in place (rebalance is a stub), so inserts and      *)
(* deletes of a few keys can grow the tree without end; and inserts into  *)
(* a zero child grow the size counter without end.                        *)
(***************************************************************************)
EXTENDS BTree

MCKey7 == 1..7
MCKey8 == 1..8

MaxHeight == 2
MaxSize == 10

RECURSIVE HeightOf(_)
HeightOf(n) == IF n.leaf \/ n.kids = <<>> \/ n.kids[1] = Zero THEN 0
               ELSE 1 + HeightOf(n.kids[1])

\* size grows on every insert into a zero child's throwaway leaf.
StateBound == HeightOf(tree) <= MaxHeight /\ size <= MaxSize
=============================================================================
