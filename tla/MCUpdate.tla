------------------------------ MODULE MCUpdate ------------------------------
(***************************************************************************)
(* Update on a small instance: two releases, the older one with a greater  *)
(* part further on.                                                        *)
(***************************************************************************)
EXTENDS Update, TLC

MCVersions == {<<0, 1, 2>>, <<1, 0, 1>>}

Symmetry == Permutations(Updaters)
=============================================================================
