------------------------------ MODULE MCScene -------------------------------
(* Scene on small sets of model values. *)
EXTENDS Scene, TLC

SymScene == Permutations(Ids \ {RootID})

=============================================================================
