--------------------------- MODULE MCAccountStore ---------------------------
(* AccountStore on small sets of model values. *)
EXTENDS AccountStore, TLC

SymStore == Permutations(Ids) \cup Permutations(Tokens) \cup Permutations(Names)

=============================================================================
