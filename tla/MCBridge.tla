------------------------------ MODULE MCBridge ------------------------------
(* Bridge on small sets of model values. *)
EXTENDS Bridge, TLC

SymBridge ==
    Permutations(Ids) \cup Permutations(Tokens) \cup Permutations(Workspaces)
    \cup Permutations(Names) \cup Permutations(Slots)

=============================================================================
