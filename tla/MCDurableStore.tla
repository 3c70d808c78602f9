--------------------------- MODULE MCDurableStore ---------------------------
(* DurableStore on small sets of model values. *)
EXTENDS DurableStore, TLC

SymDurable ==
    Permutations(DeviceCodes) \cup Permutations(UserCodes)
    \cup Permutations(Grants) \cup Permutations(Slots)

=============================================================================
