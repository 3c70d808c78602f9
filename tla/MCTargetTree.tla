---------------------------- MODULE MCTargetTree ----------------------------
(* TargetTree on four entries, one of them a database, two of one title. *)
EXTENDS TargetTree, TLC

CONSTANTS p1, p2, p3, p4, d

MCShared == <<p1, p2, d, p3, p4>>
MCTitleOf == p1 :> 2 @@ p2 :> 1 @@ p3 :> 2 @@ p4 :> 3 @@ d :> 0

=============================================================================
