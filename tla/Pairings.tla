------------------------------ MODULE Pairings ------------------------------
(***************************************************************************)
(* The vocabulary of a pairing: what identifies it and what it is for.     *)
(***************************************************************************)
CONSTANTS
    DeviceCodes,  \* what the device polls with
    Grants,       \* access tokens, each the result of one consent at Notion
    None          \* nothing: undefined in the code

ASSUME PairingsAssumption == None \notin Grants

=============================================================================
