--------------------------- MODULE MCPairingBroker --------------------------
(* Instances of PairingBroker for TLC. *)
EXTENDS PairingBroker, TLC

\* Codes, consents and request slots are interchangeable.
SymBroker == Permutations(DeviceCodes) \cup Permutations(UserCodes)
               \cup Permutations(Grants) \cup Permutations(Slots)

=============================================================================
