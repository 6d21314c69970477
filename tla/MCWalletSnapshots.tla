-------------------------- MODULE MCWalletSnapshots --------------------------
(* Small instances of WalletSnapshots for TLC. *)
EXTENDS WalletSnapshots

CONSTANTS a, A, b

(* "a" and "A" spell one address in two letter cases. *)
MCCanon == [x \in Addresses |-> IF x = A THEN a ELSE x]

MCPayloads == {[kind |-> "evm", address |-> a, group |-> Null]}

Keep == [address |-> Unset, active |-> Unset, group |-> Unset]

(* A change of address, and one that the loaded row shows as mere spelling. *)
MCPatches == {[Keep EXCEPT !.address = A], [Keep EXCEPT !.address = b]}

RequestSymmetry == Permutations(Requests)

==============================================================================
