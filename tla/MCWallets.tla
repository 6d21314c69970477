------------------------------ MODULE MCWallets ------------------------------
(* Small instances of Wallets for TLC. *)
EXTENDS Wallets

CONSTANTS a, A, b, g1

(* "a" and "A" spell one address in two letter cases. *)
MCCanon == [x \in Addresses |-> IF x = A THEN a ELSE x]

Body(kind, address, group) == [kind |-> kind, address |-> address, group |-> group]

Keep == [address |-> Unset, active |-> Unset, group |-> Unset]

(* Two spellings of one address, a group, and both kinds of wallets.          *)
MCPayloads == {Body("evm", A, g1), Body("manual", Null, Null)}
MCPatches ==
  {[Keep EXCEPT !.group = g1], [Keep EXCEPT !.address = Null],
   [Keep EXCEPT !.address = a, !.group = Null], [Keep EXCEPT !.address = b]}

(* For liveness: one kind of body, and a patch that needs no clock.           *)
AnswerPayloads == {Body("evm", A, Null)}
AnswerPatches == {[Keep EXCEPT !.active = TRUE]}

Symmetry ==
  Permutations(Requests) \cup Permutations(Users) \cup Permutations(WalletIds)

==============================================================================
