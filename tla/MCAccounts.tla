------------------------------ MODULE MCAccounts ------------------------------
(* Small instances of Accounts for TLC. *)
EXTENDS Accounts, TLC

Symmetry ==
  Permutations(Requests) \cup Permutations(TgIds) \cup Permutations(UserIds)
    \cup Permutations(Emails) \cup Permutations(Passwords)

==============================================================================
