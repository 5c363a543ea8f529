----------------------------- MODULE MCAccounts -----------------------------
(* Accounts on small sets.                                                 *)
EXTENDS Accounts, TLC

(* Logins, changes and account ids are interchangeable.                    *)
Symmetry == Permutations(Login) \cup Permutations(Change) \cup Permutations(User)
=============================================================================
