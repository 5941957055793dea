----------------------------- MODULE MCAccounts -----------------------------
\* Accounts for TLC: ids of users are interchangeable.
EXTENDS Accounts, TLC

UserSymmetry == Permutations(Users)
=============================================================================
