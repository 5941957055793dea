------------------------------ MODULE MCStartup ------------------------------
\* Startup for TLC.
EXTENDS Startup, TLC

SymmetricRows == Permutations(Users) \cup Permutations(Devices) \cup Permutations(Sessions)
=============================================================================
