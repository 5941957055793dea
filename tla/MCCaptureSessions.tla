--------------------------- MODULE MCCaptureSessions ---------------------------
\* CaptureSessions for TLC.
EXTENDS CaptureSessions, TLC

HostSymmetry == Permutations(Sessions) \cup Permutations(Hosts)

OrgSymmetry == Permutations(Sessions) \cup Permutations(Orgs)
=============================================================================
