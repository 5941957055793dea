----------------------------- MODULE MCEvidence -----------------------------
\* Evidence for TLC: the headers that the device may send.
EXTENDS Evidence, TLC

Header(ttl, window, options) ==
    [ttl |-> ttl, window |-> window, sack |-> "sack" \in options,
     timestamp |-> "timestamp" \in options, wscale |-> "wscale" \in options]

\* A Windows stack two hops away, that does not scale its window.
OneHeader == {Header(126, 64240, {"sack"})}
OneName == {{"workstation"}}
AVendor == {"plc"}
OneClaim == {"plc"}

SymmetricRuns == Permutations(Runs)

=============================================================================
