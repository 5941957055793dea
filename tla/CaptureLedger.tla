---------------------------- MODULE CaptureLedger ----------------------------
(***************************************************************************)
(* What a live capture promises about its two counters.  Every record the  *)
(* sniffer dissects is first pending, and leaves the pending ones in one   *)
(* of three ways: stored (CaptureSession.packet_count), counted as dropped *)
(* (CaptureSession.dropped_count), or forgotten.  Forgetting is what the   *)
(* project's README says never happens; the ledger allows it only once it  *)
(* is tainted: the session has left "running", or a batch has failed.      *)
(***************************************************************************)
EXTENDS Naturals

VARIABLES
    seen,      \* records dissected so far
    pending,   \* of those, the ones neither stored, counted nor forgotten
    stored,    \* packet_count
    counted,   \* dropped_count
    tainted    \* has the session ended, or an ingest failed, at some time?

ledgerVars == <<seen, pending, stored, counted, tainted>>

LedgerInit ==
    /\ seen = 0
    /\ pending = 0
    /\ stored = 0
    /\ counted = 0
    /\ tainted = FALSE

See ==
    /\ seen' = seen + 1
    /\ pending' = pending + 1
    /\ UNCHANGED <<stored, counted, tainted>>

\* One transaction books n records as stored together with d drops.
Book(n, d) ==
    /\ n + d <= pending
    /\ pending' = pending - (n + d)
    /\ stored' = stored + n
    /\ counted' = counted + d
    /\ UNCHANGED <<seen, tainted>>

\* Losing records is impossible before the taint, and taints in one step
\* when the failure that loses them is the first one.
Forget(n) ==
    /\ n <= pending
    /\ pending' = pending - n
    /\ tainted' = TRUE
    /\ UNCHANGED <<seen, stored, counted>>

LedgerNext ==
    \/ See
    \/ \E n, d \in 0 .. pending : Book(n, d)
    \/ \E n \in 0 .. pending : Forget(n)

LedgerSpec == LedgerInit /\ [][LedgerNext]_ledgerVars
=============================================================================
