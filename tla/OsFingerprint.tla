---------------------------- MODULE OsFingerprint ----------------------------
(***************************************************************************)
(* The passive guess at an operating system from the header of one TCP SYN *)
(* or SYN-ACK (fingerprint/os_fingerprint.py).  A score is three times the *)
(* program's, so 12 is a confidence of 1.0; rounding to two digits keeps   *)
(* the order of twelfths.                                                  *)
(***************************************************************************)
EXTENDS Naturals, Sequences

\* What is read of a header; parse_tcp_options looks for three option names.
Syn == [ttl : 0 .. 255, window : 0 .. 65535,
        sack : BOOLEAN, timestamp : BOOLEAN, wscale : BOOLEAN]

Signatures == <<
    [name |-> "windows", ttl |-> 128, min |-> 8192, max |-> 65535,
     sack |-> TRUE, timestamp |-> FALSE, wscale |-> TRUE],
    [name |-> "linux", ttl |-> 64, min |-> 5000, max |-> 65535,
     sack |-> TRUE, timestamp |-> TRUE, wscale |-> TRUE],
    [name |-> "bsd_macos", ttl |-> 64, min |-> 65535, max |-> 65535,
     sack |-> TRUE, timestamp |-> TRUE, wscale |-> TRUE],
    [name |-> "network_device", ttl |-> 255, min |-> 1024, max |-> 16384,
     sack |-> FALSE, timestamp |-> FALSE, wscale |-> FALSE],
    [name |-> "embedded_ot", ttl |-> 64, min |-> 0, max |-> 4096,
     sack |-> FALSE, timestamp |-> FALSE, wscale |-> FALSE]>>

SignatureNames == {"windows", "linux", "bsd_macos", "network_device", "embedded_ot"}

\* guess_initial_ttl: routers on the way have taken one each.
InitialTtl(observed) ==
    CASE observed <= 32 -> 32
      [] observed > 32 /\ observed <= 64 -> 64
      [] observed > 64 /\ observed <= 128 -> 128
      [] observed > 128 /\ observed <= 255 -> 255
      [] observed > 255 -> observed

Points(holds, points) == IF holds THEN points ELSE 0

\* _score_signature
Score(signature, syn) ==
      Points(InitialTtl(syn.ttl) = signature.ttl, 6)
    + Points(signature.min <= syn.window /\ syn.window <= signature.max, 3)
    + Points(syn.sack = signature.sack, 1)
    + Points(syn.timestamp = signature.timestamp, 1)
    + Points(syn.wscale = signature.wscale, 1)

\* The first of the signatures with the most points.
FirstBestOf(f) ==
    CHOOSE i \in 1 .. 5 : \A j \in 1 .. 5 : f[j] < f[i] \/ (f[j] = f[i] /\ i <= j)

\* fingerprint_tcp_syn
Fingerprint(syn) ==
    LET scores == [i \in 1 .. 5 |-> Score(Signatures[i], syn)]
        best == FirstBestOf(scores)
    IN  [os |-> Signatures[best].name, confidence |-> scores[best]]
=============================================================================
