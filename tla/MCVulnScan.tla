----------------------------- MODULE MCVulnScan -----------------------------
\* VulnScan for TLC: two devices with an insecure service each, whose banners
\* yield the same keyword.
EXTENDS VulnScan, TLC

CONSTANTS d1, d2

Ftp == [protocol |-> "ftp", port |-> 21, keyword |-> "vsftpd 2.3.4"]

FtpAgain == [protocol |-> "ftp", port |-> 2121, keyword |-> "vsftpd 2.3.4"]

TheServices == d1 :> {Ftp, FtpAgain} @@ d2 :> {Ftp}

TheSystems == d1 :> "linux" @@ d2 :> "linux"

\* A search for either device, and the local rules for all of them.
Overlapping == {<<{d1}, TRUE>>, <<{d2}, TRUE>>, <<{d1, d2}, FALSE>>}

\* One device only.
Alone == {<<{d1}, TRUE>>, <<{d1}, FALSE>>}

SymmetricScans == Permutations(Scans)
=============================================================================
