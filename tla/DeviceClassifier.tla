-------------------------- MODULE DeviceClassifier --------------------------
(***************************************************************************)
(* What kind of device the evidence speaks for                             *)
(* (fingerprint/device_classifier.py).  Votes are in halves: 8 saturate    *)
(* the confidence, and rounding to two digits keeps the order of eighths.  *)
(***************************************************************************)
EXTENDS Naturals, Sequences

Types == {"plc", "hmi", "server", "workstation", "network_device", "other"}

\* A vendor and a host name are the sets of categories they have keywords of.
VendorWords == {"plc", "hmi", "network_device", "server", "other", "it"}
HostWords == {"hmi", "plc", "network_device", "server", "workstation"}

GeneralPurpose == {"windows", "linux"}

\* The first category, in the order that the code asks in.
FirstIn(order, words) ==
    IF words = {} THEN "none"
    ELSE order[CHOOSE i \in DOMAIN order :
                  order[i] \in words /\ \A j \in 1 .. (i - 1) : order[j] \notin words]

\* _vendor_category, _hostname_category
VendorCategory(vendor) ==
    FirstIn(<<"plc", "hmi", "network_device", "server", "other", "it">>, vendor)

HostCategory(host) ==
    FirstIn(<<"hmi", "plc", "network_device", "server", "workstation">>, host)

Vote(for, type, halves) == IF for = type THEN halves ELSE 0

\* A device that serves an industrial protocol is embedded, unless its TCP
\* stack is that of a general-purpose system.
IndustrialType(os) == IF os \in GeneralPurpose THEN "hmi" ELSE "plc"

ManyProtocols == 4

\* The halves for a type, from the categories of vendor and host name, if any:
\* `ot`, does it serve an industrial protocol, and `count`, how many protocols.
Votes(type, vendor, host, os, ot, count) ==
      (IF os = "cdp_lldp_announcement" THEN Vote("network_device", type, 6) ELSE 0)
    + (IF ot THEN Vote(IndustrialType(os), type, 6) ELSE 0)
    + (IF vendor = "it" THEN Vote("server", type, 1) + Vote("workstation", type, 1)
       ELSE Vote(vendor, type, 4))
    + Vote(host, type, 5)
    + (IF os = "embedded_ot" THEN Vote("plc", type, 2)
       ELSE IF os \in GeneralPurpose \cup {"bsd_macos"}
       THEN IF count >= ManyProtocols THEN Vote("server", type, 3)
            ELSE IF count = 0 THEN Vote("workstation", type, 2) ELSE 0
       ELSE 0)

\* The order of the dictionary of scores: max takes the first of the best.
Order == <<"plc", "hmi", "server", "workstation", "network_device", "other">>

\* Mutant: nothing saturates.
Uncapped(halves) == halves

Capped(halves) == IF halves > 8 THEN 8 ELSE halves

\* The first of the best of six.
FirstBest(f) ==
    CHOOSE i \in 1 .. 6 : \A j \in 1 .. 6 : f[j] < f[i] \/ (f[j] = f[i] /\ i <= j)

\* classify_device_type
Classify(vendor, host, os, ot, count) ==
    LET category == <<VendorCategory(vendor), HostCategory(host)>>
        For(i) == Votes(Order[i], category[1], category[2], os, ot, count)
        halves == <<For(1), For(2), For(3), For(4), For(5), For(6)>>
        best == FirstBest(halves)
    IN  IF halves[best] = 0 THEN [type |-> "other", score |-> 0]
        ELSE [type |-> Order[best], score |-> Capped(halves[best])]
=============================================================================
