------------------------------ MODULE LocalRules ------------------------------
(***************************************************************************)
(* The offline rules of vuln/rules.py: which findings the services and the *)
(* TCP fingerprint of a device give rise to, and which keywords its        *)
(* banners yield for a search in the NVD.  A finding is its rule_id: the   *)
(* texts follow from it and from the service that was looked at last.      *)
(***************************************************************************)
CONSTANTS
    OtProtocols,        \* OT_PROTOCOLS of protocol_detect.py
    InsecureProtocols,  \* INSECURE_PROTOCOL_NAMES, some of them OT
    NoKeyword           \* what a banner yields that no pattern matches

Rule(id, protocol) == [rule |-> id, protocol |-> protocol]

\* A service is a server row of device_protocols: its protocol, its port and
\* the keyword of its banner.
Insecure(services) ==
    {Rule("insecure-protocol", s.protocol) :
        s \in {t \in services : t.protocol \in InsecureProtocols \ OtProtocols}}

UnauthenticatedOt(services) ==
    {Rule("ot-protocol-exposure", s.protocol) :
        s \in {t \in services : t.protocol \in OtProtocols}}

\* is_ot_suspected is set with a device's first OT service (upsert_protocol).
EmbeddedOt(services, os) ==
    {Rule("embedded-ot-stack", "tcp") :
        s \in {t \in services : os = "embedded_ot" /\ t.protocol \in OtProtocols}}

\* run_local_rules.  A protocol on two ports is one finding: the rule_id does
\* not say which port, and the second one overwrites what the first one wrote.
FiringRules(services, os) ==
    Insecure(services) \cup UnauthenticatedOt(services) \cup EmbeddedOt(services, os)

\* extract_banner_product_version, over all of a device's banners.
BannerKeywords(services) == {s.keyword : s \in services} \ {NoKeyword}
=============================================================================
