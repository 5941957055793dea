--------------------------- MODULE PacketProcessor ---------------------------
(***************************************************************************)
(* What is read of one captured frame (capture/packet_processor.py), with  *)
(* the names and identities that it holds (fingerprint/hostname_detect.py, *)
(* identity_detect.py).  A frame is what scapy makes of it:                *)
(*                                                                         *)
(*   layers            the layers it has                                   *)
(*   mac, src, dst     its sender's MAC, its addresses (of ARP, the ones   *)
(*                     it tells of); None is one that is no host's         *)
(*   sport, dport, flags, syn    of TCP or UDP; syn as OsFingerprint has it*)
(*   payload           what its first bytes look like, for ProtocolDetect  *)
(*   frame_id, l2_name of PROFINET; the name in CDP, LLDP or PROFINET-DCP  *)
(*   names             the host names it holds, each with its source       *)
(*   identity          what it tells of its sender, if anything            *)
(*                                                                         *)
(* A payload is of one protocol, so that there is one identity at most.    *)
(* Models, firmware and evidence are left out, and BACnet, that tells of   *)
(* nothing else.                                                           *)
(***************************************************************************)
EXTENDS Naturals, Sequences, DeviceClassifier, ProtocolDetect

CONSTANTS
    None,
    MsBrowse    \* the token __MSBROWSE__, which is no name

Ends(f) == {f.sport, f.dport}

-----------------------------------------------------------------------------
(***************************************************************************)
(* Host names: the sources of hostname_detect.py.                          *)
(***************************************************************************)
\* extract_dns_hostnames: the A records of an answer.
InAnswer(f, n) == n.source = "dns" /\ n.response /\ n.type = "a"

\* extract_dhcp_hostname: option 12, whoever sends it.
InLease(f, n) == n.source = "dhcp" /\ f.src # None

\* extract_nbns_hostname: registrations, not of groups.
InRegistration(f, n) == n.source = "nbns" /\ ~n.group /\ n.name # MsBrowse /\ f.src # None

\* extract_nbt_datagram_hostname
InDatagram(f, n) == n.source = "nbt" /\ f.src # None

\* extract_netbios_session_hostname: the calling name of a session request.
InSessionRequest(f, n) ==
    /\ n.source = "session" /\ "tcp" \in f.layers /\ f.dport = 139
    /\ n.name # MsBrowse /\ f.src # None

IsHint(f, n) ==
    \/ InAnswer(f, n) \/ InLease(f, n) \/ InRegistration(f, n)
    \/ InDatagram(f, n) \/ InSessionRequest(f, n)

\* extract_hostname_hints: a name in an answer is another's, the others are
\* the sender's own; None for a name that is not believed.
HostnameHints(f) ==
    [i \in 1 .. Len(f.names) |->
        IF ~IsHint(f, f.names[i]) THEN None
        ELSE [ip |-> IF f.names[i].source = "dns" THEN f.names[i].ip ELSE f.src,
              name |-> f.names[i].name]]

-----------------------------------------------------------------------------
(***************************************************************************)
(* Identities: the extractors of identity_detect.py.                       *)
(***************************************************************************)
\* extract_enip_identity: the reply to List Identity, over either transport.
ListIdentity(f) == f.identity.kind = "list_identity" /\ 44818 \in Ends(f)

\* extract_modbus_identity, extract_modbus_legacy_slave_id: scapy has found
\* the layer.
DeviceIdentification(f) == f.identity.kind = "modbus_identification"

SlaveId(f) == f.identity.kind = "modbus_slave_id"

\* extract_dhcp_vendor_class: option 60.
VendorClass(f) == f.identity.kind = "vendor_class"

\* extract_http_identity: the Server header and the title of a page.
HttpResponse(f) == f.identity.kind = "http" /\ "tcp" \in f.layers

\* extract_ssdp_identity
Ssdp(f) == f.identity.kind = "ssdp" /\ "udp" \in f.layers /\ 1900 \in Ends(f)

\* extract_mdns_txt_identity
MdnsTxt(f) == f.identity.kind = "mdns_txt" /\ "udp" \in f.layers /\ 5353 \in Ends(f)

\* extract_s7comm_identity: an order code in what looks like an answer.
OrderCode(f) == f.identity.kind = "order_code" /\ "tcp" \in f.layers /\ 102 \in Ends(f)

\* Which of vendor, name and type an identity gives.
Gives(f) ==
    CASE ListIdentity(f) -> {"name", "type"}
      [] DeviceIdentification(f) \/ HttpResponse(f) \/ MdnsTxt(f) -> {"vendor", "name"}
      [] SlaveId(f) -> {"name"}
      [] VendorClass(f) \/ Ssdp(f) -> {"vendor"}
      [] OrderCode(f) -> {"vendor", "name", "type"}
      [] OTHER -> {}

\* extract_identity_hints
IdentityHints(f) ==
    IF Gives(f) = {} THEN <<>>
    ELSE << [vendor |-> IF "vendor" \in Gives(f) THEN f.identity.vendor ELSE None,
             name |-> IF "name" \in Gives(f) THEN f.identity.name ELSE None,
             type |-> IF "type" \in Gives(f) THEN f.identity.type ELSE None] >>

-----------------------------------------------------------------------------
\* _pnio_protocol_name
PnioProtocol(frame_id) ==
    CASE frame_id \in 65276 .. 65279 -> PnDcp
      [] frame_id \in {64513, 65025} -> PnAlarm
      [] frame_id \in (256 .. 4095) \cup (32768 .. 64511) -> PnioPs
      [] OTHER -> ProfinetOther

\* The layer that a frame is read by.
ReadBy(f) ==
    FirstIn(<<"cdp", "lldp", "profinet", "arp", "ip">>,
            f.layers \cap {"cdp", "lldp", "profinet", "arp", "ip"})

Transport(f) == FirstIn(<<"tcp", "udp", "icmp">>, f.layers \cap {"tcp", "udp", "icmp"})

\* A name in an identity is a host name too.
Claims(f, hints) ==
    [i \in 1 .. Len(hints) |->
        IF hints[i].name = None \/ f.src = None THEN None
        ELSE [ip |-> f.src, name |-> hints[i].name]]

\* A record of IP: names and identities are in TCP and UDP only.
IpRecord(f) ==
    LET hints == IF Transport(f) = "icmp" THEN <<>> ELSE IdentityHints(f)
        names == IF Transport(f) = "icmp" THEN <<>> ELSE HostnameHints(f)
    IN  [transport |-> Transport(f), mac |-> f.mac, src |-> f.src, dst |-> f.dst,
         sport |-> f.sport, dport |-> f.dport,
         is_syn |-> Transport(f) = "tcp" /\ "S" \in f.flags /\ "A" \notin f.flags,
         is_syn_ack |-> Transport(f) = "tcp" /\ {"S", "A"} \subseteq f.flags,
         syn |-> f.syn, payload |-> f.payload,
         hostname_hints |-> names \o Claims(f, hints),
         identity_hints |-> hints]

\* process_packet: the record of a frame, None if it is of no interest.
ProcessPacket(f) ==
    CASE ReadBy(f) \in {"cdp", "lldp"} ->
             [transport |-> ReadBy(f), mac |-> f.mac, l2_name |-> f.l2_name]
      [] ReadBy(f) = "profinet" ->
             [transport |-> "profinet", mac |-> f.mac,
              l2_name |-> IF "dcp" \in f.layers THEN f.l2_name ELSE None,
              l2_protocol |-> PnioProtocol(f.frame_id)]
      [] ReadBy(f) = "arp" -> [transport |-> "arp", mac |-> f.mac, src |-> f.src]
      [] ReadBy(f) = "ip" /\ Transport(f) # "none" -> IpRecord(f)
      [] OTHER -> None
=============================================================================
