----------------------------- MODULE MCInventory -----------------------------
\* Inventory for TLC: the networks that the run chooses from.
EXTENDS Inventory

NoSyn == [ttl |-> 0, window |-> 0, sack |-> FALSE, timestamp |-> FALSE, wscale |-> FALSE]

Nothing == [kind |-> "nothing", vendor |-> None, name |-> None, type |-> None]

Blank == [layers |-> {}, mac |-> None, src |-> None, dst |-> None, sport |-> 0, dport |-> 0,
          flags |-> {}, syn |-> NoSyn, payload |-> "other", frame_id |-> 0, l2_name |-> None,
          names |-> <<>>, identity |-> Nothing]

Arp(src, mac) == [Blank EXCEPT !.layers = {"arp"}, !.mac = mac, !.src = src]

CdpLldp(layer, mac, name) == [Blank EXCEPT !.layers = {layer}, !.mac = mac, !.l2_name = name]

Profinet(mac, frame_id, name) ==
    [Blank EXCEPT
        !.layers = {"profinet"} \cup IF PnioProtocol(frame_id) = PnDcp THEN {"dcp"} ELSE {},
        !.mac = mac, !.frame_id = frame_id, !.l2_name = name]

\* A frame of IP from src, with the MAC that was in front of it.
Ip(transport, src, mac, dst) ==
    [Blank EXCEPT !.layers = {"ip", transport}, !.mac = mac, !.src = src, !.dst = dst]

Udp(src, mac, dst, port) == [Ip("udp", src, mac, dst) EXCEPT !.sport = port, !.dport = port]

\* The stacks of a Windows host and of a controller.
Windows == [ttl |-> 128, window |-> 64240, sack |-> TRUE, timestamp |-> FALSE, wscale |-> TRUE]
Embedded == [ttl |-> 64, window |-> 2048, sack |-> FALSE, timestamp |-> FALSE, wscale |-> FALSE]

\* What may be seen of a conversation: the handshake, and data either way.
ClientPort == 49152

Conversation(client, from, server, port, mac, stack, payload) ==
    LET Sent == [Ip("tcp", client, mac, server) EXCEPT !.sport = from, !.dport = port]
        Answer == [Ip("tcp", server, mac, client) EXCEPT !.sport = port, !.dport = from]
    IN  {[Sent EXCEPT !.flags = {"S"}, !.syn = Windows],
         [Answer EXCEPT !.flags = {"S", "A"}, !.syn = stack],
         [Sent EXCEPT !.flags = {"A"}],
         [Answer EXCEPT !.flags = {"A"}, !.payload = payload]}

\* Addresses: ARP, CDP, ICMP between the LAN and the internet with any MAC in
\* front, a DHCP client that has no address yet, and controllers that say
\* what they are.
ListsIdentity(src, mac) ==
    [Udp(src, mac, None, 44818) EXCEPT
        !.identity = [kind |-> "list_identity", vendor |-> None, name |-> None, type |-> "plc"]]

AddressFrames ==
         {Arp(ip, mac) : ip \in Ips, mac \in Macs}
    \cup {CdpLldp("cdp", mac, None) : mac \in Macs}
    \cup {Ip("icmp", src, mac, dst) : src \in LanIps, mac \in Macs, dst \in PublicIps}
    \cup {Ip("icmp", src, mac, dst) : src \in PublicIps, mac \in Macs, dst \in LanIps}
    \cup {[Udp(None, mac, None, 67) EXCEPT !.sport = 68] : mac \in Macs}
    \cup {ListsIdentity(src, mac) : src \in LanIps, mac \in Macs}

OneMac == {CHOOSE mac \in Macs : TRUE}

\* Services: of an OT port, of a port that nobody knows, and of PROFINET,
\* which has no address.
ServiceFrames ==
         {Profinet(mac, 32768, None) : mac \in OneMac}
    \cup {CdpLldp("lldp", mac, None) : mac \in OneMac}
    \cup UNION {Conversation(client, ClientPort, server, 502, mac, Embedded, "other") :
                   client \in PublicIps, mac \in OneMac, server \in LanIps}
    \cup UNION {Conversation(client, ClientPort, server, 7000, mac, Windows, "tls") :
                   client \in LanIps, mac \in OneMac, server \in PublicIps}

\* Names: of the sender, of another, and in identities; and the
\* vendors that come with them.
Named(frame, source, name) ==
    [frame EXCEPT !.names = <<[source |-> source, name |-> name, ip |-> None,
                               response |-> FALSE, type |-> "other", group |-> FALSE]>>]

Says(frame, kind, name) ==
    [frame EXCEPT !.identity = [kind |-> kind, vendor |-> "Cisco", name |-> name, type |-> "plc"]]

NameFrames ==
    UNION { {Says(Named(Udp(src, mac, None, 67), "dhcp", name), "vendor_class", None),
             Named(Udp(src, mac, None, 137), "nbns", name),
             Says(Udp(src, mac, None, 1900), "ssdp", None),
             Says(Udp(src, mac, None, 5353), "mdns_txt", name),
             [Udp(src, mac, None, 5353) EXCEPT
                 !.names = <<[source |-> "dns", response |-> TRUE, type |-> "a",
                              ip |-> ip, name |-> name, group |-> FALSE]>>],
             Arp(src, mac)} :
            src \in Ips, mac \in OneMac, ip \in Ips, name \in Names }

\* The port a client calls from happens to be one of the table.
CoincidenceFrames ==
    UNION {Conversation(client, 44818, server, 7000, mac, Windows, "other") :
              client \in PublicIps, mac \in OneMac, server \in LanIps}

Texts == [x \in Names \cup {"Siemens", "Cisco"} |->
             CASE x = "Siemens" -> {"plc"}
               [] x = "Cisco" -> {"network_device"}
               [] OTHER -> {"hmi"}]

TheOui == [mac \in Macs |-> IF mac \in OneMac THEN "Siemens" ELSE None]

\* The tests run without a cache where services are found.
TheFrames == [addresses |-> AddressFrames, services |-> ServiceFrames, names |-> NameFrames,
              coincidence |-> CoincidenceFrames]
TheCaching == [n \in Networks |-> IF n = "services" THEN BOOLEAN ELSE {TRUE}]
=============================================================================
