---------------------------- MODULE ProtocolDetect ----------------------------
(***************************************************************************)
(* The protocol of one end of a conversation                               *)
(* (fingerprint/protocol_detect.py).  A protocol is known by the first of  *)
(* its ports; TLS, PROFINET's four and the unknown one have none, and get  *)
(* numbers that are no port of the table.                                  *)
(***************************************************************************)
EXTENDS Naturals

OtPorts == {102, 502, 1911, 1962, 2222, 2404, 4840, 4911, 5006, 5094, 9600, 20000,
            44818, 47808}

ItPorts == {20, 21, 22, 23, 25, 53, 67, 68, 69, 80, 110, 111, 123, 135, 137, 138, 139,
            143, 161, 162, 389, 443, 445, 512, 513, 514, 993, 995, 1433, 1521, 1883,
            2049, 3306, 3389, 5432, 5900, 8080}

Unknown == 0
Tls == 1

\* packet_processor.py: the names of PROFINET's frames.
PnioPs == 2
PnDcp == 3
PnAlarm == 4
ProfinetOther == 5

\* detect_by_port: DHCP and Niagara Fox have two ports each.
DetectByPort(port) ==
    CASE port = 68 -> 67
      [] port = 4911 -> 1911
      [] port \in (OtPorts \cup ItPorts) \ {68, 4911} -> port
      [] port \notin OtPorts \cup ItPorts -> Unknown

\* detect_by_payload, on what the first bytes look like.
PayloadProtocol == [http |-> 80, ssh |-> 22, ftp |-> 21, tls |-> Tls]

\* classify: a payload that is recognized overrides the port.
DetectProtocol(port, payload) ==
    IF payload \in DOMAIN PayloadProtocol THEN PayloadProtocol[payload]
    ELSE DetectByPort(port)

IsOt(protocol) == protocol \in OtPorts \cup {PnioPs, PnDcp, PnAlarm, ProfinetOther}
=============================================================================
