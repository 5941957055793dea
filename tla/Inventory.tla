------------------------------ MODULE Inventory ------------------------------
(***************************************************************************)
(* How one ingest run turns packet records into the device inventory       *)
(* (inventory/inventory_service.py), seen from inside its SQLAlchemy       *)
(* Session.  The Session has autoflush off, so there are two inventories:  *)
(* `mem`, the objects the run holds and changes, and `sql`, what its own   *)
(* SELECTs can see, which is `mem` as it was at the last flush.  A third   *)
(* view, the IngestCache, stands in for most of the SELECTs; both callers  *)
(* in the program use one, the tests mostly do without.                    *)
(*                                                                         *)
(* One action reads one frame and ingests its record whole.  Which frames  *)
(* there are depends on the network: the runs choose a few small ones.     *)
(***************************************************************************)
EXTENDS Naturals, Sequences, FiniteSets, PacketProcessor, OsFingerprint

CONSTANTS
    LanIps, PublicIps,  \* unicast addresses, by is_lan_ip
    Macs, Names,        \* unicast MACs, host names
    Oui,                \* the vendor of each MAC, None if it is not known
    Words,              \* of what category vendors and names have keywords
    Networks,
    Frames,             \* of each network, the frames that may be captured
    Caching             \* and: may the caller pass an IngestCache? may it not?

Ips == LanIps \cup PublicIps

\* None is SQL NULL, an absent field, an address that is no host's.
ASSUME NoneAssumption == None \notin Ips \cup Macs \cup Names \cup Nat
ASSUME CachingAssumption == Caching \in [Networks -> SUBSET BOOLEAN]
ASSUME WordsAssumption == Names \subseteq DOMAIN Words /\ Oui \in [Macs -> DOMAIN Words \cup {None}]

(***************************************************************************)
(* A frame as PacketProcessor reads it.  A field that its layers do not    *)
(* have is None, 0 or empty.                                               *)
(***************************************************************************)
Layers == {"cdp", "lldp", "profinet", "dcp", "arp", "ip", "tcp", "udp", "icmp"}

HostName == [source : {"dns", "dhcp", "nbns", "nbt", "session"}, name : Names,
             ip : Ips \cup {None}, response : BOOLEAN, type : {"a", "other"}, group : BOOLEAN]

Identity == [kind : {"nothing", "list_identity", "modbus_identification", "modbus_slave_id",
                     "vendor_class", "http", "ssdp", "mdns_txt", "order_code"},
             vendor : DOMAIN Words \cup {None}, name : Names \cup {None},
             type : Types \cup {None}]

Frame == [layers : SUBSET Layers, mac : Macs \cup {None},
          src : Ips \cup {None}, dst : Ips \cup {None}, sport : Nat, dport : Nat,
          flags : SUBSET {"S", "A"}, syn : Syn, payload : DOMAIN PayloadProtocol \cup {"other"},
          frame_id : Nat, l2_name : Names \cup {None},
          names : Seq(HostName), identity : Identity]

ASSUME FramesAssumption == \A n \in Networks : Frames[n] \subseteq Frame

VARIABLES
    run,      \* mem, sql, cache, and clash: has an INSERT repeated a unique key?
    network   \* where it captures

vars == <<run, network>>

(***************************************************************************)
(* Devices are numbered as their rows are: 1, 2, ... in order of creation. *)
(* `os` and `confidence` are os_signature and os_confidence, `score` is    *)
(* device_type_confidence, in twelfths and eighths.  Models, versions and  *)
(* banners are left out: they are filled in and nothing reads them back.   *)
(***************************************************************************)
Device == [ip : Ips \cup {None}, mac : Macs \cup {None},
           vendor : DOMAIN Words \cup {None}, hostname : DOMAIN Words \cup {None},
           os : SignatureNames \cup {"none", "cdp_lldp_announcement"}, confidence : 0 .. 12,
           type : Types \cup {"none"}, score : 0 .. 8]

TypeOK ==
    /\ network \in Networks
    /\ \A inventory \in {run.mem, run.sql} :
          /\ inventory.devices \in Seq(Device)
          /\ inventory.protocols \subseteq (DOMAIN run.mem.devices) \X Nat \X (Nat \cup {None})
          /\ inventory.flows \subseteq
                 (DOMAIN run.mem.devices) \X (DOMAIN run.mem.devices) \X {"tcp", "udp"} \X Nat
    /\ run.cache.by_ip \in [Ips -> 0 .. Len(run.mem.devices)]
    /\ run.cache.by_mac \in [Macs -> 0 .. Len(run.mem.devices)]
    /\ run.cache.protocols \subseteq run.mem.protocols
    /\ run.cache.flows \subseteq run.mem.flows

EmptyCache(on) ==
    [on |-> on, by_ip |-> [ip \in Ips |-> 0], by_mac |-> [mac \in Macs |-> 0],
     protocols |-> {}, flows |-> {}]

EmptyInventory == [devices |-> <<>>, protocols |-> {}, flows |-> {}]

EmptyRun(on) ==
    [mem |-> EmptyInventory, sql |-> EmptyInventory, cache |-> EmptyCache(on),
     clash |-> FALSE]

Init ==
    /\ network \in Networks
    /\ \E on \in Caching[network] : run = EmptyRun(on)

-----------------------------------------------------------------------------
(***************************************************************************)
(* The handlers, as functions of a run's state s = [mem, sql, ...].        *)
(***************************************************************************)
Flush(s) == [s EXCEPT !.sql = s.mem]

Oldest(ids) == IF ids = {} THEN 0 ELSE CHOOSE d \in ids : \A e \in ids : d <= e

RowsOfIp(s, ip) ==
    {d \in DOMAIN s.sql.devices : s.sql.devices[d].ip = ip /\ ip # None}

MacOnlyRows(s, mac) ==
    {d \in DOMAIN s.sql.devices : s.sql.devices[d].mac = mac /\ s.sql.devices[d].ip = None}

FindByIp(s, ip) ==
    IF s.cache.by_ip[ip] # 0 THEN s.cache.by_ip[ip] ELSE Oldest(RowsOfIp(s, ip))

FindByMac(s, mac) ==
    IF s.cache.by_mac[mac] # 0 THEN s.cache.by_mac[mac] ELSE Oldest(MacOnlyRows(s, mac))

FindDevice(s, ip, mac) ==
    LET byIp == IF ip # None THEN FindByIp(s, ip) ELSE 0
    IN  IF byIp = 0 /\ mac # None THEN FindByMac(s, mac) ELSE byIp

\* lookup_vendor
LookupVendor(mac) == IF mac = None THEN None ELSE Oui[mac]

NewDevice(ip, mac) ==
    [ip |-> ip, mac |-> mac, vendor |-> LookupVendor(mac), hostname |-> None,
     os |-> "none", confidence |-> 0, type |-> "none", score |-> 0]

FillIn(old, new) == IF old = None THEN new ELSE old

\* Mutant: the new row is added and not flushed.
CreateDeviceUnflushed(s, ip, mac) ==
    [s EXCEPT !.mem.devices = Append(@, NewDevice(ip, mac))]

CreateDevice(s, ip, mac) ==
    Flush([s EXCEPT !.mem.devices = Append(@, NewDevice(ip, mac))])

\* A change of one object.
Put(s, d, device) == [s EXCEPT !.mem.devices[d] = device]

\* Mutant: the last address seen is the device's.
TouchedOverwrites(device, ip, mac) ==
    [device EXCEPT !.mac = IF mac = None THEN @ ELSE mac, !.ip = IF ip = None THEN @ ELSE ip]

\* Mutant: the two are swapped.
TouchedSwaps(device, ip, mac) ==
    [device EXCEPT !.mac = FillIn(@, ip), !.ip = FillIn(@, mac)]

Touched(device, ip, mac) ==
    [device EXCEPT !.mac = FillIn(@, mac), !.ip = FillIn(@, ip),
                   !.vendor = FillIn(@, LookupVendor(FillIn(device.mac, mac)))]

\* Mutant: the entry of a MAC that has got an ip stays.
RememberKeepsMac(s, d) ==
    LET device == s.mem.devices[d]
    IN  IF ~s.cache.on THEN s
        ELSE IF device.ip # None THEN [s EXCEPT !.cache.by_ip[device.ip] = d]
        ELSE [s EXCEPT !.cache.by_mac[device.mac] = d]

\* A device with an ip is only ever cached under it.
Remember(s, d) ==
    LET device == s.mem.devices[d]
        forgotten == [mac \in Macs |-> IF mac = device.mac THEN 0 ELSE s.cache.by_mac[mac]]
    IN  IF ~s.cache.on THEN s
        ELSE IF device.ip # None
        THEN [s EXCEPT !.cache.by_ip[device.ip] = d, !.cache.by_mac = forgotten]
        ELSE [s EXCEPT !.cache.by_mac[device.mac] = d]

\* get_or_create_device: the device's number, 0 for none, and the new state.
GetOrCreate(s, ip, mac) ==
    LET found == FindDevice(s, ip, mac)
        touched == IF found = 0 THEN CreateDevice(s, ip, mac)
                   ELSE Put(s, found, Touched(s.mem.devices[found], ip, mac))
        d == IF found = 0 THEN Len(touched.mem.devices) ELSE found
    IN  IF ip = None /\ mac = None THEN [d |-> 0, s |-> s]
        ELSE [d |-> d, s |-> Remember(touched, d)]

\* apply_os_guess: only a more confident guess replaces the one on record.
OsGuessed(device, guess) ==
    IF guess.confidence <= device.confidence THEN device
    ELSE [device EXCEPT !.os = guess.os, !.confidence = guess.confidence]

ApplyOsGuess(s, d, guess) == Put(s, d, OsGuessed(s.mem.devices[d], guess))

WordsOf(text) == IF text = None THEN {} ELSE Words[text]

\* apply_device_type_guess: the services come from a SELECT, the rest from
\* the object; a guess that is not more confident is ignored.
Guessed(s, d, device) ==
    LET served == {row[2] : row \in {r \in s.sql.protocols : r[1] = d}}
        guess == Classify(WordsOf(device.vendor), WordsOf(device.hostname), device.os,
                          \E protocol \in served : IsOt(protocol), Cardinality(served))
    IN  IF guess.score <= device.score THEN device
        ELSE [device EXCEPT !.type = guess.type, !.score = guess.score]

ApplyTypeGuess(s, d) == Put(s, d, Guessed(s, d, s.mem.devices[d]))

\* apply_identity_hints: a type that a device says it is of is believed, a
\* vendor where none is known.
Identified(device, hint) ==
    LET known == [device EXCEPT !.vendor = FillIn(@, hint.vendor)]
    IN  IF hint.type = None THEN known ELSE [known EXCEPT !.type = hint.type, !.score = 8]

ApplyIdentityHints(s, d, hints) ==
    LET after[i \in 0 .. Len(hints)] ==
            IF i = 0 THEN s ELSE Put(after[i - 1], d, Identified(after[i - 1].mem.devices[d], hints[i]))
    IN  after[Len(hints)]

\* Who else shows a name, by SELECT.
OthersNamed(s, hint) ==
    {e \in DOMAIN s.sql.devices :
        s.sql.devices[e].hostname = hint.name /\ s.sql.devices[e].ip \notin {None, hint.ip}}

Nameless(device) == [device EXCEPT !.hostname = None]

\* apply_hostname_hints, for one hint: a name some other row holds is taken
\* from it, and not given to anybody.
ApplyHostnameHint(s, hint) ==
    LET d == Oldest(RowsOfIp(s, hint.ip))
        devices == s.mem.devices
        others == OthersNamed(s, hint)
    IN  IF hint = None THEN s
        ELSE IF d = 0 THEN s
        ELSE IF devices[d].hostname = hint.name THEN s
        ELSE IF others # {}
        THEN [s EXCEPT !.mem.devices =
                 [e \in DOMAIN devices |->
                     IF e \in others THEN Guessed(s, e, Nameless(devices[e])) ELSE devices[e]]]
        ELSE ApplyTypeGuess(Put(s, d, [devices[d] EXCEPT !.hostname = hint.name]), d)

ApplyHostnameHints(s, hints) ==
    LET after[i \in 0 .. Len(hints)] ==
            IF i = 0 THEN s ELSE ApplyHostnameHint(after[i - 1], hints[i])
    IN  after[Len(hints)]

\* Find-or-create of a row by its unique key.  A row added and not flushed
\* is invisible to the SELECT: only the cache can find it again.
IsKnown(s, table, key) == key \in s.cache[table] \/ key \in s.sql[table]

\* Mutant: the row is not cached.
UpsertUncached(s, table, key) ==
    [s EXCEPT !.mem[table] = @ \cup {key},
              !.clash = @ \/ (key \in s.mem[table] /\ ~IsKnown(s, table, key))]

Upsert(s, table, key) ==
    [s EXCEPT !.mem[table] = @ \cup {key},
              !.cache[table] = IF s.cache.on THEN @ \cup {key} ELSE @,
              !.clash = @ \/ (key \in s.mem[table] /\ ~IsKnown(s, table, key))]

\* Mutant: the new row waits for the commit.
UpsertProtocolUnflushed(s, d, protocol, port) ==
    Upsert(s, "protocols", <<d, protocol, port>>)

\* upsert_protocol and the flush after it: of a row just added, and of every
\* row when there is no cache.
UpsertProtocol(s, d, protocol, port) ==
    LET key == <<d, protocol, port>>
        upserted == Upsert(s, "protocols", key)
    IN  IF s.cache.on /\ IsKnown(s, "protocols", key) THEN upserted ELSE Flush(upserted)

\* upsert_flow: both directions of a conversation are one row.
UpsertFlow(s, d, e, transport, port) ==
    Upsert(s, "flows", IF d <= e THEN <<d, e, transport, port>> ELSE <<e, d, transport, port>>)

\* Self-announcements name the device without asking who else has the name.
Announce(s, d, name) ==
    IF name = None THEN s ELSE Put(s, d, [s.mem.devices[d] EXCEPT !.hostname = name])

IngestArp(s, r) ==
    LET src == GetOrCreate(s, r.src, r.mac)
    IN  IF src.d = 0 THEN s ELSE ApplyTypeGuess(src.s, src.d)

CdpLldpGuess == [os |-> "cdp_lldp_announcement", confidence |-> 12]

IngestCdpLldp(s, r) ==
    LET src == GetOrCreate(s, None, r.mac)
        named == Announce(src.s, src.d, r.l2_name)
    IN  IF src.d = 0 THEN s
        ELSE ApplyTypeGuess(ApplyOsGuess(named, src.d, CdpLldpGuess), src.d)

IngestProfinet(s, r) ==
    LET src == GetOrCreate(s, None, r.mac)
        named == Announce(src.s, src.d, r.l2_name)
    IN  IF src.d = 0 THEN s
        ELSE ApplyTypeGuess(UpsertProtocol(named, src.d, r.l2_protocol, None), src.d)

\* The side whose port is known, or the lower one.
LikelyServer(r) ==
    LET src_known == DetectByPort(r.sport) # Unknown
        dst_known == DetectByPort(r.dport) # Unknown
    IN  IF src_known /\ ~dst_known THEN "src"
        ELSE IF dst_known /\ ~src_known THEN "dst"
        ELSE IF r.sport < r.dport THEN "src" ELSE "dst"

\* Mutant: a SYN is a SYN, acknowledged or not.
PickServerSideAnySyn(r) == IF r.is_syn \/ r.is_syn_ack THEN "dst" ELSE LikelyServer(r)

\* _pick_server_side: only a handshake is sure.
PickServerSide(r) ==
    IF r.is_syn THEN "dst" ELSE IF r.is_syn_ack THEN "src" ELSE LikelyServer(r)

\* A TCP, UDP or ICMP packet.  Only the sender's MAC is learned.
IngestIp(s, r) ==
    LET src == GetOrCreate(s, r.src, r.mac)
        dst == GetOrCreate(src.s, r.dst, None)
        seen == IF s.cache.on THEN dst.s ELSE Flush(dst.s)
        identified ==
            IF src.d = 0 THEN seen ELSE ApplyIdentityHints(seen, src.d, r.identity_hints)
        fingerprinted ==
            IF src.d = 0 \/ ~(r.is_syn \/ r.is_syn_ack) THEN identified
            ELSE ApplyTypeGuess(ApplyOsGuess(identified, src.d, Fingerprint(r.syn)), src.d)
        side == PickServerSide(r)
        server == IF side = "src" THEN src.d ELSE dst.d
        port == IF side = "src" THEN r.sport ELSE r.dport
        service == UpsertProtocol(fingerprinted, server, DetectProtocol(port, r.payload), port)
        served ==
            IF src.d = 0 \/ dst.d = 0 \/ r.transport = "icmp" THEN fingerprinted
            ELSE UpsertFlow(ApplyTypeGuess(service, server), src.d, dst.d, r.transport, port)
    IN  ApplyHostnameHints(served, r.hostname_hints)

IngestPacketRecord(s, r) ==
    CASE r.transport = "arp" -> IngestArp(s, r)
      [] r.transport \in {"cdp", "lldp"} -> IngestCdpLldp(s, r)
      [] r.transport = "profinet" -> IngestProfinet(s, r)
      [] r.transport \in {"tcp", "udp", "icmp"} -> IngestIp(s, r)

\* apply_gateway_detection: which rows have a MAC is what SELECT says, what
\* the MAC and the ip are is what the objects say.
PublicRows(s, mac) ==
    {d \in DOMAIN s.sql.devices : /\ s.sql.devices[d].mac # None
                                  /\ s.mem.devices[d].mac = mac
                                  /\ s.mem.devices[d].ip \in PublicIps}

Gateways(s) ==
    {Oldest(PublicRows(s, mac)) : mac \in {m \in Macs : Cardinality(PublicRows(s, m)) >= 2}}

ApplyGatewayDetection(s) ==
    [s EXCEPT !.mem.devices =
        [d \in DOMAIN s.mem.devices |->
            IF d \in Gateways(s)
            THEN [s.mem.devices[d] EXCEPT !.type = "network_device", !.score = 8]
            ELSE s.mem.devices[d]]]

-----------------------------------------------------------------------------
\* The records of the frames that are of interest.
Records == [n \in Networks |-> {ProcessPacket(f) : f \in Frames[n]} \ {None}]

Ingest(record) == run' = IngestPacketRecord(run, record)

\* process_pcap_file commits its progress and goes on with the same cache.
CommitProgress == run' = Flush(run)

\* The end of a file or of a live batch: the gateway pass, and the commit.
\* The next batch has a Session and a cache of its own.
EndRun ==
    run' = [Flush(ApplyGatewayDetection(run)) EXCEPT !.cache = EmptyCache(run.cache.on)]

Next ==
    /\ \/ \E record \in Records[network] : Ingest(record)
       \/ CommitProgress
       \/ EndRun
    /\ UNCHANGED network

Spec == Init /\ [][Next]_vars

-----------------------------------------------------------------------------
(***************************************************************************)
(* Properties.                                                             *)
(***************************************************************************)
Devices == run.mem.devices

\* However lookups are split between the cache and SELECTs that lag behind, a run
\* with a cache never makes a second device for an address, or for a MAC alone.
OneRowPerAddress ==
    run.cache.on => \A d, e \in DOMAIN Devices :
        d # e => /\ Devices[d].ip = Devices[e].ip => Devices[d].ip = None
                 /\ Devices[d].mac = Devices[e].mac /\ Devices[d].mac # None
                        => Devices[d].ip # None \/ Devices[e].ip # None

\* "Mirrors the two lookup queries above exactly" (inventory_service.py:171):
\* a cached device is the one a SELECT on the flushed state would find.
CacheMirrorsQueries ==
    /\ \A ip \in Ips :
          run.cache.by_ip[ip] # 0
              => run.cache.by_ip[ip] = Oldest(RowsOfIp(Flush(run), ip))
    /\ \A mac \in Macs :
          run.cache.by_mac[mac] # 0
              => run.cache.by_mac[mac] = Oldest(MacOnlyRows(Flush(run), mac))

\* No upsert inserts a key that is already there, unflushed: the INSERT would
\* fail at the next flush and take the whole transaction with it.
NoKeyInsertedTwice == ~run.clash

\* A device that served an OT protocol, even in a single packet, has been
\* classified from it: SELECT saw the row before the guess was made.
ServiceIsClassified ==
    \A row \in run.mem.protocols : IsOt(row[2]) => Devices[row[1]].score >= 6

\* Every service was seen: whatever was merged and cached in between, some
\* packet has its device and its port at one end, and that end may be the
\* server's.  The client's end of a handshake may not, nor, outside of one, an
\* unknown port above the other end's.
IsSender(r, device) ==
    \/ device.ip = r.src /\ r.src # None
    \/ device.mac = r.mac /\ r.mac # None

MayServe(port, other) == DetectByPort(port) # Unknown \/ port <= other

SeenServing(r, device, port) ==
    \/ /\ IsSender(r, device) /\ port = r.sport
       /\ ~r.is_syn
       /\ r.is_syn_ack \/ MayServe(r.sport, r.dport)
    \/ /\ device.ip = r.dst /\ r.dst # None /\ port = r.dport
       /\ r.is_syn \/ (~r.is_syn_ack /\ MayServe(r.dport, r.sport))

Conversing == {r \in Records[network] : r.transport \in {"tcp", "udp"}}

ServicesWereSeen ==
    \A row \in run.mem.protocols :
        row[3] # None => \E r \in Conversing : SeenServing(r, Devices[row[1]], row[3])

\* What a device is known by never changes once known, nor does its evidence
\* get weaker, whatever is merged into it.
IdentityIsKept ==
    [][\A d \in DOMAIN run.mem.devices :
          /\ run.mem.devices[d].ip \in {None, run'.mem.devices[d].ip}
          /\ run.mem.devices[d].mac \in {None, run'.mem.devices[d].mac}
          /\ run.mem.devices[d].vendor \in {None, run'.mem.devices[d].vendor}
          /\ run'.mem.devices[d].confidence >= run.mem.devices[d].confidence
          /\ run'.mem.devices[d].score >= run.mem.devices[d].score]_run

\* inventory_service.py:275-280: a name two addresses claim is shown by none.
NoSharedName ==
    \A d, e \in DOMAIN Devices :
        d # e /\ Devices[d].hostname # None => Devices[d].hostname # Devices[e].hostname

-----------------------------------------------------------------------------
(***************************************************************************)
(* What the project says of ingestion, and the code does not always do.    *)
(***************************************************************************)

\* inventory_service.py:451-453: upsert_flow "Aggregates both directions of a TCP/UDP
\* conversation between two devices into a single row".
Conversations(ip, jp) ==
    {{<<f.src, f.sport>>, <<f.dst, f.dport>>} :
        f \in {g \in Frames[network] :
                  g.layers \cap {"tcp", "udp"} # {} /\ {g.src, g.dst} = {ip, jp}}}

OneFlowPerConversation ==
    \A d, e \in DOMAIN Devices :
        Cardinality({row \in run.mem.flows : row[1] = d /\ row[2] = e})
            <= Cardinality(Conversations(Devices[d].ip, Devices[e].ip))

\* inventory_service.py:173-176: otherwise "a later mac-only lookup would
\* resolve to a device the real \"mac == mac AND ip IS NULL\" query could no
\* longer match".
MacLookupFindsNoIp ==
    \A mac \in Macs :
        LET d == FindDevice(run, None, mac) IN d # 0 => Devices[d].ip = None

\* inventory_service.py:549-551 and README.md:18-20: a device announced by
\* its MAC "will be merged with an IP-keyed row later if the same MAC is ever
\* seen sending ordinary IP traffic".
MergedOnIpTraffic ==
    \A f \in {g \in Frames[network] : ReadBy(g) = "ip" /\ g.src \in Ips} :
        LET devices == IngestPacketRecord(run, ProcessPacket(f)).mem.devices
        IN  ~\E d \in DOMAIN devices : devices[d].mac = f.mac /\ devices[d].ip = None

\* inventory_service.py:328: "Two or more distinct public IPs sharing a MAC is
\* that exact pattern", and the pass at the end of a run finds it.
GatewayIsFound ==
    LET ended == Flush(ApplyGatewayDetection(run))
    IN  \A mac \in Macs :
            Cardinality(PublicRows(ended, mac)) >= 2
                => ended.mem.devices[Oldest(PublicRows(ended, mac))].score = 8

\* inventory_service.py:329-331: "the oldest of those public-IP rows is picked
\* to represent the gateway", and routes_inventory.py:70-72 collapses the
\* others into "the one row" picked: one MAC has one gateway row.
OneGatewayPerMac ==
    \A d, e \in {x \in DOMAIN Devices : Devices[x].ip \in PublicIps /\ Devices[x].score = 8} :
        Devices[d].mac = Devices[e].mac => d = e
=============================================================================
