--------------------------- MODULE InventoryProofs ---------------------------
(***************************************************************************)
(* What TLAPS proves of Inventory, for any networks, addresses, names and  *)
(* frames, with the cache and without.                                     *)
(***************************************************************************)
EXTENDS Inventory, TableProofs, WellFoundedInduction

-----------------------------------------------------------------------------
(***************************************************************************)
(* Induction.  Sets of naturals have a least element, so that a property   *)
(* that is handed on from one number to the next holds of all of them, and *)
(* a function that is defined so is there.                                 *)
(***************************************************************************)
LEMMA LeastExists ==
    ASSUME NEW T, T \subseteq Nat, T # {}
    PROVE  \E x \in T : \A y \in T : x <= y
  <1> DEFINE R == {ss \in Nat \X Nat : ss[1] < ss[2]}
  <1>1. IsWellFoundedOn(R, Nat)
    BY NatLessThanWellFounded, Zenon DEF OpToRel
  <1>2. PICK x \in T : \A y \in T : ~ (<<y, x>> \in R)
    <2> HIDE DEF R
    <2> QED
      BY <1>1, WFMin
  <1>3. \A y \in T : ~(y < x)
    BY <1>2
  <1> QED
    BY <1>2, <1>3

LEMMA UpTo ==
    ASSUME NEW n \in Nat, NEW Good, 0 \in Good,
           \A i \in 1 .. n : i - 1 \in Good => i \in Good
    PROVE  0 .. n \subseteq Good
  <1> DEFINE Bad == {i \in 0 .. n : i \notin Good}
  <1> SUFFICES ASSUME Bad # {} PROVE FALSE
    OBVIOUS
  <1>1. PICK m \in Bad : \A k \in Bad : m <= k
    <2>1. Bad \subseteq Nat
      OBVIOUS
    <2> HIDE DEF Bad
    <2> QED
      BY <2>1, LeastExists
  <1>2. m \in 1 .. n /\ m - 1 \in 0 .. n /\ ~(m <= m - 1)
    <2>1. m \in 0 .. n /\ m # 0
      BY <1>1
    <2> QED
      BY <2>1
  <1>3. m - 1 \notin Bad
    <2> HIDE DEF Bad
    <2> QED
      BY <1>1, <1>2
  <1> QED
    BY <1>1, <1>2, <1>3

-----------------------------------------------------------------------------
(***************************************************************************)
(* The states of a run, and the inductive invariant.  What the runs check  *)
(* is inductive only together with how far `sql` lags behind `mem`         *)
(* (SqlLags), and with the promise that the cache knows what SELECT cannot *)
(* see yet: the addresses that rows have just got (CacheCovers) and the    *)
(* rows that are not flushed (KeysFound).                                  *)
(***************************************************************************)
ProtocolRow == Nat \X Nat \X (Nat \cup {None})
FlowRow == Nat \X Nat \X {"tcp", "udp"} \X Nat

Stored == [devices : Seq(Device), protocols : SUBSET ProtocolRow, flows : SUBSET FlowRow]

Cached == [on : BOOLEAN, by_ip : [Ips -> Nat], by_mac : [Macs -> Nat],
           protocols : SUBSET ProtocolRow, flows : SUBSET FlowRow]

State == [mem : Stored, sql : Stored, cache : Cached, clash : BOOLEAN]

Ids(s) == 1 .. Len(s.mem.devices)

RowsRefer(s) ==
    /\ \A row \in s.mem.protocols : row[1] \in Ids(s)
    /\ \A row \in s.mem.flows : row[1] \in Ids(s) /\ row[2] \in Ids(s)
    /\ s.sql.protocols \subseteq s.mem.protocols /\ s.sql.flows \subseteq s.mem.flows
    /\ s.cache.protocols \subseteq s.mem.protocols /\ s.cache.flows \subseteq s.mem.flows

SqlLags(s) ==
    /\ Len(s.sql.devices) = Len(s.mem.devices)
    /\ \A d \in Ids(s) :
          /\ s.sql.devices[d].ip \in {None, s.mem.devices[d].ip}
          /\ s.sql.devices[d].mac \in {None, s.mem.devices[d].mac}
          /\ s.sql.devices[d].ip # None \/ s.sql.devices[d].mac # None

CacheHolds(s) ==
    /\ \A ip \in Ips : s.cache.by_ip[ip] # 0 =>
          /\ s.cache.on /\ s.cache.by_ip[ip] \in Ids(s)
          /\ s.mem.devices[s.cache.by_ip[ip]].ip = ip
    /\ \A mac \in Macs : s.cache.by_mac[mac] # 0 =>
          /\ s.cache.on /\ s.cache.by_mac[mac] \in Ids(s)
          /\ s.mem.devices[s.cache.by_mac[mac]].mac = mac
          /\ s.mem.devices[s.cache.by_mac[mac]].ip = None

CacheCovers(s) ==
    s.cache.on => \A d \in Ids(s) :
        s.mem.devices[d].ip # s.sql.devices[d].ip => s.cache.by_ip[s.mem.devices[d].ip] = d

RowsApart(s) ==
    s.cache.on => \A d, e \in Ids(s) :
        d # e => /\ s.mem.devices[d].ip = s.mem.devices[e].ip => s.mem.devices[d].ip = None
                 /\ s.mem.devices[d].mac = s.mem.devices[e].mac /\ s.mem.devices[d].mac # None
                        => s.mem.devices[d].ip # None \/ s.mem.devices[e].ip # None

KeysFound(s) ==
    /\ ~s.clash
    /\ s.mem.protocols \subseteq s.sql.protocols \cup s.cache.protocols
    /\ s.cache.on => s.mem.flows \subseteq s.sql.flows \cup s.cache.flows

Classified(s) ==
    \A row \in s.mem.protocols : IsOt(row[2]) => s.mem.devices[row[1]].score >= 6

Witnessed(device, port) == port # None => \E r \in Conversing : SeenServing(r, device, port)

Seen(s) == \A row \in s.mem.protocols : Witnessed(s.mem.devices[row[1]], row[3])

Sound(s) ==
    /\ s \in State
    /\ RowsRefer(s)
    /\ SqlLags(s)
    /\ CacheHolds(s)
    /\ CacheCovers(s)
    /\ RowsApart(s)
    /\ KeysFound(s)
    /\ Classified(s)
    /\ Seen(s)

\* What holds even of a state whose newest service nobody has looked at yet.
Consistent(s) ==
    /\ s \in State
    /\ RowsRefer(s)
    /\ SqlLags(s)
    /\ CacheHolds(s)
    /\ CacheCovers(s)
    /\ RowsApart(s)
    /\ KeysFound(s)
    /\ Seen(s)

InventoryInv == network \in Networks /\ Sound(run)

(***************************************************************************)
(* What a handler may do to a state, beside keeping it sound: rows are     *)
(* kept, and what is known of them; whether there is a cache is kept too.  *)
(***************************************************************************)
Grows(a, b) ==
    /\ a.ip \in {None, b.ip}
    /\ a.mac \in {None, b.mac}
    /\ a.vendor \in {None, b.vendor}
    /\ a.confidence <= b.confidence
    /\ a.score <= b.score

Kept(s, t) ==
    /\ t.cache.on = s.cache.on
    /\ Len(s.mem.devices) <= Len(t.mem.devices)
    /\ \A d \in Ids(s) : Grows(s.mem.devices[d], t.mem.devices[d])

Leads(s, t) == Sound(t) /\ Kept(s, t)

\* A better view of the same host.
Regrades(a, b) == b \in Device /\ a.ip = b.ip /\ a.mac = b.mac /\ Grows(a, b)

\* Only the marks of devices differ, and are better.
Regraded(s, t) ==
    /\ t \in State
    /\ t.sql = s.sql /\ t.cache = s.cache /\ t.clash = s.clash
    /\ t.mem.protocols = s.mem.protocols /\ t.mem.flows = s.mem.flows
    /\ Len(t.mem.devices) = Len(s.mem.devices)
    /\ \A d \in Ids(s) : Regrades(s.mem.devices[d], t.mem.devices[d])

LEMMA GrowsIsTransitive ==
    ASSUME NEW a \in Device, NEW b \in Device, NEW c \in Device, Grows(a, b), Grows(b, c)
    PROVE  Grows(a, c)
  BY DEF Grows, Device

LEMMA GrowsItself ==
    ASSUME NEW a \in Device
    PROVE  Grows(a, a) /\ Regrades(a, a)
  BY DEF Grows, Regrades, Device

LEMMA StateParts ==
    ASSUME NEW s \in State
    PROVE  /\ s.mem \in Stored /\ s.sql \in Stored /\ s.cache \in Cached /\ s.clash \in BOOLEAN
           /\ Len(s.mem.devices) \in Nat
           /\ s.mem.devices \in Seq(Device) /\ s.sql.devices \in Seq(Device)
           /\ \A d \in Ids(s) : s.mem.devices[d] \in Device
           /\ DOMAIN s.mem.devices = Ids(s)
           /\ Ids(s) \subseteq Nat \ {0}
  BY DEF State, Stored, Cached, Ids

LEMMA LeadsIsTransitive ==
    ASSUME NEW s \in State, NEW t \in State, NEW u \in State, Kept(s, t), Leads(t, u)
    PROVE  Leads(s, u)
  <1>1. \A d \in Ids(s) : Grows(s.mem.devices[d], u.mem.devices[d])
    <2> TAKE d \in Ids(s)
    <2>1. d \in Ids(t) /\ d \in Ids(u)
      BY StateParts DEF Leads, Kept, Ids
    <2>2. /\ s.mem.devices[d] \in Device /\ t.mem.devices[d] \in Device /\ u.mem.devices[d] \in Device
          /\ Grows(s.mem.devices[d], t.mem.devices[d]) /\ Grows(t.mem.devices[d], u.mem.devices[d])
      BY <2>1, StateParts DEF Leads, Kept
    <2> QED
      BY <2>2, GrowsIsTransitive
  <1> QED
    BY <1>1, StateParts DEF Leads, Kept

LEMMA LeadsToItself ==
    ASSUME NEW s, Sound(s)
    PROVE  Leads(s, s)
  BY StateParts, GrowsItself DEF Leads, Kept, Sound

\* A host that gets better known is still the one that was seen to serve.
LEMMA SeenStays ==
    ASSUME NEW s, NEW t, RowsRefer(s), Seen(s), t.mem.protocols = s.mem.protocols,
           \A d \in Ids(s) : /\ s.mem.devices[d].ip \in {None, t.mem.devices[d].ip}
                             /\ s.mem.devices[d].mac \in {None, t.mem.devices[d].mac}
    PROVE  Seen(t)
  <1> SUFFICES ASSUME NEW row \in s.mem.protocols
               PROVE  Witnessed(t.mem.devices[row[1]], row[3])
    BY DEF Seen
  <1> DEFINE a == s.mem.devices[row[1]]
             b == t.mem.devices[row[1]]
  <1>1. a.ip \in {None, b.ip} /\ a.mac \in {None, b.mac} /\ Witnessed(a, row[3])
    BY DEF RowsRefer, Seen
  <1> HIDE DEF a, b
  <1>2. \A r : SeenServing(r, a, row[3]) => SeenServing(r, b, row[3])
    BY <1>1 DEF SeenServing, IsSender
  <1>3. Witnessed(b, row[3])
    BY <1>1, <1>2 DEF Witnessed
  <1> QED
    BY <1>3 DEF b

LEMMA RegradedIsConsistent ==
    ASSUME NEW s, NEW t, Consistent(s), Regraded(s, t)
    PROVE  /\ Consistent(t) /\ Kept(s, t)
           /\ \A row \in s.mem.protocols :
                 s.mem.devices[row[1]].score >= 6 => t.mem.devices[row[1]].score >= 6
  <1>1. Ids(t) = Ids(s)
    BY DEF Regraded, Ids
  <1>2. \A d \in Ids(s) : /\ t.mem.devices[d].ip = s.mem.devices[d].ip
                          /\ t.mem.devices[d].mac = s.mem.devices[d].mac
                          /\ s.mem.devices[d].score \in Nat /\ t.mem.devices[d].score \in Nat
                          /\ s.mem.devices[d].score <= t.mem.devices[d].score
    <2> TAKE d \in Ids(s)
    <2>1. s.mem.devices[d] \in Device /\ t.mem.devices[d] \in Device
      BY <1>1, StateParts DEF Consistent, Regraded
    <2>2. Regrades(s.mem.devices[d], t.mem.devices[d])
      BY DEF Regraded
    <2> QED
      BY <2>1, <2>2 DEF Regrades, Grows, Device
  <1>3. RowsRefer(t) /\ SqlLags(t) /\ KeysFound(t) /\ Seen(t)
    <2>1. Seen(t)
      BY <1>2, SeenStays DEF Consistent, Regraded
    <2> QED
      BY <1>1, <1>2, <2>1 DEF Consistent, Regraded, RowsRefer, SqlLags, KeysFound
  <1>4. CacheHolds(t)
    <2>1. CacheHolds(s) /\ t.cache = s.cache
      BY DEF Consistent, Regraded
    <2> QED
      BY <1>1, <1>2, <2>1 DEF CacheHolds
  <1>5. CacheCovers(t)
    BY <1>1, <1>2 DEF Consistent, Regraded, CacheCovers
  <1>6. RowsApart(t)
    BY <1>1, <1>2 DEF Consistent, Regraded, RowsApart
  <1>7. Kept(s, t)
    BY <1>1, StateParts DEF Kept, Regraded, Regrades, Consistent
  <1>8. ASSUME NEW row \in s.mem.protocols, s.mem.devices[row[1]].score >= 6
        PROVE  t.mem.devices[row[1]].score >= 6
    <2>1. row[1] \in Ids(s)
      BY DEF Consistent, RowsRefer
    <2> QED
      BY <1>2, <1>8, <2>1
  <1> QED
    BY <1>3, <1>4, <1>5, <1>6, <1>7, <1>8 DEF Consistent, Regraded

LEMMA RegradedIsSound ==
    ASSUME NEW s, NEW t, Sound(s), Regraded(s, t)
    PROVE  Leads(s, t)
  <1>1. Consistent(s) /\ Classified(s)
    BY DEF Sound, Consistent
  <1>2. Consistent(t) /\ Kept(s, t) /\ Classified(t)
    BY <1>1, RegradedIsConsistent DEF Classified, Regraded
  <1> QED
    BY <1>2 DEF Leads, Sound, Consistent

-----------------------------------------------------------------------------
(***************************************************************************)
(* Evidence: it only makes a device better known.                          *)
(***************************************************************************)
LEMMA PutParts ==
    ASSUME NEW s \in State, NEW d \in Ids(s), NEW device \in Device
    PROVE  LET t == Put(s, d, device)
           IN  /\ t \in State /\ t.sql = s.sql /\ t.cache = s.cache /\ t.clash = s.clash
               /\ t.mem.protocols = s.mem.protocols /\ t.mem.flows = s.mem.flows
               /\ t.mem.devices = [s.mem.devices EXCEPT ![d] = device]
               /\ Len(t.mem.devices) = Len(s.mem.devices)
               /\ Ids(t) = Ids(s)
               /\ \A e \in Ids(s) :
                     t.mem.devices[e] = IF e = d THEN device ELSE s.mem.devices[e]
  <1> DEFINE t == Put(s, d, device)
             devices == [s.mem.devices EXCEPT ![d] = device]
  <1>1. /\ devices \in Seq(Device) /\ Len(devices) = Len(s.mem.devices)
        /\ \A e \in Ids(s) : devices[e] = IF e = d THEN device ELSE s.mem.devices[e]
    BY StateParts
  <1>2. t = [s EXCEPT !.mem = [s.mem EXCEPT !.devices = devices]]
    BY DEF Put
  <1> HIDE DEF devices
  <1>3. /\ t \in State /\ t.sql = s.sql /\ t.cache = s.cache /\ t.clash = s.clash
        /\ t.mem.devices = devices
        /\ t.mem.protocols = s.mem.protocols /\ t.mem.flows = s.mem.flows
    BY <1>1, <1>2 DEF State, Stored
  <1> QED
    BY <1>1, <1>3 DEF Ids, devices

LEMMA PutRegrades ==
    ASSUME NEW s, Sound(s), NEW d \in Ids(s), NEW device,
           Regrades(s.mem.devices[d], device)
    PROVE  /\ Leads(s, Put(s, d, device))
           /\ Put(s, d, device).mem.devices = [s.mem.devices EXCEPT ![d] = device]
           /\ Put(s, d, device).sql = s.sql
           /\ Ids(Put(s, d, device)) = Ids(s)
  <1> DEFINE t == Put(s, d, device)
  <1>1. s \in State /\ device \in Device
    BY DEF Sound, Regrades
  <1>2. /\ t \in State /\ t.sql = s.sql /\ t.cache = s.cache /\ t.clash = s.clash
        /\ t.mem.protocols = s.mem.protocols /\ t.mem.flows = s.mem.flows
        /\ t.mem.devices = [s.mem.devices EXCEPT ![d] = device]
        /\ Len(t.mem.devices) = Len(s.mem.devices)
        /\ Ids(t) = Ids(s)
        /\ \A e \in Ids(s) : t.mem.devices[e] = IF e = d THEN device ELSE s.mem.devices[e]
    BY <1>1, PutParts
  <1> HIDE DEF t
  <1>3. \A e \in Ids(s) : Regrades(s.mem.devices[e], t.mem.devices[e])
    BY <1>1, <1>2, StateParts, GrowsItself
  <1>4. Leads(s, t)
    BY <1>2, <1>3, RegradedIsSound DEF Regraded
  <1> QED
    BY <1>2, <1>4 DEF t

LEMMA OsGuessedRegrades ==
    ASSUME NEW device \in Device, NEW guess,
           guess.os \in SignatureNames \cup {"cdp_lldp_announcement"}, guess.confidence \in 0 .. 12
    PROVE  Regrades(device, OsGuessed(device, guess))
  <1>1. CASE guess.confidence <= device.confidence
    BY <1>1, GrowsItself DEF OsGuessed
  <1>2. CASE ~(guess.confidence <= device.confidence)
    <2>1. OsGuessed(device, guess) = [device EXCEPT !.os = guess.os, !.confidence = guess.confidence]
      BY <1>2 DEF OsGuessed
    <2>2. OsGuessed(device, guess) \in Device
      BY <2>1 DEF Device
    <2>3. /\ OsGuessed(device, guess).ip = device.ip /\ OsGuessed(device, guess).mac = device.mac
          /\ OsGuessed(device, guess).vendor = device.vendor
          /\ OsGuessed(device, guess).score = device.score
          /\ OsGuessed(device, guess).confidence = guess.confidence
      BY <2>1 DEF Device
    <2>4. device.confidence \in 0 .. 12 /\ device.score \in 0 .. 8
      BY DEF Device
    <2> QED
      BY <1>2, <2>2, <2>3, <2>4 DEF Regrades, Grows
  <1> QED
    BY <1>1, <1>2

ServesOt(s, d) == \E row \in s.sql.protocols : row[1] = d /\ IsOt(row[2])

LEMMA GuessedRegrades ==
    ASSUME NEW s, NEW d, NEW device \in Device
    PROVE  /\ Regrades(device, Guessed(s, d, device))
           /\ ServesOt(s, d) => Guessed(s, d, device).score >= 6
  <1> DEFINE served == {row[2] : row \in {r \in s.sql.protocols : r[1] = d}}
             ot == \E protocol \in served : IsOt(protocol)
             guess == Classify(WordsOf(device.vendor), WordsOf(device.hostname), device.os,
                               ot, Cardinality(served))
  <1>1. ServesOt(s, d) => ot
    BY DEF ServesOt
  <1>2. Guessed(s, d, device) =
           IF guess.score <= device.score THEN device
           ELSE [device EXCEPT !.type = guess.type, !.score = guess.score]
    BY DEF Guessed
  <1>3. guess.type \in Types /\ guess.score \in 0 .. 8 /\ (ot => guess.score >= 6)
    <2>1. ot \in BOOLEAN
      OBVIOUS
    <2> HIDE DEF ot
    <2> QED
      BY <2>1, ClassifyIsGuess
  <1> HIDE DEF guess, ot
  <1>4. device.score \in 0 .. 8
    BY DEF Device
  <1>5. CASE guess.score <= device.score
    BY <1>1, <1>2, <1>3, <1>4, <1>5, GrowsItself
  <1>6. CASE ~(guess.score <= device.score)
    <2>1. Guessed(s, d, device) = [device EXCEPT !.type = guess.type, !.score = guess.score]
      BY <1>2, <1>6
    <2>2. Guessed(s, d, device) \in Device
      BY <1>3, <2>1 DEF Device
    <2>3. /\ Guessed(s, d, device).ip = device.ip /\ Guessed(s, d, device).mac = device.mac
          /\ Guessed(s, d, device).vendor = device.vendor
          /\ Guessed(s, d, device).confidence = device.confidence
          /\ Guessed(s, d, device).score = guess.score
      BY <2>1 DEF Device
    <2>4. device.confidence \in 0 .. 12
      BY DEF Device
    <2> QED
      BY <1>1, <1>3, <1>4, <1>6, <2>2, <2>3, <2>4 DEF Regrades, Grows
  <1> QED
    BY <1>5, <1>6

LEMMA TypeGuessLeads ==
    ASSUME NEW s, Sound(s), NEW d \in Ids(s)
    PROVE  /\ Leads(s, ApplyTypeGuess(s, d))
           /\ ServesOt(s, d) => ApplyTypeGuess(s, d).mem.devices[d].score >= 6
  <1>1. s.mem.devices[d] \in Device /\ d \in DOMAIN s.mem.devices
    BY StateParts DEF Sound
  <1>2. /\ Regrades(s.mem.devices[d], Guessed(s, d, s.mem.devices[d]))
        /\ ServesOt(s, d) => Guessed(s, d, s.mem.devices[d]).score >= 6
    BY <1>1, GuessedRegrades
  <1> DEFINE device == Guessed(s, d, s.mem.devices[d])
             t == Put(s, d, device)
  <1>3. ApplyTypeGuess(s, d) = t
    BY DEF ApplyTypeGuess
  <1>4. Leads(s, t) /\ t.mem.devices = [s.mem.devices EXCEPT ![d] = device]
    BY <1>2, PutRegrades
  <1>5. t.mem.devices[d] = device
    BY <1>1, <1>4
  <1> QED
    BY <1>2, <1>3, <1>4, <1>5

LEMMA OsGuessLeads ==
    ASSUME NEW s, Sound(s), NEW d \in Ids(s), NEW guess,
           guess.os \in SignatureNames \cup {"cdp_lldp_announcement"}, guess.confidence \in 0 .. 12
    PROVE  Leads(s, ApplyOsGuess(s, d, guess))
  <1>1. s.mem.devices[d] \in Device
    BY StateParts DEF Sound
  <1> QED
    BY <1>1, OsGuessedRegrades, PutRegrades DEF ApplyOsGuess

LEMMA IdentifiedRegrades ==
    ASSUME NEW device \in Device, NEW hint,
           hint.vendor \in DOMAIN Words \cup {None}, hint.type \in Types \cup {None}
    PROVE  Regrades(device, Identified(device, hint))
  <1> DEFINE known == [device EXCEPT !.vendor = FillIn(device.vendor, hint.vendor)]
  <1>1. Regrades(device, known)
    BY DEF Regrades, Grows, Device, FillIn
  <1>2. CASE hint.type = None
    BY <1>1, <1>2 DEF Identified
  <1>3. CASE hint.type # None
    <2>1. Identified(device, hint) = [known EXCEPT !.type = hint.type, !.score = 8]
      BY <1>3 DEF Identified
    <2>2. known \in Device
      BY <1>1 DEF Regrades
    <2> HIDE DEF known
    <2>3. Identified(device, hint) \in Device
      <3>1. hint.type \in Types \cup {"none"} /\ 8 \in 0 .. 8
        BY <1>3
      <3>2. \A type \in Types \cup {"none"}, score \in 0 .. 8 :
               [known EXCEPT !.type = type, !.score = score] \in Device
        BY <2>2 DEF Device
      <3> QED
        BY <2>1, <3>1, <3>2
    <2>4. /\ Identified(device, hint).ip = known.ip /\ Identified(device, hint).mac = known.mac
          /\ Identified(device, hint).vendor = known.vendor
          /\ Identified(device, hint).confidence = known.confidence
          /\ Identified(device, hint).score = 8
      BY <2>1, <2>2 DEF Device
    <2>5. device.score \in 0 .. 8
      BY DEF Device
    <2> QED
      BY <1>1, <2>3, <2>4, <2>5 DEF Regrades, Grows
  <1> QED
    BY <1>2, <1>3

LEMMA AnnounceLeads ==
    ASSUME NEW s, Sound(s), NEW d \in Ids(s), NEW name \in Names \cup {None}
    PROVE  Leads(s, Announce(s, d, name))
  <1>1. CASE name = None
    BY <1>1, LeadsToItself DEF Announce
  <1>2. CASE name # None
    <2>1. s.mem.devices[d] \in Device
      BY StateParts DEF Sound
    <2>2. Regrades(s.mem.devices[d], [s.mem.devices[d] EXCEPT !.hostname = name])
      BY <1>2, <2>1, WordsAssumption DEF Regrades, Grows, Device
    <2> QED
      BY <1>2, <2>2, PutRegrades DEF Announce
  <1> QED
    BY <1>1, <1>2

-----------------------------------------------------------------------------
(***************************************************************************)
(* Lists of hints, by induction on their length.                           *)
(***************************************************************************)
IdentityHint == [vendor : DOMAIN Words \cup {None}, name : Names \cup {None},
                 type : Types \cup {None}]

HostnameHint == [ip : Ips \cup {None}, name : Names]

\* What every step keeps, the last one keeps.
LEMMA IterationStays ==
    ASSUME NEW S, NEW n \in Nat, NEW f, f[0] \in S,
           \A i \in 1 .. n : f[i - 1] \in S => f[i] \in S
    PROVE  f[n] \in S
  <1> DEFINE Good == {i \in 0 .. n : f[i] \in S}
  <1>1. 0 \in Good
    OBVIOUS
  <1>2. \A i \in 1 .. n : i - 1 \in Good => i \in Good
    OBVIOUS
  <1>3. 0 .. n \subseteq Good
    <2> HIDE DEF Good
    <2> QED
      BY <1>1, <1>2, UpTo
  <1> QED
    BY <1>3

LEMMA IdentityHintsLead ==
    ASSUME NEW s, Sound(s), NEW d \in Ids(s), NEW hints \in Seq(IdentityHint)
    PROVE  Leads(s, ApplyIdentityHints(s, d, hints))
  <1> DEFINE n == Len(hints)
             S == {t \in State : Leads(s, t)}
             Do(t, i) == Put(t, d, Identified(t.mem.devices[d], hints[i]))
             Def(g) == g = [i \in 0 .. n |-> IF i = 0 THEN s ELSE Do(g[i - 1], i)]
             f == CHOOSE g : Def(g)
  <1>1. n \in Nat /\ s \in S
    BY LeadsToItself DEF Sound
  <1>2. ASSUME NEW i \in 1 .. n, NEW t \in S
        PROVE  Do(t, i) \in S
    <2>1. Sound(t) /\ d \in Ids(t) /\ Kept(s, t)
      BY <1>2, StateParts DEF Leads, Kept, Ids, Sound
    <2>2. t.mem.devices[d] \in Device
      BY <2>1, StateParts
    <2>3. hints[i] \in IdentityHint
      BY <1>2
    <2>4. Regrades(t.mem.devices[d], Identified(t.mem.devices[d], hints[i]))
      BY <2>2, <2>3, IdentifiedRegrades DEF IdentityHint
    <2>5. Leads(t, Do(t, i))
      BY <2>1, <2>4, PutRegrades
    <2> HIDE DEF Do
    <2>6. Leads(s, Do(t, i))
      BY <2>1, <2>5, <1>1, LeadsIsTransitive DEF Leads, Sound
    <2> QED
      BY <2>6 DEF Leads, Sound
  <1> HIDE DEF Do, S
  <1>3. \E g : Def(g)
    <2> DEFINE Part(g, m) == \A i \in 0 .. m : g[i] = IF i = 0 THEN s ELSE Do(g[i - 1], i)
               Has(m) == \E g \in [0 .. m -> S] : Part(g, m)
               Good == {m \in 0 .. n : Has(m)}
    <2>1. Has(0)
      <3> DEFINE g == [i \in 0 .. 0 |-> s]
      <3>1. g \in [0 .. 0 -> S] /\ Part(g, 0)
        BY <1>1
      <3> HIDE DEF g, Part
      <3> QED
        BY <3>1
    <2>2. ASSUME NEW m \in 1 .. n, Has(m - 1)
          PROVE  Has(m)
      <3>1. PICK g \in [0 .. (m - 1) -> S] : Part(g, m - 1)
        BY <2>2
      <3> DEFINE h == [i \in 0 .. m |-> IF i = m THEN Do(g[m - 1], m) ELSE g[i]]
      <3>2. h \in [0 .. m -> S]
        BY <1>1, <1>2
      <3>3. Part(h, m)
        BY <1>1, <3>1, <3>2
      <3> HIDE DEF h, Part
      <3> QED
        BY <3>2, <3>3
    <2>3. 0 \in Good /\ \A i \in 1 .. n : i - 1 \in Good => i \in Good
      <3> HIDE DEF Has
      <3> QED
        BY <1>1, <2>1, <2>2
    <2>4. n \in Good
      <3> HIDE DEF Good, n
      <3>1. 0 .. n \subseteq Good
        BY <1>1, <2>3, UpTo
      <3> QED
        BY <1>1, <3>1
    <2>5. PICK g \in [0 .. n -> S] : Part(g, n)
      BY <2>4
    <2>6. Def(g)
      BY <2>5
    <2> QED
      BY <2>6
  <1>4. Def(f)
    <2> HIDE DEF Def
    <2> QED
      BY <1>3
  <1>5. f[0] \in S /\ \A i \in 1 .. n : f[i] = Do(f[i - 1], i)
    <2> HIDE DEF f
    <2> QED
      BY <1>1, <1>4
  <1>6. f[n] \in S
    <2> HIDE DEF f
    <2>1. \A i \in 1 .. n : f[i - 1] \in S => f[i] \in S
      BY <1>2, <1>5
    <2> QED
      BY <1>1, <1>5, <2>1, IterationStays
  <1>7. ApplyIdentityHints(s, d, hints) = f[n]
    BY DEF ApplyIdentityHints, Do
  <1> QED
    BY <1>6, <1>7 DEF S

LEMMA OldestIsOne ==
    ASSUME NEW ids, ids \subseteq Nat \ {0}
    PROVE  /\ ids = {} => Oldest(ids) = 0
           /\ ids # {} => Oldest(ids) \in ids /\ Oldest(ids) # 0
  <1>1. CASE ids = {}
    BY <1>1 DEF Oldest
  <1>2. CASE ids # {}
    <2>1. \E d \in ids : \A e \in ids : d <= e
      BY <1>2, LeastExists
    <2> QED
      BY <1>2, <2>1 DEF Oldest
  <1> QED
    BY <1>1, <1>2

LEMMA RowsAreIds ==
    ASSUME NEW s, Sound(s)
    PROVE  /\ DOMAIN s.sql.devices = Ids(s)
           /\ \A ip : RowsOfIp(s, ip) \subseteq Ids(s)
           /\ \A mac : MacOnlyRows(s, mac) \subseteq Ids(s)
           /\ Ids(s) \subseteq Nat \ {0}
  BY StateParts DEF Sound, SqlLags, Ids, RowsOfIp, MacOnlyRows

LEMMA HostnameHintLeads ==
    ASSUME NEW s, Sound(s), NEW hint \in HostnameHint \cup {None}
    PROVE  Leads(s, ApplyHostnameHint(s, hint))
  <1> DEFINE d == Oldest(RowsOfIp(s, hint.ip))
             devices == s.mem.devices
             others == OthersNamed(s, hint)
             cleared == [e \in DOMAIN devices |->
                            IF e \in others THEN Guessed(s, e, Nameless(devices[e])) ELSE devices[e]]
             named == Put(s, d, [devices[d] EXCEPT !.hostname = hint.name])
  <1>1. CASE \/ hint = None \/ d = 0 \/ devices[d].hostname = hint.name
    BY <1>1, LeadsToItself DEF ApplyHostnameHint
  <1>2. CASE hint # None /\ d # 0 /\ devices[d].hostname # hint.name /\ others # {}
    <2> DEFINE t == [s EXCEPT !.mem = [s.mem EXCEPT !.devices = cleared]]
    <2>1. ApplyHostnameHint(s, hint) = t
      BY <1>2 DEF ApplyHostnameHint
    <2>2. \A e \in Ids(s) : Regrades(devices[e], cleared[e])
      <3> TAKE e \in Ids(s)
      <3>1. devices[e] \in Device /\ e \in DOMAIN devices
        BY StateParts DEF Sound
      <3>2. Nameless(devices[e]) \in Device /\ Regrades(devices[e], Nameless(devices[e]))
        BY <3>1 DEF Nameless, Regrades, Grows, Device
      <3>3. Regrades(Nameless(devices[e]), Guessed(s, e, Nameless(devices[e])))
        BY <3>2, GuessedRegrades
      <3>4. Regrades(devices[e], Guessed(s, e, Nameless(devices[e])))
        BY <3>1, <3>2, <3>3, GrowsIsTransitive DEF Regrades
      <3> QED
        BY <3>1, <3>4, GrowsItself
    <2>3. cleared \in Seq(Device) /\ Len(cleared) = Len(devices)
      <3>1. /\ Len(devices) \in Nat /\ DOMAIN devices = 1 .. Len(devices)
            /\ \A e \in 1 .. Len(devices) : cleared[e] \in Device
        BY <2>2, StateParts DEF Sound, Regrades, Ids
      <3>2. cleared \in [1 .. Len(devices) -> Device]
        BY <3>1
      <3> HIDE DEF cleared
      <3> QED
        BY <3>1, <3>2
    <2> HIDE DEF cleared
    <2>4. /\ t \in State /\ t.sql = s.sql /\ t.cache = s.cache /\ t.clash = s.clash
          /\ t.mem.devices = cleared
          /\ t.mem.protocols = s.mem.protocols /\ t.mem.flows = s.mem.flows
      BY <2>3 DEF Sound, State, Stored
    <2>5. Regraded(s, t)
      BY <2>2, <2>3, <2>4 DEF Regraded
    <2> QED
      BY <2>1, <2>5, RegradedIsSound
  <1>3. CASE hint # None /\ d # 0 /\ devices[d].hostname # hint.name /\ others = {}
    <2>1. d \in Ids(s)
      BY <1>3, RowsAreIds, OldestIsOne
    <2>2. devices[d] \in Device /\ hint.name \in DOMAIN Words
      BY <1>3, <2>1, StateParts, WordsAssumption DEF Sound, HostnameHint
    <2>3. Regrades(devices[d], [devices[d] EXCEPT !.hostname = hint.name])
      BY <2>2 DEF Regrades, Grows, Device
    <2>4. Leads(s, named) /\ d \in Ids(named)
      BY <2>1, <2>3, PutRegrades
    <2> HIDE DEF named
    <2>5. Leads(named, ApplyTypeGuess(named, d))
      BY <2>4, TypeGuessLeads DEF Leads
    <2>6. Leads(s, ApplyTypeGuess(named, d))
      BY <2>4, <2>5, LeadsIsTransitive DEF Leads, Sound
    <2> QED
      BY <1>3, <2>6 DEF ApplyHostnameHint, named
  <1> QED
    BY <1>1, <1>2, <1>3

LEMMA HostnameHintsLead ==
    ASSUME NEW s, Sound(s), NEW hints \in Seq(HostnameHint \cup {None})
    PROVE  Leads(s, ApplyHostnameHints(s, hints))
  <1> DEFINE n == Len(hints)
             S == {t \in State : Leads(s, t)}
             Do(t, i) == ApplyHostnameHint(t, hints[i])
             Def(g) == g = [i \in 0 .. n |-> IF i = 0 THEN s ELSE Do(g[i - 1], i)]
             f == CHOOSE g : Def(g)
  <1>1. n \in Nat /\ s \in S
    BY LeadsToItself DEF Sound
  <1>2. ASSUME NEW i \in 1 .. n, NEW t \in S
        PROVE  Do(t, i) \in S
    <2>1. Sound(t) /\ Kept(s, t)
      BY <1>2 DEF Leads
    <2>2. Leads(t, Do(t, i))
      BY <1>2, <2>1, HostnameHintLeads
    <2> HIDE DEF Do
    <2>3. Leads(s, Do(t, i))
      BY <2>1, <2>2, <1>1, LeadsIsTransitive DEF Leads, Sound
    <2> QED
      BY <2>3 DEF Leads, Sound
  <1> HIDE DEF Do, S
  <1>3. \E g : Def(g)
    <2> DEFINE Part(g, m) == \A i \in 0 .. m : g[i] = IF i = 0 THEN s ELSE Do(g[i - 1], i)
               Has(m) == \E g \in [0 .. m -> S] : Part(g, m)
               Good == {m \in 0 .. n : Has(m)}
    <2>1. Has(0)
      <3> DEFINE g == [i \in 0 .. 0 |-> s]
      <3>1. g \in [0 .. 0 -> S] /\ Part(g, 0)
        BY <1>1
      <3> HIDE DEF g, Part
      <3> QED
        BY <3>1
    <2>2. ASSUME NEW m \in 1 .. n, Has(m - 1)
          PROVE  Has(m)
      <3>1. PICK g \in [0 .. (m - 1) -> S] : Part(g, m - 1)
        BY <2>2
      <3> DEFINE h == [i \in 0 .. m |-> IF i = m THEN Do(g[m - 1], m) ELSE g[i]]
      <3>2. h \in [0 .. m -> S]
        BY <1>1, <1>2
      <3>3. Part(h, m)
        BY <1>1, <3>1, <3>2
      <3> HIDE DEF h, Part
      <3> QED
        BY <3>2, <3>3
    <2>3. 0 \in Good /\ \A i \in 1 .. n : i - 1 \in Good => i \in Good
      <3> HIDE DEF Has
      <3> QED
        BY <1>1, <2>1, <2>2
    <2>4. n \in Good
      <3> HIDE DEF Good, n
      <3>1. 0 .. n \subseteq Good
        BY <1>1, <2>3, UpTo
      <3> QED
        BY <1>1, <3>1
    <2>5. PICK g \in [0 .. n -> S] : Part(g, n)
      BY <2>4
    <2>6. Def(g)
      BY <2>5
    <2> QED
      BY <2>6
  <1>4. Def(f)
    <2> HIDE DEF Def
    <2> QED
      BY <1>3
  <1>5. f[0] \in S /\ \A i \in 1 .. n : f[i] = Do(f[i - 1], i)
    <2> HIDE DEF f
    <2> QED
      BY <1>1, <1>4
  <1>6. f[n] \in S
    <2> HIDE DEF f
    <2>1. \A i \in 1 .. n : f[i - 1] \in S => f[i] \in S
      BY <1>2, <1>5
    <2> QED
      BY <1>1, <1>5, <2>1, IterationStays
  <1>7. ApplyHostnameHints(s, hints) = f[n]
    BY DEF ApplyHostnameHints, Do
  <1> QED
    BY <1>6, <1>7 DEF S



-----------------------------------------------------------------------------
(***************************************************************************)
(* Devices: lookup, creation, merging.                                     *)
(***************************************************************************)
LEMMA FlushLeads ==
    ASSUME NEW s, Sound(s)
    PROVE  /\ Leads(s, Flush(s))
           /\ Flush(s).mem = s.mem /\ Flush(s).sql = s.mem
           /\ Flush(s).cache = s.cache /\ Flush(s).clash = s.clash
           /\ Ids(Flush(s)) = Ids(s)
  <1> DEFINE t == Flush(s)
  <1>1. t \in State /\ t.mem = s.mem /\ t.sql = s.mem /\ t.cache = s.cache /\ t.clash = s.clash
    BY DEF Flush, Sound, State
  <1> HIDE DEF t
  <1>2. Ids(t) = Ids(s)
    BY <1>1 DEF Ids
  <1>3. RowsRefer(t) /\ KeysFound(t) /\ Seen(t) /\ Classified(t)
    BY <1>1, <1>2 DEF Sound, RowsRefer, KeysFound, Seen, Classified
  <1>4. SqlLags(t)
    <2>1. \A d \in Ids(s) : s.mem.devices[d].ip # None \/ s.mem.devices[d].mac # None
      BY DEF Sound, SqlLags
    <2> QED
      BY <1>1, <1>2, <2>1 DEF SqlLags
  <1>5. CacheHolds(t) /\ CacheCovers(t) /\ RowsApart(t)
    BY <1>1, <1>2 DEF Sound, CacheHolds, CacheCovers, RowsApart
  <1>6. Kept(s, t)
    BY <1>1, LeadsToItself DEF Leads, Kept
  <1>7. Leads(s, t)
    BY <1>1, <1>3, <1>4, <1>5, <1>6 DEF Leads, Sound
  <1> QED
    BY <1>1, <1>2, <1>7 DEF t

LEMMA FindByIpFinds ==
    ASSUME NEW s, Sound(s), NEW ip \in Ips
    PROVE  LET d == FindByIp(s, ip)
           IN  /\ d = 0 \/ (d \in Ids(s) /\ s.mem.devices[d].ip = ip)
               /\ d = 0 /\ s.cache.on => \A e \in Ids(s) : s.mem.devices[e].ip # ip
  <1> DEFINE d == FindByIp(s, ip)
  <1>1. ip # None
    BY NoneAssumption
  <1>2. CASE s.cache.by_ip[ip] # 0
    BY <1>2 DEF FindByIp, Sound, CacheHolds
  <1>3. CASE s.cache.by_ip[ip] = 0
    <2>1. d = Oldest(RowsOfIp(s, ip))
      BY <1>3 DEF FindByIp
    <2>2. ASSUME d # 0
          PROVE  d \in Ids(s) /\ s.mem.devices[d].ip = ip
      <3>1. d \in RowsOfIp(s, ip) /\ d \in Ids(s)
        BY <2>1, <2>2, OldestIsOne, RowsAreIds
      <3> HIDE DEF d
      <3> QED
        BY <1>1, <3>1 DEF RowsOfIp, Sound, SqlLags
    <2>3. ASSUME d = 0, s.cache.on, NEW e \in Ids(s), s.mem.devices[e].ip = ip
          PROVE  FALSE
      <3>1. RowsOfIp(s, ip) = {}
        <4>1. RowsOfIp(s, ip) \subseteq Nat \ {0}
          BY RowsAreIds
        <4> HIDE DEF d
        <4> QED
          BY <2>1, <2>3, <4>1, OldestIsOne
      <3>2. s.sql.devices[e].ip # ip
        BY <1>1, <3>1, RowsAreIds DEF RowsOfIp
      <3>3. s.cache.by_ip[ip] = e /\ e # 0
        BY <2>3, <3>2, RowsAreIds DEF Sound, CacheCovers
      <3> QED
        BY <1>3, <3>3
    <2> QED
      BY <2>2, <2>3
  <1> QED
    BY <1>2, <1>3

LEMMA FindByMacFinds ==
    ASSUME NEW s, Sound(s), NEW mac \in Macs
    PROVE  LET d == FindByMac(s, mac)
           IN  /\ d = 0 \/ (d \in Ids(s) /\ s.mem.devices[d].mac = mac)
               /\ d = 0 => \A e \in Ids(s) : s.mem.devices[e].mac # mac \/ s.mem.devices[e].ip # None
  <1> DEFINE d == FindByMac(s, mac)
  <1>1. mac # None
    BY NoneAssumption
  <1>2. CASE s.cache.by_mac[mac] # 0
    BY <1>2 DEF FindByMac, Sound, CacheHolds
  <1>3. CASE s.cache.by_mac[mac] = 0
    <2>1. d = Oldest(MacOnlyRows(s, mac))
      BY <1>3 DEF FindByMac
    <2>2. ASSUME d # 0
          PROVE  d \in Ids(s) /\ s.mem.devices[d].mac = mac
      <3>1. d \in MacOnlyRows(s, mac) /\ d \in Ids(s)
        BY <2>1, <2>2, OldestIsOne, RowsAreIds
      <3> HIDE DEF d
      <3> QED
        BY <1>1, <3>1 DEF MacOnlyRows, Sound, SqlLags
    <2>3. ASSUME d = 0, NEW e \in Ids(s), s.mem.devices[e].mac = mac, s.mem.devices[e].ip = None
          PROVE  FALSE
      <3>1. MacOnlyRows(s, mac) = {}
        <4>1. MacOnlyRows(s, mac) \subseteq Nat \ {0}
          BY RowsAreIds
        <4> HIDE DEF d
        <4> QED
          BY <2>1, <2>3, <4>1, OldestIsOne
      <3>2. s.sql.devices[e].ip = None /\ s.sql.devices[e].mac = mac
        BY <2>3 DEF Sound, SqlLags
      <3> QED
        BY <3>1, <3>2, RowsAreIds DEF MacOnlyRows
    <2> QED
      BY <2>2, <2>3
  <1> QED
    BY <1>2, <1>3

\* Between a merge and the call of Remember, the cache lacks what it has to
\* know of the device merged, and has its MAC where it may not be.
NearlySound(s, d) ==
    /\ s \in State /\ d \in Ids(s)
    /\ RowsRefer(s)
    /\ SqlLags(s)
    /\ \A ip \in Ips : s.cache.by_ip[ip] # 0 =>
          /\ s.cache.on /\ s.cache.by_ip[ip] \in Ids(s)
          /\ s.mem.devices[s.cache.by_ip[ip]].ip = ip
    /\ \A mac \in Macs : s.cache.by_mac[mac] # 0 =>
          /\ s.cache.on /\ s.cache.by_mac[mac] \in Ids(s)
          /\ s.mem.devices[s.cache.by_mac[mac]].mac = mac
          /\ s.mem.devices[s.cache.by_mac[mac]].ip = None \/ s.cache.by_mac[mac] = d
    /\ s.cache.on => \A e \in Ids(s) \ {d} :
          s.mem.devices[e].ip # s.sql.devices[e].ip => s.cache.by_ip[s.mem.devices[e].ip] = e
    /\ RowsApart(s)
    /\ KeysFound(s)
    /\ Classified(s)
    /\ Seen(s)

LEMMA KnownBySomething ==
    ASSUME NEW s \in State, SqlLags(s), NEW d \in Ids(s)
    PROVE  /\ s.mem.devices[d].ip \in Ips \cup {None}
           /\ s.mem.devices[d].mac \in Macs \cup {None}
           /\ s.mem.devices[d].ip # None \/ s.mem.devices[d].mac # None
  <1>1. s.mem.devices[d] \in Device
    BY StateParts
  <1> QED
    BY <1>1 DEF SqlLags, Device

LEMMA RememberLeads ==
    ASSUME NEW s, NEW d, NearlySound(s, d)
    PROVE  /\ Sound(Remember(s, d))
           /\ Remember(s, d).mem = s.mem /\ Remember(s, d).cache.on = s.cache.on
  <1> DEFINE device == s.mem.devices[d]
             forgotten == [mac \in Macs |-> IF mac = device.mac THEN 0 ELSE s.cache.by_mac[mac]]
             t == Remember(s, d)
  <1>1. /\ s \in State /\ d \in Ids(s) /\ d \in Nat /\ d # 0
        /\ device.ip \in Ips \cup {None} /\ device.mac \in Macs \cup {None}
        /\ device.ip # None \/ device.mac # None
    BY StateParts, KnownBySomething DEF NearlySound
  <1> DEFINE by_ip == IF s.cache.on /\ device.ip # None THEN [s.cache.by_ip EXCEPT ![device.ip] = d]
                      ELSE s.cache.by_ip
             by_mac == IF ~s.cache.on THEN s.cache.by_mac
                       ELSE IF device.ip # None THEN forgotten
                       ELSE [s.cache.by_mac EXCEPT ![device.mac] = d]
  <1>2. /\ by_ip \in [Ips -> Nat] /\ by_mac \in [Macs -> Nat]
        /\ \A ip \in Ips : by_ip[ip] = IF s.cache.on /\ ip = device.ip THEN d ELSE s.cache.by_ip[ip]
        /\ \A mac \in Macs : by_mac[mac] = IF s.cache.on /\ mac = device.mac
                                           THEN IF device.ip # None THEN 0 ELSE d
                                           ELSE s.cache.by_mac[mac]
    <2>1. s.cache.by_ip \in [Ips -> Nat] /\ s.cache.by_mac \in [Macs -> Nat]
      BY <1>1, StateParts DEF Cached
    <2>2. forgotten \in [Macs -> Nat]
      BY <2>1
    <2> QED
      BY <1>1, <2>1, <2>2, NoneAssumption
  <1>3. t = [s EXCEPT !.cache = [s.cache EXCEPT !.by_ip = by_ip, !.by_mac = by_mac]]
    <2>1. s.cache \in Cached /\ s = [s EXCEPT !.cache = s.cache]
      BY <1>1, StateParts DEF State
    <2>2. s.cache = [s.cache EXCEPT !.by_ip = s.cache.by_ip, !.by_mac = s.cache.by_mac]
      BY <2>1 DEF Cached
    <2>3. CASE ~s.cache.on
      BY <2>1, <2>2, <2>3 DEF Remember
    <2>4. CASE s.cache.on /\ device.ip # None
      BY <2>1, <2>4 DEF Remember, State, Cached
    <2>5. CASE s.cache.on /\ device.ip = None
      BY <2>1, <2>5 DEF Remember, State, Cached
    <2> QED
      BY <2>3, <2>4, <2>5
  <1> HIDE DEF by_ip, by_mac
  <1>4. /\ t \in State /\ t.mem = s.mem /\ t.sql = s.sql /\ t.clash = s.clash
        /\ t.cache.on = s.cache.on /\ t.cache.by_ip = by_ip /\ t.cache.by_mac = by_mac
        /\ t.cache.protocols = s.cache.protocols /\ t.cache.flows = s.cache.flows
    <2> DEFINE cache == [s.cache EXCEPT !.by_ip = by_ip, !.by_mac = by_mac]
    <2>1. /\ cache \in Cached /\ cache.on = s.cache.on
          /\ cache.by_ip = by_ip /\ cache.by_mac = by_mac
          /\ cache.protocols = s.cache.protocols /\ cache.flows = s.cache.flows
      BY <1>1, <1>2, StateParts DEF Cached
    <2>2. t = [s EXCEPT !.cache = cache]
      BY <1>3
    <2> HIDE DEF cache, t
    <2>3. t \in State /\ t.mem = s.mem /\ t.sql = s.sql /\ t.clash = s.clash /\ t.cache = cache
      BY <1>1, <2>1, <2>2 DEF State
    <2> QED
      BY <2>1, <2>3
  <1> HIDE DEF t
  <1>5. Ids(t) = Ids(s)
    BY <1>4 DEF Ids
  <1>6. RowsRefer(t) /\ SqlLags(t) /\ RowsApart(t) /\ KeysFound(t) /\ Classified(t) /\ Seen(t)
    BY <1>4, <1>5 DEF NearlySound, RowsRefer, SqlLags, RowsApart, KeysFound, Classified, Seen
  <1>7. CacheHolds(t)
    <2>1. ASSUME NEW ip \in Ips, by_ip[ip] # 0
          PROVE  s.cache.on /\ by_ip[ip] \in Ids(s) /\ s.mem.devices[by_ip[ip]].ip = ip
      BY <1>1, <1>2, <2>1 DEF NearlySound
    <2>2. ASSUME NEW mac \in Macs, by_mac[mac] # 0
          PROVE  /\ s.cache.on /\ by_mac[mac] \in Ids(s)
                 /\ s.mem.devices[by_mac[mac]].mac = mac /\ s.mem.devices[by_mac[mac]].ip = None
      <3>1. CASE s.cache.on /\ mac = device.mac
        BY <1>1, <1>2, <2>2, <3>1
      <3>2. CASE ~(s.cache.on /\ mac = device.mac)
        BY <1>1, <1>2, <2>2, <3>2 DEF NearlySound
      <3> QED
        BY <3>1, <3>2
    <2> QED
      BY <1>4, <1>5, <2>1, <2>2 DEF CacheHolds
  <1>8. CacheCovers(t)
    <2> SUFFICES ASSUME s.cache.on, NEW e \in Ids(s), s.mem.devices[e].ip # s.sql.devices[e].ip
                 PROVE  by_ip[s.mem.devices[e].ip] = e
      BY <1>4, <1>5 DEF CacheCovers
    <2>1. s.mem.devices[e].ip \in Ips
      BY <1>1, KnownBySomething DEF NearlySound, SqlLags
    <2>2. e # d => s.mem.devices[e].ip # device.ip
      BY <2>1, NoneAssumption DEF NearlySound, RowsApart
    <2>3. e # d => s.cache.by_ip[s.mem.devices[e].ip] = e
      BY DEF NearlySound
    <2> QED
      BY <1>2, <2>1, <2>2, <2>3
  <1>9. Sound(t)
    BY <1>4, <1>6, <1>7, <1>8 DEF Sound
  <1> QED
    BY <1>4, <1>9 DEF t

LEMMA TouchedGrows ==
    ASSUME NEW device \in Device, NEW ip \in Ips \cup {None}, NEW mac \in Macs \cup {None}
    PROVE  LET touched == Touched(device, ip, mac)
           IN  /\ touched \in Device /\ Grows(device, touched)
               /\ touched.ip = FillIn(device.ip, ip) /\ touched.mac = FillIn(device.mac, mac)
  <1> DEFINE vendor == FillIn(device.vendor, LookupVendor(FillIn(device.mac, mac)))
  <1>1. /\ FillIn(device.ip, ip) \in Ips \cup {None} /\ FillIn(device.mac, mac) \in Macs \cup {None}
        /\ device.vendor \in DOMAIN Words \cup {None}
        /\ device.confidence \in Nat /\ device.score \in Nat
    BY DEF FillIn, Device
  <1>2. vendor \in DOMAIN Words \cup {None} /\ device.vendor \in {None, vendor}
    <2>1. LookupVendor(FillIn(device.mac, mac)) \in DOMAIN Words \cup {None}
      BY <1>1, WordsAssumption DEF LookupVendor
    <2> QED
      BY <1>1, <2>1 DEF FillIn
  <1> HIDE DEF vendor
  <1>3. Touched(device, ip, mac) =
           [device EXCEPT !.mac = FillIn(device.mac, mac), !.ip = FillIn(device.ip, ip),
                          !.vendor = vendor]
    BY DEF Touched, vendor
  <1>4. Touched(device, ip, mac) \in Device
    BY <1>1, <1>2, <1>3 DEF Device
  <1>5. /\ Touched(device, ip, mac).ip = FillIn(device.ip, ip)
        /\ Touched(device, ip, mac).mac = FillIn(device.mac, mac)
        /\ Touched(device, ip, mac).vendor = vendor
        /\ Touched(device, ip, mac).confidence = device.confidence
        /\ Touched(device, ip, mac).score = device.score
    BY <1>3 DEF Device
  <1> QED
    BY <1>1, <1>2, <1>4, <1>5 DEF Grows, FillIn

\* A found device takes an address only if no other device is known by it.
LEMMA TouchLeads ==
    ASSUME NEW s, Sound(s), NEW d \in Ids(s),
           NEW ip \in Ips \cup {None}, NEW mac \in Macs \cup {None},
           s.cache.on /\ s.mem.devices[d].ip = None /\ ip # None
               => \A e \in Ids(s) : s.mem.devices[e].ip # ip
    PROVE  LET t == Put(s, d, Touched(s.mem.devices[d], ip, mac))
           IN  NearlySound(t, d) /\ Kept(s, t)
  <1> DEFINE device == s.mem.devices[d]
             touched == Touched(device, ip, mac)
             t == Put(s, d, touched)
  <1>1. /\ s \in State /\ device \in Device
        /\ device.ip \in Ips \cup {None} /\ device.mac \in Macs \cup {None}
        /\ device.ip # None \/ device.mac # None
    BY StateParts, KnownBySomething DEF Sound
  <1>2. /\ touched \in Device /\ Grows(device, touched)
        /\ touched.ip = FillIn(device.ip, ip) /\ touched.mac = FillIn(device.mac, mac)
    BY <1>1, TouchedGrows
  <1> HIDE DEF touched
  <1>3. /\ t \in State /\ t.sql = s.sql /\ t.cache = s.cache /\ t.clash = s.clash
        /\ t.mem.protocols = s.mem.protocols /\ t.mem.flows = s.mem.flows
        /\ t.mem.devices = [s.mem.devices EXCEPT ![d] = touched]
        /\ Len(t.mem.devices) = Len(s.mem.devices)
        /\ Ids(t) = Ids(s)
        /\ \A e \in Ids(s) : t.mem.devices[e] = IF e = d THEN touched ELSE s.mem.devices[e]
    BY <1>1, <1>2, PutParts
  <1> HIDE DEF t
  <1>4. \A e \in Ids(s) : /\ s.mem.devices[e].ip \in {None, t.mem.devices[e].ip}
                          /\ s.mem.devices[e].mac \in {None, t.mem.devices[e].mac}
    BY <1>2, <1>3 DEF Grows
  <1>5. RowsRefer(t) /\ KeysFound(t) /\ Seen(t)
    <2>1. Seen(t)
      BY <1>3, <1>4, SeenStays DEF Sound
    <2> QED
      BY <1>3, <2>1 DEF Sound, RowsRefer, KeysFound
  <1>6. SqlLags(t)
    BY <1>3, <1>4 DEF Sound, SqlLags
  <1>7. Classified(t)
    <2> SUFFICES ASSUME NEW row \in s.mem.protocols, IsOt(row[2])
                 PROVE  t.mem.devices[row[1]].score >= 6
      BY <1>3 DEF Classified
    <2>1. row[1] \in Ids(s) /\ s.mem.devices[row[1]].score >= 6
      BY DEF Sound, RowsRefer, Classified
    <2>2. /\ s.mem.devices[row[1]].score \in Nat /\ touched.score \in Nat
          /\ device.score <= touched.score
      <3>1. s.mem.devices[row[1]] \in Device
        BY <2>1, <1>1, StateParts
      <3> QED
        BY <1>1, <1>2, <3>1 DEF Grows, Device
    <2>3. t.mem.devices[row[1]].score = IF row[1] = d THEN touched.score
                                        ELSE s.mem.devices[row[1]].score
      BY <1>3, <2>1
    <2> QED
      BY <2>1, <2>2, <2>3
  <1>8. RowsApart(t)
    <2> SUFFICES ASSUME s.cache.on, NEW e \in Ids(s), NEW f \in Ids(s), e # f
                 PROVE  /\ t.mem.devices[e].ip = t.mem.devices[f].ip => t.mem.devices[e].ip = None
                        /\ t.mem.devices[e].mac = t.mem.devices[f].mac /\ t.mem.devices[e].mac # None
                               => t.mem.devices[e].ip # None \/ t.mem.devices[f].ip # None
      BY <1>3 DEF RowsApart
    <2>1. /\ s.mem.devices[e].ip = s.mem.devices[f].ip => s.mem.devices[e].ip = None
          /\ s.mem.devices[e].mac = s.mem.devices[f].mac /\ s.mem.devices[e].mac # None
                 => s.mem.devices[e].ip # None \/ s.mem.devices[f].ip # None
      BY DEF Sound, RowsApart
    <2>2. touched.ip = None => device.ip = None /\ touched.mac = device.mac
      BY <1>1, <1>2 DEF FillIn
    <2>3. touched.ip # None => \A x \in Ids(s) \ {d} : s.mem.devices[x].ip # touched.ip
      BY <1>1, <1>2 DEF FillIn, Sound, RowsApart
    <2>4. CASE e # d /\ f # d
      BY <1>3, <2>1, <2>4
    <2>5. CASE e = d
      <3>1. t.mem.devices[e] = touched /\ t.mem.devices[f] = s.mem.devices[f] /\ f # d
        BY <1>3, <2>5
      <3> QED
        BY <2>1, <2>2, <2>3, <2>5, <3>1
    <2>6. CASE f = d
      <3>1. t.mem.devices[f] = touched /\ t.mem.devices[e] = s.mem.devices[e] /\ e # d
        BY <1>3, <2>6
      <3> QED
        BY <2>1, <2>2, <2>3, <2>6, <3>1
    <2> QED
      BY <2>4, <2>5, <2>6
  <1>9. /\ \A x \in Ips : t.cache.by_ip[x] # 0 =>
              /\ t.cache.on /\ t.cache.by_ip[x] \in Ids(t)
              /\ t.mem.devices[t.cache.by_ip[x]].ip = x
        /\ \A x \in Macs : t.cache.by_mac[x] # 0 =>
              /\ t.cache.on /\ t.cache.by_mac[x] \in Ids(t)
              /\ t.mem.devices[t.cache.by_mac[x]].mac = x
              /\ t.mem.devices[t.cache.by_mac[x]].ip = None \/ t.cache.by_mac[x] = d
    <2>1. CacheHolds(s) /\ t.cache = s.cache
      BY <1>3 DEF Sound
    <2>2. \A e \in Ids(s) : e # d => t.mem.devices[e].ip = s.mem.devices[e].ip
      BY <1>3
    <2>3. \A x \in Ips : x # None
      BY NoneAssumption
    <2>4. \A x \in Macs : x # None
      BY NoneAssumption
    <2>5. ASSUME NEW x \in Ips, s.cache.by_ip[x] # 0
          PROVE  /\ s.cache.on /\ s.cache.by_ip[x] \in Ids(s)
                 /\ t.mem.devices[s.cache.by_ip[x]].ip = x
      BY <1>4, <2>1, <2>3, <2>5 DEF CacheHolds
    <2>6. ASSUME NEW x \in Macs, s.cache.by_mac[x] # 0
          PROVE  /\ s.cache.on /\ s.cache.by_mac[x] \in Ids(s)
                 /\ t.mem.devices[s.cache.by_mac[x]].mac = x
                 /\ t.mem.devices[s.cache.by_mac[x]].ip = None \/ s.cache.by_mac[x] = d
      BY <1>4, <2>1, <2>2, <2>4, <2>6 DEF CacheHolds
    <2> QED
      BY <1>3, <2>1, <2>5, <2>6
  <1>10. t.cache.on => \A e \in Ids(t) \ {d} :
            t.mem.devices[e].ip # t.sql.devices[e].ip => t.cache.by_ip[t.mem.devices[e].ip] = e
    BY <1>3 DEF Sound, CacheCovers
  <1>11. NearlySound(t, d)
    BY <1>3, <1>5, <1>6, <1>7, <1>8, <1>9, <1>10 DEF NearlySound
  <1>12. Kept(s, t)
    BY <1>2, <1>3, LeadsToItself, StateParts DEF Leads, Kept, Sound
  <1> QED
    BY <1>11, <1>12 DEF t, touched

\* A host is known by its address, or by its MAC.
KnownBy(device, ip, mac) ==
    \/ device.ip = ip /\ ip # None
    \/ device.mac = mac /\ mac # None

Host(s, d, ip, mac) == d \in Ids(s) /\ KnownBy(s.mem.devices[d], ip, mac)

LEMMA HostStays ==
    ASSUME NEW s, NEW t, s \in State, t \in State, Kept(s, t),
           NEW d, NEW ip, NEW mac, Host(s, d, ip, mac)
    PROVE  Host(t, d, ip, mac)
  <1>1. d \in Ids(s) /\ d \in Ids(t)
    BY StateParts DEF Host, Kept, Ids
  <1>2. Grows(s.mem.devices[d], t.mem.devices[d])
    BY <1>1 DEF Kept
  <1> QED
    BY <1>1, <1>2 DEF Host, KnownBy, Grows

LEMMA NewDeviceIsOne ==
    ASSUME NEW ip \in Ips \cup {None}, NEW mac \in Macs \cup {None}
    PROVE  /\ NewDevice(ip, mac) \in Device
           /\ NewDevice(ip, mac).ip = ip /\ NewDevice(ip, mac).mac = mac
  <1>1. LookupVendor(mac) \in DOMAIN Words \cup {None}
    BY WordsAssumption DEF LookupVendor
  <1> QED
    BY <1>1 DEF NewDevice, Device

\* A device is created for what no other one is known by.
LEMMA CreateLeads ==
    ASSUME NEW s, Sound(s),
           NEW ip \in Ips \cup {None}, NEW mac \in Macs \cup {None}, ip # None \/ mac # None,
           s.cache.on => /\ ip # None => \A e \in Ids(s) : s.mem.devices[e].ip # ip
                         /\ ip = None => \A e \in Ids(s) : \/ s.mem.devices[e].mac # mac
                                                           \/ s.mem.devices[e].ip # None
    PROVE  LET t == CreateDevice(s, ip, mac)
           IN  /\ NearlySound(t, Len(t.mem.devices)) /\ Kept(s, t)
               /\ KnownBy(t.mem.devices[Len(t.mem.devices)], ip, mac)
  <1> DEFINE new == NewDevice(ip, mac)
             devices == Append(s.mem.devices, new)
             t == CreateDevice(s, ip, mac)
             n == Len(s.mem.devices)
  <1>1. /\ s \in State /\ n \in Nat
        /\ new \in Device /\ new.ip = ip /\ new.mac = mac
    BY StateParts, NewDeviceIsOne DEF Sound
  <1> HIDE DEF new
  <1>2. /\ devices \in Seq(Device) /\ Len(devices) = n + 1
        /\ \A e \in 1 .. (n + 1) : devices[e] = IF e = n + 1 THEN new ELSE s.mem.devices[e]
    BY <1>1, StateParts
  <1> HIDE DEF devices
  <1>3. /\ t \in State
        /\ t.mem.devices = devices /\ t.sql = t.mem /\ t.cache = s.cache /\ t.clash = s.clash
        /\ t.mem.protocols = s.mem.protocols /\ t.mem.flows = s.mem.flows
    <2>1. t = [s EXCEPT !.mem = [s.mem EXCEPT !.devices = devices],
                        !.sql = [s.mem EXCEPT !.devices = devices]]
      BY <1>1 DEF CreateDevice, Flush, devices, new, State
    <2>2. [s.mem EXCEPT !.devices = devices] \in Stored
      BY <1>1, <1>2 DEF State, Stored
    <2> QED
      BY <1>1, <2>1, <2>2 DEF State, Stored
  <1> HIDE DEF t
  <1>4. /\ Ids(t) = 1 .. (n + 1) /\ Len(t.mem.devices) = n + 1 /\ Ids(s) = 1 .. n
        /\ \A e \in Ids(s) : e \in Ids(t) /\ t.mem.devices[e] = s.mem.devices[e]
        /\ t.mem.devices[n + 1] = new
        /\ \A e \in Ids(t) : e \in Ids(s) \/ e = n + 1
        /\ n + 1 \in Ids(t) /\ n + 1 \notin Ids(s)
    BY <1>1, <1>2, <1>3 DEF Ids
  <1> HIDE DEF n
  <1>5. RowsRefer(t) /\ KeysFound(t) /\ Seen(t)
    <2>1. RowsRefer(t)
      BY <1>3, <1>4 DEF Sound, RowsRefer
    <2>2. Seen(t)
      BY <1>3, <1>4, SeenStays DEF Sound
    <2> QED
      BY <1>3, <2>1, <2>2 DEF Sound, KeysFound
  <1>6. SqlLags(t)
    <2>1. \A e \in Ids(s) : s.mem.devices[e].ip # None \/ s.mem.devices[e].mac # None
      BY <1>1, KnownBySomething DEF Sound
    <2>2. \A e \in Ids(t) : t.mem.devices[e].ip # None \/ t.mem.devices[e].mac # None
      BY <1>1, <1>4, <2>1
    <2> QED
      BY <1>3, <2>2 DEF SqlLags
  <1>7. Classified(t)
    BY <1>3, <1>4 DEF Sound, RowsRefer, Classified
  <1>8. RowsApart(t)
    <2> SUFFICES ASSUME s.cache.on, NEW e \in Ids(t), NEW f \in Ids(t), e # f
                 PROVE  /\ t.mem.devices[e].ip = t.mem.devices[f].ip => t.mem.devices[e].ip = None
                        /\ t.mem.devices[e].mac = t.mem.devices[f].mac /\ t.mem.devices[e].mac # None
                               => t.mem.devices[e].ip # None \/ t.mem.devices[f].ip # None
      BY <1>3 DEF RowsApart
    <2>1. CASE e \in Ids(s) /\ f \in Ids(s)
      <3>1. t.mem.devices[e] = s.mem.devices[e] /\ t.mem.devices[f] = s.mem.devices[f]
        BY <1>4, <2>1
      <3>2. RowsApart(s)
        BY DEF Sound
      <3> QED
        BY <2>1, <3>1, <3>2 DEF RowsApart
    <2>2. CASE e = n + 1
      <3>1. f \in Ids(s) /\ t.mem.devices[e] = new /\ t.mem.devices[f] = s.mem.devices[f]
        BY <1>4, <2>2
      <3> QED
        BY <1>1, <3>1
    <2>3. CASE f = n + 1
      <3>1. e \in Ids(s) /\ t.mem.devices[f] = new /\ t.mem.devices[e] = s.mem.devices[e]
        BY <1>4, <2>3
      <3> QED
        BY <1>1, <3>1
    <2> QED
      BY <1>4, <2>1, <2>2, <2>3
  <1>9. CacheHolds(t)
    <2>1. CacheHolds(s)
      BY DEF Sound
    <2> QED
      BY <1>3, <1>4, <2>1 DEF CacheHolds
  <1>10. NearlySound(t, n + 1)
    <2>1. RowsRefer(t) /\ SqlLags(t) /\ RowsApart(t) /\ KeysFound(t) /\ Classified(t) /\ Seen(t)
      BY <1>5, <1>6, <1>7, <1>8
    <2>2. \A e \in Ids(t) : t.mem.devices[e].ip = t.sql.devices[e].ip
      BY <1>3
    <2>3. t \in State /\ n + 1 \in Ids(t)
      BY <1>3, <1>4
    <2> QED
      BY <1>9, <2>1, <2>2, <2>3 DEF NearlySound, CacheHolds
  <1>11. Kept(s, t)
    <2>1. n <= n + 1
      BY <1>1
    <2>2. \A e \in Ids(s) : Grows(s.mem.devices[e], t.mem.devices[e])
      BY <1>1, <1>4, StateParts, GrowsItself
    <2> QED
      BY <1>3, <1>4, <2>1, <2>2 DEF Kept, n
  <1>12. KnownBy(new, ip, mac)
    BY <1>1 DEF KnownBy
  <1> QED
    BY <1>4, <1>10, <1>11, <1>12 DEF t

\* get_or_create_device, from whatever is known of a host: a device that the
\* rows already have under its address is found, in the cache or by SELECT.
LEMMA GetOrCreateLeads ==
    ASSUME NEW s, Sound(s), NEW ip \in Ips \cup {None}, NEW mac \in Macs \cup {None}
    PROVE  LET g == GetOrCreate(s, ip, mac)
           IN  /\ Leads(s, g.s)
               /\ g.d = 0 <=> ip = None /\ mac = None
               /\ g.d # 0 => Host(g.s, g.d, ip, mac)
  <1> DEFINE found == FindDevice(s, ip, mac)
             byIp == IF ip # None THEN FindByIp(s, ip) ELSE 0
             g == GetOrCreate(s, ip, mac)
  <1>1. CASE ip = None /\ mac = None
    <2>1. g = [d |-> 0, s |-> s]
      BY <1>1 DEF GetOrCreate
    <2> QED
      BY <1>1, <2>1, LeadsToItself
  <1>2. CASE ip # None \/ mac # None
    <2>1. s \in State /\ Ids(s) \subseteq Nat \ {0} /\ Len(s.mem.devices) \in Nat
      BY StateParts DEF Sound
    <2>2. /\ byIp = 0 \/ (byIp \in Ids(s) /\ s.mem.devices[byIp].ip = ip /\ ip # None)
          /\ byIp = 0 /\ s.cache.on /\ ip # None => \A e \in Ids(s) : s.mem.devices[e].ip # ip
      BY FindByIpFinds
    <2>3. found = IF byIp = 0 /\ mac # None THEN FindByMac(s, mac) ELSE byIp
      BY DEF FindDevice
    <2> HIDE DEF byIp, found
    <2>4. /\ found = 0 \/ Host(s, found, ip, mac)
          /\ s.cache.on /\ found # 0 /\ s.mem.devices[found].ip = None /\ ip # None
                => \A e \in Ids(s) : s.mem.devices[e].ip # ip
          /\ s.cache.on /\ found = 0 /\ ip # None => \A e \in Ids(s) : s.mem.devices[e].ip # ip
          /\ found = 0 /\ mac # None => \A e \in Ids(s) : \/ s.mem.devices[e].mac # mac
                                                          \/ s.mem.devices[e].ip # None
      <3>1. CASE byIp = 0 /\ mac # None
        <4>1. mac \in Macs /\ found = FindByMac(s, mac)
          BY <2>3, <3>1
        <4>2. /\ found = 0 \/ (found \in Ids(s) /\ s.mem.devices[found].mac = mac)
              /\ found = 0 => \A e \in Ids(s) : \/ s.mem.devices[e].mac # mac
                                                \/ s.mem.devices[e].ip # None
          BY <4>1, FindByMacFinds
        <4> QED
          BY <2>2, <3>1, <4>2 DEF Host, KnownBy
      <3>2. CASE ~(byIp = 0 /\ mac # None)
        BY <2>2, <2>3, <3>2 DEF Host, KnownBy
      <3> QED
        BY <3>1, <3>2
    <2> DEFINE touched == IF found = 0 THEN CreateDevice(s, ip, mac)
                          ELSE Put(s, found, Touched(s.mem.devices[found], ip, mac))
               d == IF found = 0 THEN Len(touched.mem.devices) ELSE found
    <2>5. NearlySound(touched, d) /\ Kept(s, touched) /\ Host(touched, d, ip, mac)
      <3>1. CASE found = 0
        <4>1. NearlySound(touched, d) /\ Kept(s, touched) /\ KnownBy(touched.mem.devices[d], ip, mac)
          BY <1>2, <2>4, <3>1, CreateLeads
        <4> QED
          BY <4>1 DEF NearlySound, Host
      <3>2. CASE found # 0
        <4>1. found \in Ids(s) /\ Host(s, found, ip, mac) /\ d = found
          BY <2>4, <3>2 DEF Host
        <4>2. NearlySound(touched, d) /\ Kept(s, touched)
          BY <2>4, <3>2, <4>1, TouchLeads
        <4> HIDE DEF touched, d
        <4>3. touched \in State
          BY <4>2 DEF NearlySound
        <4>4. Host(touched, d, ip, mac)
          BY <2>1, <4>1, <4>2, <4>3, HostStays
        <4> QED
          BY <4>2, <4>4
      <3> QED
        BY <3>1, <3>2
    <2>6. g = [d |-> d, s |-> Remember(touched, d)]
      BY <1>2 DEF GetOrCreate, found
    <2> HIDE DEF touched, d
    <2>7. /\ Sound(Remember(touched, d))
          /\ Remember(touched, d).mem = touched.mem
          /\ Remember(touched, d).cache.on = touched.cache.on
      BY <2>5, RememberLeads
    <2>8. Leads(s, g.s)
      BY <2>5, <2>6, <2>7 DEF Leads, Kept
    <2>9. d \in Ids(touched) /\ Host(g.s, d, ip, mac) /\ 0 \notin Ids(touched)
      BY <2>5, <2>6, <2>7, StateParts DEF NearlySound, Host, Ids
    <2> QED
      BY <1>2, <2>6, <2>8, <2>9
  <1> QED
    BY <1>1, <1>2

-----------------------------------------------------------------------------
(***************************************************************************)
(* Services and conversations: a row that is there is found.               *)
(***************************************************************************)
\* An upsert of a key that is found if it is there inserts it once.
LEMMA UpsertProtocolsParts ==
    ASSUME NEW s, Sound(s), NEW key \in ProtocolRow, key[1] \in Ids(s)
    PROVE  LET u == Upsert(s, "protocols", key)
           IN  /\ u \in State /\ u.clash = FALSE /\ u.sql = s.sql
               /\ u.mem.devices = s.mem.devices /\ u.mem.flows = s.mem.flows
               /\ u.mem.protocols = s.mem.protocols \cup {key}
               /\ u.cache.on = s.cache.on /\ u.cache.flows = s.cache.flows
               /\ u.cache.by_ip = s.cache.by_ip /\ u.cache.by_mac = s.cache.by_mac
               /\ u.cache.protocols = IF s.cache.on THEN s.cache.protocols \cup {key}
                                      ELSE s.cache.protocols
  <1> DEFINE u == Upsert(s, "protocols", key)
             cached == IF s.cache.on THEN s.cache.protocols \cup {key} ELSE s.cache.protocols
             clash == s.clash \/ (key \in s.mem.protocols /\ ~IsKnown(s, "protocols", key))
  <1>1. s \in State /\ s.mem \in Stored /\ s.cache \in Cached
    BY StateParts DEF Sound
  <1>2. ~clash
    BY DEF Sound, KeysFound, IsKnown
  <1>3. clash = FALSE
    <2> HIDE DEF clash
    <2>1. clash \in BOOLEAN
      BY Zenon DEF clash
    <2> QED
      BY <1>2, <2>1
  <1> DEFINE mem == [s.mem EXCEPT !.protocols = s.mem.protocols \cup {key}]
             cache == [s.cache EXCEPT !.protocols = cached]
  <1>4. u = [s EXCEPT !.mem = mem, !.cache = cache, !.clash = clash]
    BY DEF Upsert
  <1> HIDE DEF clash
  <1>5. s.mem.protocols \cup {key} \in SUBSET ProtocolRow /\ cached \in SUBSET ProtocolRow
    BY <1>1 DEF Stored, Cached
  <1> HIDE DEF cached
  <1>6. /\ mem \in Stored /\ mem.devices = s.mem.devices /\ mem.flows = s.mem.flows
        /\ mem.protocols = s.mem.protocols \cup {key}
    BY <1>1, <1>5 DEF Stored
  <1>7. /\ cache \in Cached /\ cache.on = s.cache.on /\ cache.flows = s.cache.flows
        /\ cache.by_ip = s.cache.by_ip /\ cache.by_mac = s.cache.by_mac
        /\ cache.protocols = cached
    BY <1>1, <1>5 DEF Cached
  <1> HIDE DEF mem, cache
  <1>8. u \in State /\ u.clash = FALSE /\ u.sql = s.sql /\ u.mem = mem /\ u.cache = cache
    BY <1>1, <1>3, <1>4, <1>6, <1>7 DEF State
  <1> HIDE DEF u
  <1>9. /\ u \in State /\ u.clash = FALSE /\ u.sql = s.sql
        /\ u.mem.devices = s.mem.devices /\ u.mem.flows = s.mem.flows
        /\ u.mem.protocols = s.mem.protocols \cup {key}
        /\ u.cache.on = s.cache.on /\ u.cache.flows = s.cache.flows
        /\ u.cache.by_ip = s.cache.by_ip /\ u.cache.by_mac = s.cache.by_mac
        /\ u.cache.protocols = cached
    BY <1>6, <1>7, <1>8
  <1> QED
    BY <1>9 DEF u, cached

\* upsert_protocol, the flush and the classification after it.
LEMMA ServiceLeads ==
    ASSUME NEW s, Sound(s), NEW d \in Ids(s), NEW protocol \in Nat,
           NEW port \in Nat \cup {None}, Witnessed(s.mem.devices[d], port)
    PROVE  LET t == ApplyTypeGuess(UpsertProtocol(s, d, protocol, port), d)
           IN  Leads(s, t) /\ (~s.cache.on => t.mem.flows \subseteq t.sql.flows)
  <1> DEFINE key == <<d, protocol, port>>
             u == Upsert(s, "protocols", key)
             t == UpsertProtocol(s, d, protocol, port)
             device == Guessed(t, d, t.mem.devices[d])
             r == Put(t, d, device)
  <1>1. s \in State /\ key \in ProtocolRow /\ key[1] = d /\ key[2] = protocol /\ key[3] = port
    BY StateParts DEF Sound, ProtocolRow, Ids
  <1>2. /\ u \in State /\ u.clash = FALSE /\ u.sql = s.sql
        /\ u.mem.devices = s.mem.devices /\ u.mem.flows = s.mem.flows
        /\ u.mem.protocols = s.mem.protocols \cup {key}
        /\ u.cache.on = s.cache.on /\ u.cache.flows = s.cache.flows
        /\ u.cache.by_ip = s.cache.by_ip /\ u.cache.by_mac = s.cache.by_mac
        /\ u.cache.protocols = IF s.cache.on THEN s.cache.protocols \cup {key}
                               ELSE s.cache.protocols
    <2> HIDE DEF key
    <2> QED
      BY <1>1, UpsertProtocolsParts
  <1> HIDE DEF u, key
  <1>3. CASE s.cache.on /\ IsKnown(s, "protocols", key)
    <2>1. t = u
      BY <1>3 DEF UpsertProtocol, u, key
    <2>2. key \in s.mem.protocols
      BY <1>3 DEF IsKnown, Sound, RowsRefer
    <2>3. u.mem.protocols = s.mem.protocols /\ Ids(u) = Ids(s)
      BY <1>2, <2>2 DEF Ids
    <2>4. RowsRefer(u) /\ SqlLags(u) /\ RowsApart(u) /\ KeysFound(u) /\ Classified(u) /\ Seen(u)
      <3>1. RowsRefer(u)
        BY <1>2, <2>2, <2>3 DEF Sound, RowsRefer
      <3>2. SqlLags(u) /\ RowsApart(u)
        <4>1. SqlLags(u)
          BY <1>2, <2>3 DEF Sound, SqlLags
        <4>2. RowsApart(u)
          BY <1>2 DEF Sound, RowsApart, Ids
        <4> QED
          BY <4>1, <4>2
      <3>3. KeysFound(u)
        BY <1>2, <1>3, <2>3 DEF Sound, KeysFound
      <3>4. Classified(u) /\ Seen(u)
        BY <1>2, <2>3 DEF Sound, Classified, Seen
      <3> QED
        BY <3>1, <3>2, <3>3, <3>4
    <2>5. CacheHolds(u) /\ CacheCovers(u)
      BY <1>2, <2>3 DEF Sound, CacheHolds, CacheCovers
    <2>6. Sound(u) /\ Kept(s, u)
      <3>1. Kept(s, s)
        BY LeadsToItself DEF Leads
      <3> QED
        BY <1>2, <2>4, <2>5, <3>1 DEF Sound, Kept
    <2>7. Leads(u, ApplyTypeGuess(u, d))
      BY <2>3, <2>6, TypeGuessLeads
    <2>8. Leads(s, ApplyTypeGuess(u, d))
      BY <1>1, <1>2, <2>6, <2>7, LeadsIsTransitive DEF Leads, Sound
    <2> QED
      BY <1>3, <2>1, <2>8
  <1>4. CASE ~(s.cache.on /\ IsKnown(s, "protocols", key))
    <2>1. t = Flush(u)
      BY <1>4 DEF UpsertProtocol, u, key
    <2>2. t \in State /\ t.mem = u.mem /\ t.sql = u.mem /\ t.cache = u.cache /\ t.clash = u.clash
      BY <1>2, <2>1 DEF Flush, State
    <2> HIDE DEF t
    <2>3. Ids(t) = Ids(s)
      BY <1>2, <2>2 DEF Ids
    <2>4. Consistent(t)
      <3>1. RowsRefer(t)
        BY <1>1, <1>2, <2>2, <2>3 DEF Sound, RowsRefer
      <3>2. SqlLags(t)
        <4>1. \A e \in Ids(s) : s.mem.devices[e].ip # None \/ s.mem.devices[e].mac # None
          BY <1>1, KnownBySomething DEF Sound
        <4> QED
          BY <1>2, <2>2, <2>3, <4>1 DEF SqlLags
      <3>3. CacheHolds(t)
        BY <1>2, <2>2, <2>3 DEF Sound, CacheHolds
      <3>4. CacheCovers(t) /\ RowsApart(t)
        BY <1>2, <2>2, <2>3 DEF Sound, CacheCovers, RowsApart
      <3>5. KeysFound(t)
        BY <1>2, <2>2 DEF KeysFound
      <3>6. Seen(t)
        BY <1>1, <1>2, <2>2 DEF Sound, Seen
      <3> QED
        BY <2>2, <3>1, <3>2, <3>3, <3>4, <3>5, <3>6 DEF Consistent
    <2>5. ApplyTypeGuess(t, d) = r
      BY DEF ApplyTypeGuess
    <2>6. t.mem.devices[d] \in Device
      BY <2>2, <2>3, StateParts
    <2>7. /\ Regrades(t.mem.devices[d], device)
          /\ ServesOt(t, d) => device.score >= 6
      BY <2>6, GuessedRegrades
    <2> HIDE DEF device
    <2>8. /\ r \in State /\ r.sql = t.sql /\ r.cache = t.cache /\ r.clash = t.clash
          /\ r.mem.protocols = t.mem.protocols /\ r.mem.flows = t.mem.flows
          /\ r.mem.devices = [t.mem.devices EXCEPT ![d] = device]
          /\ Len(r.mem.devices) = Len(t.mem.devices)
          /\ Ids(r) = Ids(t)
          /\ \A e \in Ids(t) : r.mem.devices[e] = IF e = d THEN device ELSE t.mem.devices[e]
      BY <2>2, <2>3, <2>7, PutParts DEF Regrades
    <2> HIDE DEF r
    <2>9. Regraded(t, r)
      <3>1. \A e \in Ids(t) : Regrades(t.mem.devices[e], r.mem.devices[e])
        BY <2>2, <2>7, <2>8, StateParts, GrowsItself
      <3> QED
        BY <2>8, <3>1 DEF Regraded
    <2>10. /\ Consistent(r) /\ Kept(t, r)
           /\ \A row \in t.mem.protocols :
                 t.mem.devices[row[1]].score >= 6 => r.mem.devices[row[1]].score >= 6
      BY <2>4, <2>9, RegradedIsConsistent
    <2>11. Classified(r)
      <3> SUFFICES ASSUME NEW row \in t.mem.protocols, IsOt(row[2])
                   PROVE  r.mem.devices[row[1]].score >= 6
        BY <2>8 DEF Classified
      <3>1. CASE row = key
        <4>1. ServesOt(t, d)
          BY <1>1, <2>2, <3>1 DEF ServesOt
        <4> QED
          BY <1>1, <2>3, <2>7, <2>8, <3>1, <4>1
      <3>2. CASE row \in s.mem.protocols
        <4>1. t.mem.devices[row[1]].score >= 6
          BY <1>2, <2>2, <3>2 DEF Sound, Classified
        <4> QED
          BY <2>10, <4>1
      <3> QED
        BY <1>2, <2>2, <3>1, <3>2
    <2>12. Kept(s, t)
      <3>1. Kept(s, s)
        BY LeadsToItself DEF Leads
      <3> QED
        BY <1>2, <2>2, <3>1 DEF Kept
    <2>13. Leads(t, r) /\ Sound(r)
      BY <2>10, <2>11 DEF Leads, Sound, Consistent
    <2>14. Leads(s, r)
      BY <1>1, <2>2, <2>8, <2>12, <2>13, LeadsIsTransitive
    <2> QED
      BY <2>2, <2>5, <2>8, <2>14 DEF t
  <1> QED
    BY <1>3, <1>4

\* upsert_flow: without a cache it needs the flows flushed.
LEMMA FlowLeads ==
    ASSUME NEW s, Sound(s), NEW d \in Ids(s), NEW e \in Ids(s),
           NEW transport \in {"tcp", "udp"}, NEW port \in Nat,
           s.cache.on \/ s.mem.flows \subseteq s.sql.flows
    PROVE  Leads(s, UpsertFlow(s, d, e, transport, port))
  <1> DEFINE key == IF d <= e THEN <<d, e, transport, port>> ELSE <<e, d, transport, port>>
             u == Upsert(s, "flows", key)
             cached == IF s.cache.on THEN s.cache.flows \cup {key} ELSE s.cache.flows
             clash == s.clash \/ (key \in s.mem.flows /\ ~IsKnown(s, "flows", key))
  <1>1. /\ s \in State /\ s.mem \in Stored /\ s.cache \in Cached
        /\ key \in FlowRow /\ key[1] \in Ids(s) /\ key[2] \in Ids(s) /\ key[4] = port
    BY StateParts DEF Sound, FlowRow, Ids
  <1>2. u = UpsertFlow(s, d, e, transport, port)
    BY DEF UpsertFlow
  <1> HIDE DEF key
  <1>3. clash = FALSE
    <2>1. ~clash
      BY DEF Sound, KeysFound, IsKnown
    <2> HIDE DEF clash
    <2>2. clash \in BOOLEAN
      BY Zenon DEF clash
    <2> QED
      BY <2>1, <2>2
  <1> DEFINE mem == [s.mem EXCEPT !.flows = s.mem.flows \cup {key}]
             cache == [s.cache EXCEPT !.flows = cached]
  <1>4. u = [s EXCEPT !.mem = mem, !.cache = cache, !.clash = clash]
    BY DEF Upsert
  <1> HIDE DEF clash
  <1>5. s.mem.flows \cup {key} \in SUBSET FlowRow /\ cached \in SUBSET FlowRow
    BY <1>1 DEF Stored, Cached
  <1> HIDE DEF cached
  <1>6. /\ mem \in Stored /\ mem.devices = s.mem.devices /\ mem.protocols = s.mem.protocols
        /\ mem.flows = s.mem.flows \cup {key}
    BY <1>1, <1>5 DEF Stored
  <1>7. /\ cache \in Cached /\ cache.on = s.cache.on /\ cache.protocols = s.cache.protocols
        /\ cache.by_ip = s.cache.by_ip /\ cache.by_mac = s.cache.by_mac
        /\ cache.flows = cached
    BY <1>1, <1>5 DEF Cached
  <1> HIDE DEF mem, cache
  <1>8. u \in State /\ u.clash = FALSE /\ u.sql = s.sql /\ u.mem = mem /\ u.cache = cache
    BY <1>1, <1>3, <1>4, <1>6, <1>7 DEF State
  <1> HIDE DEF u
  <1>9. Ids(u) = Ids(s)
    BY <1>6, <1>8 DEF Ids
  <1>10. RowsRefer(u)
    BY <1>1, <1>6, <1>7, <1>8, <1>9 DEF Sound, RowsRefer, cached
  <1>11. SqlLags(u) /\ RowsApart(u) /\ CacheHolds(u) /\ CacheCovers(u)
    <2>1. SqlLags(u) /\ RowsApart(u)
      BY <1>6, <1>7, <1>8, <1>9 DEF Sound, SqlLags, RowsApart
    <2>2. CacheHolds(u) /\ CacheCovers(u)
      BY <1>6, <1>7, <1>8, <1>9 DEF Sound, CacheHolds, CacheCovers
    <2> QED
      BY <2>1, <2>2
  <1>12. KeysFound(u) /\ Classified(u) /\ Seen(u)
    <2>1. KeysFound(u)
      BY <1>6, <1>7, <1>8 DEF Sound, KeysFound, cached
    <2>2. Classified(u) /\ Seen(u)
      BY <1>6, <1>8 DEF Sound, Classified, Seen
    <2> QED
      BY <2>1, <2>2
  <1>13. Kept(s, u)
    <2>1. Kept(s, s)
      BY LeadsToItself DEF Leads
    <2> QED
      BY <1>6, <1>7, <1>8, <2>1 DEF Kept
  <1>14. Leads(s, u)
    BY <1>8, <1>10, <1>11, <1>12, <1>13 DEF Leads, Sound
  <1> QED
    BY <1>2, <1>14

-----------------------------------------------------------------------------
(***************************************************************************)
(* Records: what ProcessPacket makes of a frame is one of four kinds, and  *)
(* the end of a conversation that is picked may be the server's.           *)
(***************************************************************************)
ArpRecord == [transport : {"arp"}, mac : Macs \cup {None}, src : Ips \cup {None}]

CdpLldpRecord == [transport : {"cdp", "lldp"}, mac : Macs \cup {None}, l2_name : Names \cup {None}]

ProfinetRecord == [transport : {"profinet"}, mac : Macs \cup {None},
                   l2_name : Names \cup {None}, l2_protocol : Nat]

IpRecords == [transport : {"tcp", "udp", "icmp"}, mac : Macs \cup {None},
              src : Ips \cup {None}, dst : Ips \cup {None}, sport : Nat, dport : Nat,
              is_syn : BOOLEAN, is_syn_ack : BOOLEAN, syn : Syn,
              payload : DOMAIN PayloadProtocol \cup {"other"},
              hostname_hints : Seq(HostnameHint \cup {None}),
              identity_hints : Seq(IdentityHint)]

LEMMA ProtocolIsNumber ==
    /\ \A port \in Nat : DetectByPort(port) \in Nat
    /\ \A port \in Nat : DetectByPort(port) # Unknown <=> port \in OtPorts \cup ItPorts
    /\ \A port \in Nat : \A payload : DetectProtocol(port, payload) \in Nat
    /\ \A id : PnioProtocol(id) \in Nat
  <1> DEFINE Ports == OtPorts \cup ItPorts
  <1>1. 68 \in Ports /\ 4911 \in Ports /\ 0 \notin Ports
    BY DEF OtPorts, ItPorts
  <1>2. ASSUME NEW port \in Nat
        PROVE  DetectByPort(port) \in Nat /\ (DetectByPort(port) # Unknown <=> port \in Ports)
    <2> HIDE DEF Ports
    <2>1. DetectByPort(port) =
             CASE port = 68 -> 67
               [] port = 4911 -> 1911
               [] port \in Ports \ {68, 4911} -> port
               [] port \notin Ports -> 0
      BY DEF DetectByPort, Unknown, Ports
    <2>2. CASE port = 68
      BY <1>1, <2>1, <2>2 DEF Unknown
    <2>3. CASE port = 4911
      BY <1>1, <2>1, <2>3 DEF Unknown
    <2>4. CASE port \in Ports \ {68, 4911}
      BY <1>1, <2>1, <2>4 DEF Unknown
    <2>5. CASE port \notin Ports
      BY <1>1, <2>1, <2>5 DEF Unknown
    <2> QED
      BY <2>2, <2>3, <2>4, <2>5
  <1>3. \A payload \in DOMAIN PayloadProtocol : PayloadProtocol[payload] \in Nat
    BY DEF PayloadProtocol, Tls
  <1>4. \A id : PnioProtocol(id) \in Nat
    BY DEF PnioProtocol, PnDcp, PnAlarm, PnioPs, ProfinetOther
  <1> QED
    BY <1>2, <1>3, <1>4 DEF DetectProtocol

LEMMA TransportIsOne ==
    ASSUME NEW f, Transport(f) # "none"
    PROVE  Transport(f) \in {"tcp", "udp", "icmp"}
  <1> DEFINE words == f.layers \cap {"tcp", "udp", "icmp"}
             order == <<"tcp", "udp", "icmp">>
             Is(i) == order[i] \in words /\ \A j \in 1 .. (i - 1) : order[j] \notin words
             first == CHOOSE i \in DOMAIN order : Is(i)
  <1>1. words # {} /\ Transport(f) = order[first]
    BY DEF Transport, FirstIn
  <1>2. DOMAIN order = 1 .. 3 /\ order[1] = "tcp" /\ order[2] = "udp" /\ order[3] = "icmp"
    OBVIOUS
  <1>3. Is(1) \/ Is(2) \/ Is(3)
    <2>1. "tcp" \in words \/ "udp" \in words \/ "icmp" \in words
      BY <1>1
    <2> HIDE DEF words
    <2>2. \A j \in 1 .. 0 : FALSE
      OBVIOUS
    <2>3. \A j \in 1 .. 1 : j = 1
      OBVIOUS
    <2>4. \A j \in 1 .. 2 : j = 1 \/ j = 2
      OBVIOUS
    <2> QED
      BY <1>2, <2>1, <2>2, <2>3, <2>4
  <1>4. first \in 1 .. 3
    <2>1. \E i \in DOMAIN order : Is(i)
      BY <1>2, <1>3
    <2> HIDE DEF Is
    <2> QED
      BY <1>2, <2>1
  <1> HIDE DEF first, order
  <1>5. first = 1 \/ first = 2 \/ first = 3
    BY <1>4
  <1> QED
    BY <1>1, <1>2, <1>5

LEMMA HintsAreTyped ==
    ASSUME NEW f \in Frame
    PROVE  /\ HostnameHints(f) \in Seq(HostnameHint \cup {None})
           /\ IdentityHints(f) \in Seq(IdentityHint)
           /\ \A hints \in Seq(IdentityHint) : Claims(f, hints) \in Seq(HostnameHint \cup {None})
  <1>1. f.names \in Seq(HostName) /\ f.src \in Ips \cup {None} /\ f.identity \in Identity
    BY DEF Frame
  <1>2. HostnameHints(f) \in Seq(HostnameHint \cup {None})
    <2> DEFINE n == Len(f.names)
               hints == HostnameHints(f)
    <2>1. n \in Nat /\ \A i \in 1 .. n : f.names[i] \in HostName
      BY <1>1
    <2>2. \A i \in 1 .. n : f.names[i].ip \in Ips \cup {None} /\ f.names[i].name \in Names
      BY <2>1 DEF HostName
    <2>3. hints = [i \in 1 .. n |->
                      IF ~IsHint(f, f.names[i]) THEN None
                      ELSE [ip |-> IF f.names[i].source = "dns" THEN f.names[i].ip ELSE f.src,
                            name |-> f.names[i].name]]
      BY DEF HostnameHints
    <2> HIDE DEF n
    <2>4. \A i \in 1 .. n : hints[i] \in HostnameHint \cup {None}
      BY <1>1, <2>2, <2>3 DEF HostnameHint
    <2>5. hints \in [1 .. n -> HostnameHint \cup {None}]
      BY <2>3, <2>4
    <2> HIDE DEF hints
    <2>6. hints \in Seq(HostnameHint \cup {None})
      BY <2>1, <2>5
    <2> QED
      BY <2>6 DEF hints
  <1>3. IdentityHints(f) \in Seq(IdentityHint)
    <2>1. /\ f.identity.vendor \in DOMAIN Words \cup {None}
          /\ f.identity.name \in Names \cup {None} /\ f.identity.type \in Types \cup {None}
      BY <1>1 DEF Identity
    <2> DEFINE hint == [vendor |-> IF "vendor" \in Gives(f) THEN f.identity.vendor ELSE None,
                        name |-> IF "name" \in Gives(f) THEN f.identity.name ELSE None,
                        type |-> IF "type" \in Gives(f) THEN f.identity.type ELSE None]
    <2>2. hint \in IdentityHint
      BY <2>1 DEF IdentityHint
    <2>3. IdentityHints(f) = IF Gives(f) = {} THEN <<>> ELSE <<hint>>
      BY DEF IdentityHints
    <2> HIDE DEF hint
    <2> QED
      BY <2>2, <2>3
  <1>4. ASSUME NEW hints \in Seq(IdentityHint)
        PROVE  Claims(f, hints) \in Seq(HostnameHint \cup {None})
    <2> DEFINE n == Len(hints)
               claims == Claims(f, hints)
    <2>1. n \in Nat /\ \A i \in 1 .. n : hints[i] \in IdentityHint
      OBVIOUS
    <2>2. \A i \in 1 .. n : hints[i].name \in Names \cup {None}
      BY <2>1 DEF IdentityHint
    <2>3. claims = [i \in 1 .. n |->
                       IF hints[i].name = None \/ f.src = None THEN None
                       ELSE [ip |-> f.src, name |-> hints[i].name]]
      BY DEF Claims
    <2> HIDE DEF n
    <2>4. \A i \in 1 .. n : claims[i] \in HostnameHint \cup {None}
      BY <1>1, <2>2, <2>3 DEF HostnameHint
    <2>5. claims \in [1 .. n -> HostnameHint \cup {None}]
      BY <2>3, <2>4
    <2> HIDE DEF claims
    <2>6. claims \in Seq(HostnameHint \cup {None})
      BY <2>1, <2>5
    <2> QED
      BY <2>6 DEF claims
  <1> QED
    BY <1>2, <1>3, <1>4

LEMMA IpRecordIsTyped ==
    ASSUME NEW f \in Frame, Transport(f) # "none"
    PROVE  IpRecord(f) \in IpRecords
  <1> DEFINE hints == IF Transport(f) = "icmp" THEN <<>> ELSE IdentityHints(f)
             names == IF Transport(f) = "icmp" THEN <<>> ELSE HostnameHints(f)
             is_syn == Transport(f) = "tcp" /\ "S" \in f.flags /\ "A" \notin f.flags
             is_syn_ack == Transport(f) = "tcp" /\ {"S", "A"} \subseteq f.flags
             all == names \o Claims(f, hints)
  <1>1. hints \in Seq(IdentityHint) /\ names \in Seq(HostnameHint \cup {None})
    BY HintsAreTyped
  <1> HIDE DEF hints, names
  <1>2. all \in Seq(HostnameHint \cup {None})
    BY <1>1, HintsAreTyped
  <1>3. Transport(f) \in {"tcp", "udp", "icmp"}
    BY TransportIsOne
  <1>4. is_syn \in BOOLEAN /\ is_syn_ack \in BOOLEAN
    BY Zenon
  <1>5. /\ f.mac \in Macs \cup {None} /\ f.src \in Ips \cup {None} /\ f.dst \in Ips \cup {None}
        /\ f.sport \in Nat /\ f.dport \in Nat /\ f.syn \in Syn
        /\ f.payload \in DOMAIN PayloadProtocol \cup {"other"}
    BY DEF Frame
  <1>6. IpRecord(f) =
           [transport |-> Transport(f), mac |-> f.mac, src |-> f.src, dst |-> f.dst,
            sport |-> f.sport, dport |-> f.dport, is_syn |-> is_syn, is_syn_ack |-> is_syn_ack,
            syn |-> f.syn, payload |-> f.payload, hostname_hints |-> all, identity_hints |-> hints]
    BY Zenon DEF IpRecord, hints, names
  <1> HIDE DEF is_syn, is_syn_ack, all
  <1> QED
    BY <1>1, <1>2, <1>3, <1>4, <1>5, <1>6 DEF IpRecords

LEMMA RecordsAreTyped ==
    ASSUME NEW n \in Networks, NEW r \in Records[n]
    PROVE  r \in ArpRecord \cup CdpLldpRecord \cup ProfinetRecord \cup IpRecords
  <1>1. Records[n] = {ProcessPacket(f) : f \in Frames[n]} \ {None}
    BY DEF Records
  <1>2. PICK f \in Frames[n] : r = ProcessPacket(f)
    BY <1>1
  <1>3. r # None
    BY <1>1
  <1>4. f \in Frame
    BY FramesAssumption
  <1>5. /\ f.mac \in Macs \cup {None} /\ f.src \in Ips \cup {None}
        /\ f.l2_name \in Names \cup {None}
    BY <1>4 DEF Frame
  <1>6. CASE ReadBy(f) \in {"cdp", "lldp"}
    <2>1. r = [transport |-> ReadBy(f), mac |-> f.mac, l2_name |-> f.l2_name]
      BY <1>2, <1>6 DEF ProcessPacket
    <2> QED
      BY <1>5, <1>6, <2>1 DEF CdpLldpRecord
  <1>7. CASE ReadBy(f) = "profinet"
    <2>1. r = [transport |-> "profinet", mac |-> f.mac,
               l2_name |-> IF "dcp" \in f.layers THEN f.l2_name ELSE None,
               l2_protocol |-> PnioProtocol(f.frame_id)]
      BY <1>2, <1>7 DEF ProcessPacket
    <2> QED
      BY <1>5, <2>1, ProtocolIsNumber DEF ProfinetRecord
  <1>8. CASE ReadBy(f) = "arp"
    <2>1. r = [transport |-> "arp", mac |-> f.mac, src |-> f.src]
      BY <1>2, <1>8 DEF ProcessPacket
    <2> QED
      BY <1>5, <2>1 DEF ArpRecord
  <1>9. CASE ReadBy(f) = "ip" /\ Transport(f) # "none"
    <2>1. r = IpRecord(f)
      BY <1>2, <1>9 DEF ProcessPacket
    <2> QED
      BY <1>4, <1>9, <2>1, IpRecordIsTyped
  <1>10. CASE ~(\/ ReadBy(f) \in {"cdp", "lldp"} \/ ReadBy(f) = "profinet" \/ ReadBy(f) = "arp"
                \/ (ReadBy(f) = "ip" /\ Transport(f) # "none"))
    BY <1>2, <1>3, <1>10 DEF ProcessPacket
  <1> QED
    BY <1>6, <1>7, <1>8, <1>9, <1>10

-----------------------------------------------------------------------------
(***************************************************************************)
(* Handlers: each leads from one sound state to the next.                  *)
(***************************************************************************)
LEMMA LeadsOn ==
    ASSUME NEW s, NEW t, Sound(s), Leads(s, t)
    PROVE  /\ Sound(t) /\ Ids(s) \subseteq Ids(t) /\ t.cache.on = s.cache.on
           /\ \A u : Leads(t, u) => Leads(s, u)
           /\ \A d, ip, mac : Host(s, d, ip, mac) => Host(t, d, ip, mac)
  <1>1. Sound(t) /\ Kept(s, t) /\ s \in State /\ t \in State
    BY DEF Leads, Sound
  <1>2. Ids(s) \subseteq Ids(t)
    BY <1>1, StateParts DEF Kept, Ids
  <1>3. ASSUME NEW u, Leads(t, u)
        PROVE  Leads(s, u)
    <2>1. u \in State
      BY <1>3 DEF Leads, Sound
    <2> QED
      BY <1>1, <1>3, <2>1, LeadsIsTransitive
  <1>4. \A d, ip, mac : Host(s, d, ip, mac) => Host(t, d, ip, mac)
    BY <1>1, HostStays
  <1> QED
    BY <1>1, <1>2, <1>3, <1>4 DEF Kept

\* The side picked may be the server's, and the device on it is the one there.
LEMMA PickedIsSeen ==
    ASSUME NEW r \in IpRecords, r \in Conversing, NEW s, NEW src, NEW dst,
           Host(s, src, r.src, r.mac), Host(s, dst, r.dst, None)
    PROVE  LET side == PickServerSide(r)
           IN  Witnessed(s.mem.devices[IF side = "src" THEN src ELSE dst],
                         IF side = "src" THEN r.sport ELSE r.dport)
  <1> DEFINE side == PickServerSide(r)
             sender == s.mem.devices[src]
             receiver == s.mem.devices[dst]
             likely == LikelyServer(r)
             src_known == DetectByPort(r.sport) # Unknown
             dst_known == DetectByPort(r.dport) # Unknown
  <1>1. /\ r.sport \in Nat /\ r.dport \in Nat
        /\ IsSender(r, sender) /\ receiver.ip = r.dst /\ r.dst # None
    BY DEF IpRecords, Host, KnownBy, IsSender
  <1>2. side = IF r.is_syn THEN "dst" ELSE IF r.is_syn_ack THEN "src" ELSE likely
    BY DEF PickServerSide
  <1>3. likely = IF src_known /\ ~dst_known THEN "src"
                 ELSE IF dst_known /\ ~src_known THEN "dst"
                 ELSE IF r.sport < r.dport THEN "src" ELSE "dst"
    BY DEF LikelyServer
  <1>4. /\ MayServe(r.sport, r.dport) <=> src_known \/ r.sport <= r.dport
        /\ MayServe(r.dport, r.sport) <=> dst_known \/ r.dport <= r.sport
    BY DEF MayServe
  <1> HIDE DEF side, likely, src_known, dst_known, sender, receiver
  <1>5. /\ likely = "src" => MayServe(r.sport, r.dport)
        /\ likely # "src" => MayServe(r.dport, r.sport)
    BY <1>1, <1>3, <1>4
  <1>6. CASE side = "src"
    <2>1. SeenServing(r, sender, r.sport)
      BY <1>1, <1>2, <1>5, <1>6 DEF SeenServing
    <2>2. Witnessed(sender, r.sport)
      BY <2>1 DEF Witnessed
    <2> QED
      BY <1>6, <2>2 DEF side, sender
  <1>7. CASE side # "src"
    <2>1. SeenServing(r, receiver, r.dport)
      BY <1>1, <1>2, <1>5, <1>7 DEF SeenServing
    <2>2. Witnessed(receiver, r.dport)
      BY <2>1 DEF Witnessed
    <2> QED
      BY <1>7, <2>2 DEF side, receiver
  <1> QED
    BY <1>6, <1>7

LEMMA IngestArpLeads ==
    ASSUME NEW s, Sound(s), NEW r \in ArpRecord
    PROVE  Leads(s, IngestArp(s, r))
  <1> DEFINE src == GetOrCreate(s, r.src, r.mac)
  <1>1. Leads(s, src.s) /\ (src.d # 0 => src.d \in Ids(src.s))
    BY GetOrCreateLeads DEF ArpRecord, Host
  <1>2. IngestArp(s, r) = IF src.d = 0 THEN s ELSE ApplyTypeGuess(src.s, src.d)
    BY DEF IngestArp
  <1> HIDE DEF src
  <1>3. CASE src.d = 0
    BY <1>2, <1>3, LeadsToItself
  <1>4. CASE src.d # 0
    BY <1>1, <1>2, <1>4, LeadsOn, TypeGuessLeads
  <1> QED
    BY <1>3, <1>4

LEMMA IngestCdpLldpLeads ==
    ASSUME NEW s, Sound(s), NEW r \in CdpLldpRecord
    PROVE  Leads(s, IngestCdpLldp(s, r))
  <1> DEFINE src == GetOrCreate(s, None, r.mac)
             named == Announce(src.s, src.d, r.l2_name)
             graded == ApplyOsGuess(named, src.d, CdpLldpGuess)
  <1>1. r.mac \in Macs \cup {None} /\ r.l2_name \in Names \cup {None}
    BY DEF CdpLldpRecord
  <1>2. Leads(s, src.s) /\ (src.d # 0 => src.d \in Ids(src.s))
    BY <1>1, GetOrCreateLeads DEF Host
  <1>3. IngestCdpLldp(s, r) = IF src.d = 0 THEN s ELSE ApplyTypeGuess(graded, src.d)
    BY DEF IngestCdpLldp
  <1> HIDE DEF src
  <1>4. CASE src.d = 0
    BY <1>3, <1>4, LeadsToItself
  <1>5. CASE src.d # 0
    <2>1. Sound(src.s) /\ src.d \in Ids(src.s)
      BY <1>2, <1>5, LeadsOn
    <2>2. Leads(src.s, named)
      BY <1>1, <2>1, AnnounceLeads
    <2> HIDE DEF named
    <2>3. Sound(named) /\ src.d \in Ids(named)
      BY <2>1, <2>2, LeadsOn
    <2>4. Leads(named, graded)
      <3>1. CdpLldpGuess.os = "cdp_lldp_announcement" /\ CdpLldpGuess.confidence \in 0 .. 12
        BY DEF CdpLldpGuess
      <3> QED
        BY <2>3, <3>1, OsGuessLeads
    <2> HIDE DEF graded
    <2>5. Sound(graded) /\ src.d \in Ids(graded)
      BY <2>3, <2>4, LeadsOn
    <2>6. Leads(graded, ApplyTypeGuess(graded, src.d))
      BY <2>5, TypeGuessLeads
    <2> QED
      BY <1>2, <1>3, <1>5, <2>1, <2>2, <2>3, <2>4, <2>6, LeadsOn
  <1> QED
    BY <1>4, <1>5

LEMMA IngestProfinetLeads ==
    ASSUME NEW s, Sound(s), NEW r \in ProfinetRecord
    PROVE  Leads(s, IngestProfinet(s, r))
  <1> DEFINE src == GetOrCreate(s, None, r.mac)
             named == Announce(src.s, src.d, r.l2_name)
             served == ApplyTypeGuess(UpsertProtocol(named, src.d, r.l2_protocol, None), src.d)
  <1>1. /\ r.mac \in Macs \cup {None} /\ r.l2_name \in Names \cup {None} /\ r.l2_protocol \in Nat
    BY DEF ProfinetRecord
  <1>2. Leads(s, src.s) /\ (src.d # 0 => src.d \in Ids(src.s))
    BY <1>1, GetOrCreateLeads DEF Host
  <1>3. IngestProfinet(s, r) = IF src.d = 0 THEN s ELSE served
    BY DEF IngestProfinet
  <1> HIDE DEF src
  <1>4. CASE src.d = 0
    BY <1>3, <1>4, LeadsToItself
  <1>5. CASE src.d # 0
    <2>1. Sound(src.s) /\ src.d \in Ids(src.s)
      BY <1>2, <1>5, LeadsOn
    <2>2. Leads(src.s, named)
      BY <1>1, <2>1, AnnounceLeads
    <2> HIDE DEF named
    <2>3. Sound(named) /\ src.d \in Ids(named)
      BY <2>1, <2>2, LeadsOn
    <2>4. Witnessed(named.mem.devices[src.d], None)
      BY DEF Witnessed
    <2>5. Leads(named, served)
      BY <1>1, <2>3, <2>4, ServiceLeads
    <2> HIDE DEF served
    <2> QED
      BY <1>2, <1>3, <1>5, <2>1, <2>2, <2>5, LeadsOn
  <1> QED
    BY <1>4, <1>5

LEMMA IngestIpLeads ==
    ASSUME NEW s, Sound(s), NEW r \in IpRecords, r.transport # "icmp" => r \in Conversing
    PROVE  Leads(s, IngestIp(s, r))
  <1> DEFINE src == GetOrCreate(s, r.src, r.mac)
             dst == GetOrCreate(src.s, r.dst, None)
             seen == IF s.cache.on THEN dst.s ELSE Flush(dst.s)
             identified ==
                 IF src.d = 0 THEN seen ELSE ApplyIdentityHints(seen, src.d, r.identity_hints)
             graded == ApplyOsGuess(identified, src.d, Fingerprint(r.syn))
             fingerprinted ==
                 IF src.d = 0 \/ ~(r.is_syn \/ r.is_syn_ack) THEN identified
                 ELSE ApplyTypeGuess(graded, src.d)
             side == PickServerSide(r)
             server == IF side = "src" THEN src.d ELSE dst.d
             port == IF side = "src" THEN r.sport ELSE r.dport
             protocol == DetectProtocol(port, r.payload)
             service ==
                 ApplyTypeGuess(UpsertProtocol(fingerprinted, server, protocol, port), server)
             served ==
                 IF src.d = 0 \/ dst.d = 0 \/ r.transport = "icmp" THEN fingerprinted
                 ELSE UpsertFlow(service, src.d, dst.d, r.transport, port)
  <1>1. /\ r.src \in Ips \cup {None} /\ r.dst \in Ips \cup {None} /\ r.mac \in Macs \cup {None}
        /\ r.sport \in Nat /\ r.dport \in Nat /\ r.syn \in Syn
        /\ r.transport \in {"tcp", "udp", "icmp"}
        /\ r.hostname_hints \in Seq(HostnameHint \cup {None})
        /\ r.identity_hints \in Seq(IdentityHint)
    BY DEF IpRecords
  <1>2. IngestIp(s, r) = ApplyHostnameHints(served, r.hostname_hints)
    BY DEF IngestIp
  <1>3. Leads(s, src.s) /\ (src.d # 0 => Host(src.s, src.d, r.src, r.mac))
    BY <1>1, GetOrCreateLeads
  <1>4. Leads(src.s, dst.s) /\ (dst.d # 0 => Host(dst.s, dst.d, r.dst, None))
    BY <1>1, <1>3, GetOrCreateLeads DEF Leads
  <1> HIDE DEF src, dst
  <1>5. Leads(s, dst.s) /\ Sound(dst.s) /\ (src.d # 0 => Host(dst.s, src.d, r.src, r.mac))
    BY <1>3, <1>4, LeadsOn
  <1>6. Leads(dst.s, seen)
    BY <1>5, FlushLeads, LeadsToItself
  <1> HIDE DEF seen
  <1>7. /\ Leads(s, seen) /\ Sound(seen)
        /\ src.d # 0 => Host(seen, src.d, r.src, r.mac)
        /\ dst.d # 0 => Host(seen, dst.d, r.dst, None)
    BY <1>4, <1>5, <1>6, LeadsOn
  <1>8. Leads(seen, identified)
    BY <1>1, <1>7, IdentityHintsLead, LeadsToItself DEF Host
  <1> HIDE DEF identified
  <1>9. /\ Leads(s, identified) /\ Sound(identified)
        /\ src.d # 0 => Host(identified, src.d, r.src, r.mac)
        /\ dst.d # 0 => Host(identified, dst.d, r.dst, None)
    BY <1>7, <1>8, LeadsOn
  <1>10. Leads(identified, fingerprinted)
    <2>1. CASE src.d = 0 \/ ~(r.is_syn \/ r.is_syn_ack)
      BY <1>9, <2>1, LeadsToItself
    <2>2. CASE ~(src.d = 0 \/ ~(r.is_syn \/ r.is_syn_ack))
      <3>1. Fingerprint(r.syn).os \in SignatureNames /\ Fingerprint(r.syn).confidence \in 0 .. 12
        BY <1>1, FingerprintIsGuess
      <3>2. Leads(identified, graded)
        BY <1>9, <2>2, <3>1, OsGuessLeads DEF Host
      <3> HIDE DEF graded
      <3>3. Leads(graded, ApplyTypeGuess(graded, src.d))
        BY <1>9, <2>2, <3>2, LeadsOn, TypeGuessLeads DEF Host
      <3>4. Leads(identified, ApplyTypeGuess(graded, src.d))
        BY <1>9, <3>2, <3>3, LeadsOn
      <3> QED
        BY <2>2, <3>4
    <2> QED
      BY <2>1, <2>2
  <1> HIDE DEF fingerprinted
  <1>11. /\ Leads(s, fingerprinted) /\ Sound(fingerprinted)
         /\ src.d # 0 => Host(fingerprinted, src.d, r.src, r.mac)
         /\ dst.d # 0 => Host(fingerprinted, dst.d, r.dst, None)
    BY <1>9, <1>10, LeadsOn
  <1>12. port \in Nat /\ protocol \in Nat
    <2>1. port \in Nat
      BY <1>1
    <2> HIDE DEF port
    <2> QED
      BY <2>1, ProtocolIsNumber
  <1> HIDE DEF protocol
  <1>13. Leads(fingerprinted, served)
    <2>1. CASE src.d = 0 \/ dst.d = 0 \/ r.transport = "icmp"
      BY <1>11, <2>1, LeadsToItself
    <2>2. CASE ~(src.d = 0 \/ dst.d = 0 \/ r.transport = "icmp")
      <3>1. server \in Ids(fingerprinted)
        BY <1>11, <2>2 DEF Host
      <3>0. Witnessed(fingerprinted.mem.devices[server], port)
        BY <1>11, <2>2, PickedIsSeen
      <3> HIDE DEF server, port
      <3>2. /\ Leads(fingerprinted, service)
            /\ ~fingerprinted.cache.on => service.mem.flows \subseteq service.sql.flows
        BY <1>11, <1>12, <3>1, <3>0, ServiceLeads
      <3> HIDE DEF service
      <3>3. /\ Sound(service) /\ src.d \in Ids(service) /\ dst.d \in Ids(service)
            /\ service.cache.on \/ service.mem.flows \subseteq service.sql.flows
        BY <1>11, <2>2, <3>2, LeadsOn DEF Host
      <3>4. r.transport \in {"tcp", "udp"}
        BY <1>1, <2>2
      <3>5. Leads(service, UpsertFlow(service, src.d, dst.d, r.transport, port))
        BY <1>12, <3>3, <3>4, FlowLeads
      <3> QED
        BY <1>11, <2>2, <3>2, <3>5, LeadsOn
    <2> QED
      BY <2>1, <2>2
  <1> HIDE DEF served
  <1>14. Leads(s, served) /\ Sound(served)
    BY <1>11, <1>13, LeadsOn
  <1>15. Leads(served, ApplyHostnameHints(served, r.hostname_hints))
    BY <1>1, <1>14, HostnameHintsLead
  <1> QED
    BY <1>2, <1>14, <1>15, LeadsOn

LEMMA IngestLeads ==
    ASSUME NEW s, Sound(s), network \in Networks, NEW r \in Records[network]
    PROVE  Leads(s, IngestPacketRecord(s, r))
  <1>1. CASE r \in ArpRecord
    <2>1. r.transport = "arp"
      BY <1>1 DEF ArpRecord
    <2>2. IngestPacketRecord(s, r) = IngestArp(s, r)
      BY <2>1 DEF IngestPacketRecord
    <2> QED
      BY <1>1, <2>2, IngestArpLeads
  <1>2. CASE r \in CdpLldpRecord
    <2>1. r.transport \in {"cdp", "lldp"}
      BY <1>2 DEF CdpLldpRecord
    <2>2. IngestPacketRecord(s, r) = IngestCdpLldp(s, r)
      BY <2>1 DEF IngestPacketRecord
    <2> QED
      BY <1>2, <2>2, IngestCdpLldpLeads
  <1>3. CASE r \in ProfinetRecord
    <2>1. r.transport = "profinet"
      BY <1>3 DEF ProfinetRecord
    <2>2. IngestPacketRecord(s, r) = IngestProfinet(s, r)
      BY <2>1 DEF IngestPacketRecord
    <2> QED
      BY <1>3, <2>2, IngestProfinetLeads
  <1>4. CASE r \in IpRecords
    <2>1. /\ r.transport \in {"tcp", "udp", "icmp"}
          /\ r.transport # "icmp" => r \in Conversing
      BY <1>4 DEF IpRecords, Conversing
    <2>2. IngestPacketRecord(s, r) = IngestIp(s, r)
      BY <2>1 DEF IngestPacketRecord
    <2> QED
      BY <1>4, <2>1, <2>2, IngestIpLeads
  <1> QED
    BY <1>1, <1>2, <1>3, <1>4, RecordsAreTyped

LEMMA GatewayDetectionLeads ==
    ASSUME NEW s, Sound(s)
    PROVE  Leads(s, ApplyGatewayDetection(s))
  <1> DEFINE marked(d) == [s.mem.devices[d] EXCEPT !.type = "network_device", !.score = 8]
             devices == [d \in DOMAIN s.mem.devices |->
                            IF d \in Gateways(s) THEN marked(d) ELSE s.mem.devices[d]]
             t == [s EXCEPT !.mem = [s.mem EXCEPT !.devices = devices]]
             n == Len(s.mem.devices)
  <1>1. ApplyGatewayDetection(s) = t
    BY DEF ApplyGatewayDetection
  <1>2. \A d \in Ids(s) : Regrades(s.mem.devices[d], devices[d])
    <2> TAKE d \in Ids(s)
    <2>1. s.mem.devices[d] \in Device /\ d \in DOMAIN s.mem.devices
      BY StateParts DEF Sound
    <2>2. marked(d) \in Device
      <3>1. "network_device" \in Types \cup {"none"} /\ 8 \in 0 .. 8
        BY DEF Types
      <3>2. \A type \in Types \cup {"none"}, score \in 0 .. 8 :
               [s.mem.devices[d] EXCEPT !.type = type, !.score = score] \in Device
        BY <2>1 DEF Device
      <3> QED
        BY <3>1, <3>2
    <2>3. Regrades(s.mem.devices[d], marked(d))
      BY <2>1, <2>2 DEF Regrades, Grows, Device
    <2> HIDE DEF marked
    <2> QED
      BY <2>1, <2>3, GrowsItself
  <1>3. devices \in Seq(Device) /\ Len(devices) = n
    <2>1. n \in Nat /\ DOMAIN s.mem.devices = 1 .. n /\ Ids(s) = 1 .. n
      BY StateParts DEF Sound, Ids
    <2>2. \A d \in 1 .. n : devices[d] \in Device
      BY <1>2, <2>1 DEF Regrades
    <2>3. devices \in [1 .. n -> Device]
      BY <2>1, <2>2
    <2> HIDE DEF devices, n
    <2> QED
      BY <2>1, <2>3
  <1> HIDE DEF devices
  <1>4. /\ t \in State /\ t.sql = s.sql /\ t.cache = s.cache /\ t.clash = s.clash
        /\ t.mem.devices = devices
        /\ t.mem.protocols = s.mem.protocols /\ t.mem.flows = s.mem.flows
    BY <1>3 DEF Sound, State, Stored
  <1>5. Regraded(s, t)
    BY <1>2, <1>3, <1>4 DEF Regraded
  <1> QED
    BY <1>1, <1>5, RegradedIsSound

\* A cache that starts again knows nothing, and has to know nothing.
LEMMA EndOfRunLeads ==
    ASSUME NEW s, Sound(s)
    PROVE  Leads(s, [Flush(ApplyGatewayDetection(s)) EXCEPT !.cache = EmptyCache(s.cache.on)])
  <1> DEFINE ended == ApplyGatewayDetection(s)
             u == Flush(ended)
             empty == EmptyCache(s.cache.on)
             t == [u EXCEPT !.cache = empty]
  <1>1. Leads(s, ended)
    BY GatewayDetectionLeads
  <1> HIDE DEF ended
  <1>2. Leads(ended, u) /\ u.sql = u.mem
    BY <1>1, LeadsOn, FlushLeads
  <1> HIDE DEF u
  <1>3. Leads(s, u) /\ Sound(u) /\ u.cache.on = s.cache.on
    BY <1>1, <1>2, LeadsOn
  <1>4. /\ empty \in Cached /\ empty.on = u.cache.on
        /\ empty.protocols = {} /\ empty.flows = {}
        /\ \A ip \in Ips : empty.by_ip[ip] = 0
        /\ \A mac \in Macs : empty.by_mac[mac] = 0
    <2>1. u.cache.on \in BOOLEAN
      BY <1>3, StateParts DEF Sound, Cached
    <2> QED
      BY <1>3, <2>1 DEF EmptyCache, Cached
  <1> HIDE DEF empty
  <1>5. t \in State /\ t.mem = u.mem /\ t.sql = u.mem /\ t.cache = empty /\ t.clash = u.clash
    BY <1>2, <1>3, <1>4 DEF Sound, State
  <1> HIDE DEF t
  <1>6. Ids(t) = Ids(u)
    BY <1>5 DEF Ids
  <1>7. RowsRefer(t) /\ SqlLags(t)
    <2>1. RowsRefer(t)
      BY <1>3, <1>4, <1>5, <1>6 DEF Sound, RowsRefer
    <2>2. \A d \in Ids(u) : u.mem.devices[d].ip # None \/ u.mem.devices[d].mac # None
      BY <1>3, KnownBySomething DEF Sound
    <2> QED
      BY <1>5, <1>6, <2>1, <2>2 DEF SqlLags
  <1>8. CacheHolds(t) /\ CacheCovers(t) /\ RowsApart(t)
    BY <1>3, <1>4, <1>5, <1>6 DEF Sound, CacheHolds, CacheCovers, RowsApart
  <1>9. KeysFound(t) /\ Classified(t) /\ Seen(t)
    BY <1>3, <1>4, <1>5 DEF Sound, KeysFound, Classified, Seen
  <1>10. Kept(s, t)
    BY <1>3, <1>4, <1>5 DEF Leads, Kept
  <1>11. Leads(s, t)
    BY <1>5, <1>7, <1>8, <1>9, <1>10 DEF Leads, Sound
  <1> QED
    BY <1>11 DEF t, u, empty, ended

-----------------------------------------------------------------------------
(***************************************************************************)
(* The invariant is inductive.                                             *)
(***************************************************************************)
LEMMA InitIsSound == Init => InventoryInv
  <1> SUFFICES ASSUME Init
               PROVE  InventoryInv
    OBVIOUS
  <1>1. PICK on \in Caching[network] : run = EmptyRun(on)
    BY DEF Init
  <1>2. network \in Networks /\ on \in BOOLEAN
    BY <1>1, CachingAssumption DEF Init
  <1> DEFINE s == EmptyRun(on)
  <1>3. /\ s.mem = EmptyInventory /\ s.sql = EmptyInventory /\ s.cache = EmptyCache(on)
        /\ s.clash = FALSE /\ DOMAIN s = {"mem", "sql", "cache", "clash"}
        /\ s = [mem |-> s.mem, sql |-> s.sql, cache |-> s.cache, clash |-> s.clash]
    BY DEF EmptyRun
  <1> HIDE DEF s
  <1>4. EmptyInventory \in Stored /\ EmptyCache(on) \in Cached
    BY <1>2 DEF EmptyInventory, EmptyCache, Stored, Cached
  <1>5. s \in State
    BY <1>3, <1>4 DEF State
  <1>6. Ids(s) = {} /\ s.mem.protocols = {} /\ s.mem.flows = {}
    BY <1>3 DEF Ids, EmptyInventory
  <1>7. RowsRefer(s) /\ SqlLags(s) /\ RowsApart(s) /\ Classified(s) /\ Seen(s)
    BY <1>3, <1>6 DEF RowsRefer, SqlLags, RowsApart, Classified, Seen, EmptyInventory, EmptyCache
  <1>8. CacheHolds(s) /\ CacheCovers(s) /\ KeysFound(s)
    BY <1>3, <1>6 DEF CacheHolds, CacheCovers, KeysFound, EmptyCache
  <1>9. Sound(s)
    BY <1>5, <1>7, <1>8 DEF Sound
  <1> QED
    BY <1>1, <1>2, <1>9 DEF InventoryInv, s

LEMMA NextLeads == InventoryInv /\ Next => Leads(run, run') /\ network' = network
  <1> SUFFICES ASSUME InventoryInv, Next
               PROVE  Leads(run, run') /\ network' = network
    OBVIOUS
  <1>1. Sound(run) /\ network \in Networks /\ network' = network
    BY DEF InventoryInv, Next
  <1>2. ASSUME NEW record \in Records[network], Ingest(record)
        PROVE  Leads(run, run')
    BY <1>1, <1>2, IngestLeads DEF Ingest
  <1>3. CASE CommitProgress
    BY <1>1, <1>3, FlushLeads DEF CommitProgress
  <1>4. CASE EndRun
    BY <1>1, <1>4, EndOfRunLeads DEF EndRun
  <1> QED
    BY <1>1, <1>2, <1>3, <1>4 DEF Next

LEMMA Invariance == Spec => []InventoryInv
  <1>1. Init => InventoryInv
    BY InitIsSound
  <1>2. InventoryInv /\ [Next]_vars => InventoryInv'
    <2> SUFFICES ASSUME InventoryInv, [Next]_vars
                 PROVE  InventoryInv'
      OBVIOUS
    <2>1. CASE Next
      <3>1. Sound(run') /\ network' = network
        BY <2>1, NextLeads DEF Leads
      <3> QED
        BY <3>1 DEF InventoryInv, Sound, Seen, Witnessed, Conversing
    <2>2. CASE UNCHANGED vars
      <3>1. run' = run /\ network' = network
        BY <2>2 DEF vars
      <3> QED
        BY <3>1 DEF InventoryInv, Sound, Seen, Witnessed, Conversing
    <2> QED
      BY <2>1, <2>2
  <1> QED
    BY <1>1, <1>2, PTL DEF Spec

-----------------------------------------------------------------------------
(***************************************************************************)
(* The theorems.                                                           *)
(***************************************************************************)
\* Rows and cached entries are of devices that are there, and of the right types.
THEOREM TypeCorrect == Spec => []TypeOK
  <1>1. InventoryInv => TypeOK
    <2> SUFFICES ASSUME InventoryInv
                 PROVE  TypeOK
      OBVIOUS
    <2>1. /\ network \in Networks /\ Sound(run) /\ run \in State
          /\ DOMAIN run.mem.devices = Ids(run) /\ Len(run.mem.devices) \in Nat
          /\ run.mem \in Stored /\ run.sql \in Stored /\ run.cache \in Cached
      BY StateParts DEF InventoryInv, Sound
    <2>2. /\ run.mem.protocols \subseteq Ids(run) \X Nat \X (Nat \cup {None})
          /\ run.mem.flows \subseteq Ids(run) \X Ids(run) \X {"tcp", "udp"} \X Nat
      <3>1. ASSUME NEW row \in run.mem.protocols
            PROVE  row \in Ids(run) \X Nat \X (Nat \cup {None})
        <4>1. row \in ProtocolRow /\ row[1] \in Ids(run)
          BY <2>1 DEF Sound, RowsRefer, Stored
        <4> QED
          BY <4>1 DEF ProtocolRow
      <3>2. ASSUME NEW row \in run.mem.flows
            PROVE  row \in Ids(run) \X Ids(run) \X {"tcp", "udp"} \X Nat
        <4>1. row \in FlowRow /\ row[1] \in Ids(run) /\ row[2] \in Ids(run)
          BY <2>1 DEF Sound, RowsRefer, Stored
        <4> QED
          BY <4>1 DEF FlowRow
      <3> QED
        BY <3>1, <3>2
    <2>3. /\ run.sql.protocols \subseteq run.mem.protocols /\ run.sql.flows \subseteq run.mem.flows
          /\ run.cache.protocols \subseteq run.mem.protocols
          /\ run.cache.flows \subseteq run.mem.flows
      BY <2>1 DEF Sound, RowsRefer
    <2>4. run.mem.devices \in Seq(Device) /\ run.sql.devices \in Seq(Device)
      BY <2>1 DEF Stored
    <2>5. run.cache.by_ip \in [Ips -> 0 .. Len(run.mem.devices)]
      <3>1. /\ run.cache.by_ip \in [Ips -> Nat]
            /\ \A ip \in Ips : run.cache.by_ip[ip] = 0 \/ run.cache.by_ip[ip] \in Ids(run)
        BY <2>1 DEF Cached, Sound, CacheHolds
      <3> QED
        BY <2>1, <3>1 DEF Ids
    <2>6. run.cache.by_mac \in [Macs -> 0 .. Len(run.mem.devices)]
      <3>1. /\ run.cache.by_mac \in [Macs -> Nat]
            /\ \A mac \in Macs : run.cache.by_mac[mac] = 0 \/ run.cache.by_mac[mac] \in Ids(run)
        BY <2>1 DEF Cached, Sound, CacheHolds
      <3> QED
        BY <2>1, <3>1 DEF Ids
    <2> QED
      BY <2>1, <2>2, <2>3, <2>4, <2>5, <2>6 DEF TypeOK
  <1> QED
    BY <1>1, Invariance, PTL

\* A run with a cache has one device for an address, and one for a MAC alone.
THEOREM AddressesAreApart == Spec => []OneRowPerAddress
  <1>1. InventoryInv => OneRowPerAddress
    <2>1. InventoryInv => DOMAIN Devices = Ids(run)
      BY StateParts DEF InventoryInv, Sound, Devices
    <2> QED
      BY <2>1 DEF InventoryInv, Sound, RowsApart, OneRowPerAddress, Devices
  <1> QED
    BY <1>1, Invariance, PTL

\* What the cache answers, a SELECT on the flushed rows would.
THEOREM CacheIsTransparent == Spec => []CacheMirrorsQueries
  <1>1. InventoryInv => CacheMirrorsQueries
    <2> SUFFICES ASSUME InventoryInv
                 PROVE  CacheMirrorsQueries
      OBVIOUS
    <2>1. /\ Sound(run) /\ Sound(Flush(run)) /\ Flush(run).sql = run.mem
          /\ DOMAIN run.mem.devices = Ids(run) /\ Ids(run) \subseteq Nat \ {0}
      BY FlushLeads, StateParts DEF InventoryInv, Leads, Sound
    <2>2. ASSUME NEW d \in Ids(run)
          PROVE  Oldest({d}) = d
      BY <2>1, OldestIsOne
    <2>3. ASSUME NEW ip \in Ips, run.cache.by_ip[ip] # 0
          PROVE  RowsOfIp(Flush(run), ip) = {run.cache.by_ip[ip]} /\ run.cache.by_ip[ip] \in Ids(run)
      <3>1. /\ run.cache.on /\ run.cache.by_ip[ip] \in Ids(run)
            /\ run.mem.devices[run.cache.by_ip[ip]].ip = ip /\ ip # None
        BY <2>1, <2>3, NoneAssumption DEF Sound, CacheHolds
      <3>2. \A d \in Ids(run) : run.mem.devices[d].ip = ip => d = run.cache.by_ip[ip]
        BY <2>1, <3>1 DEF Sound, RowsApart
      <3>3. RowsOfIp(Flush(run), ip) = {d \in Ids(run) : run.mem.devices[d].ip = ip /\ ip # None}
        BY <2>1 DEF RowsOfIp
      <3> QED
        BY <3>1, <3>2, <3>3
    <2>4. ASSUME NEW mac \in Macs, run.cache.by_mac[mac] # 0
          PROVE  /\ MacOnlyRows(Flush(run), mac) = {run.cache.by_mac[mac]}
                 /\ run.cache.by_mac[mac] \in Ids(run)
      <3>1. /\ run.cache.on /\ run.cache.by_mac[mac] \in Ids(run)
            /\ run.mem.devices[run.cache.by_mac[mac]].mac = mac /\ mac # None
            /\ run.mem.devices[run.cache.by_mac[mac]].ip = None
        BY <2>1, <2>4, NoneAssumption DEF Sound, CacheHolds
      <3>2. \A d \in Ids(run) : run.mem.devices[d].mac = mac /\ run.mem.devices[d].ip = None
                                    => d = run.cache.by_mac[mac]
        BY <2>1, <3>1 DEF Sound, RowsApart
      <3>3. MacOnlyRows(Flush(run), mac) =
               {d \in Ids(run) : run.mem.devices[d].mac = mac /\ run.mem.devices[d].ip = None}
        BY <2>1 DEF MacOnlyRows
      <3> QED
        BY <3>1, <3>2, <3>3
    <2> QED
      BY <2>2, <2>3, <2>4 DEF CacheMirrorsQueries
  <1> QED
    BY <1>1, Invariance, PTL

\* With the cache or without, no INSERT repeats a key that is not flushed.
THEOREM KeysAreInsertedOnce == Spec => []NoKeyInsertedTwice
  <1>1. InventoryInv => NoKeyInsertedTwice
    BY DEF InventoryInv, Sound, KeysFound, NoKeyInsertedTwice
  <1> QED
    BY <1>1, Invariance, PTL

\* One packet of an industrial protocol is enough to be classified by it.
THEOREM ServicesAreClassified == Spec => []ServiceIsClassified
  <1>1. InventoryInv => ServiceIsClassified
    BY DEF InventoryInv, Sound, Classified, ServiceIsClassified, Devices
  <1> QED
    BY <1>1, Invariance, PTL

\* Whatever is captured, in whatever order, a service is of a device and at a
\* port that some packet has at the end that may be the server's.
THEOREM ServicesAreSeen == Spec => []ServicesWereSeen
  <1>1. InventoryInv => ServicesWereSeen
    BY DEF InventoryInv, Sound, Seen, Witnessed, ServicesWereSeen, Devices
  <1> QED
    BY <1>1, Invariance, PTL

\* No packet, commit or end of a run takes away what is known of a device.
THEOREM IdentitiesAreKept == Spec => IdentityIsKept
  <1>1. InventoryInv /\ [Next]_vars =>
           [\A d \in DOMAIN run.mem.devices :
               /\ run.mem.devices[d].ip \in {None, run'.mem.devices[d].ip}
               /\ run.mem.devices[d].mac \in {None, run'.mem.devices[d].mac}
               /\ run.mem.devices[d].vendor \in {None, run'.mem.devices[d].vendor}
               /\ run'.mem.devices[d].confidence >= run.mem.devices[d].confidence
               /\ run'.mem.devices[d].score >= run.mem.devices[d].score]_run
    <2> SUFFICES ASSUME InventoryInv, Next, NEW d \in DOMAIN run.mem.devices
                 PROVE  /\ run.mem.devices[d].ip \in {None, run'.mem.devices[d].ip}
                        /\ run.mem.devices[d].mac \in {None, run'.mem.devices[d].mac}
                        /\ run.mem.devices[d].vendor \in {None, run'.mem.devices[d].vendor}
                        /\ run'.mem.devices[d].confidence >= run.mem.devices[d].confidence
                        /\ run'.mem.devices[d].score >= run.mem.devices[d].score
      BY DEF vars
    <2>1. d \in Ids(run) /\ run.mem.devices[d] \in Device
      BY StateParts DEF InventoryInv, Sound
    <2>2. Grows(run.mem.devices[d], run'.mem.devices[d])
      BY <2>1, NextLeads DEF Leads, Kept
    <2>3. run'.mem.devices[d] \in Device
      <3>1. Sound(run') /\ d \in Ids(run')
        BY <2>1, NextLeads, LeadsOn DEF InventoryInv
      <3> QED
        BY <3>1, StateParts DEF Sound
    <2> QED
      BY <2>1, <2>2, <2>3 DEF Grows, Device
  <1> QED
    BY <1>1, Invariance, PTL DEF Spec, IdentityIsKept

=============================================================================
