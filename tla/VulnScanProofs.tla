----------------------------- MODULE VulnScanProofs -----------------------------
(***************************************************************************)
(* Proofs about VulnScan: for any number of scans, devices, services and   *)
(* CVEs, and whatever the interval, the time to live and the cap.          *)
(***************************************************************************)
EXTENDS VulnScan, FiniteSetTheorems, TLAPS

LEMMA OlderType ==
    ASSUME NEW limit \in Nat, NEW age \in 0 .. limit
    PROVE  /\ Older(age, limit) \in 0 .. limit
           /\ Older(age, limit) = limit \/ Older(age, limit) = age + 1
           /\ age < limit => Older(age, limit) = age + 1
           /\ age = limit => Older(age, limit) = limit
  BY DEF Older

LEMMA IdleType == Idle \in Scan
  <1>1. 0 \in 0 .. Ttl /\ 0 \in 0 .. Interval
    BY TimeAssumption
  <1> QED
    BY <1>1 DEF Idle, Scan

LEMMA KeysOfADevice ==
    ASSUME NEW d \in Devices
    PROVE  /\ FiringRules(Services[d], Os[d]) \subseteq Keys
           /\ BannerKeywords(Services[d]) \subseteq Keywords
  BY DEF Keys, RuleKeys, Keywords

LEMMA CvesAreKeys == Cves \subseteq Keys
  BY DEF Keys

\* A scan's step leaves the other scans alone.
LEMMA UpdateType ==
    ASSUME TypeOK, NEW s \in Scans, NEW new \in Scan, Update(s, new)
    PROVE  /\ scan' \in [Scans -> Scan]
           /\ scan'[s] = new
           /\ \A r \in Scans \ {s} : scan'[r] = scan[r]
  BY DEF TypeOK, Update

LEMMA CommitType ==
    ASSUME TypeOK, NEW s \in Scans, Commit(s)
    PROVE  /\ findings' \in [Devices -> [Keys -> Nat]]
           /\ \A d \in Devices, k \in Keys :
                 findings'[d][k] = IF d = scan[s].device /\ k \in scan[s].pending
                                   THEN findings[d][k] + 1 ELSE findings[d][k]
  <1> DEFINE committed(d) == [k \in Keys |-> IF k \in scan[s].pending
                                             THEN findings[d][k] + 1 ELSE findings[d][k]]
  <1>1. findings' = [d \in Devices |-> IF d = scan[s].device THEN committed(d) ELSE findings[d]]
    BY DEF Commit, TypeOK
  <1>2. \A d \in Devices : findings[d] \in [Keys -> Nat] /\ committed(d) \in [Keys -> Nat]
    BY DEF TypeOK
  <1> HIDE DEF committed
  <1>3. findings' \in [Devices -> [Keys -> Nat]]
    BY <1>1, <1>2
  <1>4. ASSUME NEW d \in Devices, NEW k \in Keys
        PROVE  findings'[d][k] = IF d = scan[s].device /\ k \in scan[s].pending
                                 THEN findings[d][k] + 1 ELSE findings[d][k]
    BY <1>1 DEF committed
  <1> QED
    BY <1>3, <1>4

-----------------------------------------------------------------------------
(***************************************************************************)
(* Where a scan is: it works on a device of the organization, has nothing  *)
(* pending between two devices, and is broken only where it will raise.    *)
(***************************************************************************)
Located ==
    \A s \in Scans :
        /\ scan[s].pc \in {"persist", "enter", "sleep", "call", "store"}
              => scan[s].device \in Devices
        /\ scan[s].pc \in {"idle", "device", "done"} => scan[s].pending = {}
        /\ scan[s].broken => scan[s].pc = "persist"

LocatedScan(sc) ==
    /\ sc.pc \in {"persist", "enter", "sleep", "call", "store"} => sc.device \in Devices
    /\ sc.pc \in {"idle", "device", "done"} => sc.pending = {}
    /\ sc.broken => sc.pc = "persist"

LEMMA ScanMoves ==
    ASSUME TypeOK, Located, NEW s \in Scans, NEW new \in Scan, LocatedScan(new),
           Update(s, new)
    PROVE  scan' \in [Scans -> Scan] /\ Located'
  BY UpdateType DEF Located, LocatedScan

\* A search leaves the scan with results, whatever becomes of its pending rows.
LEMMA SearchedType ==
    ASSUME TypeOK, Located, NEW s \in Scans, scan[s].pc \in {"call", "store"},
           NEW cves \in SUBSET Cves
    PROVE  Searched(s, cves) \in Scan /\ LocatedScan(Searched(s, cves))
  <1>1. scan[s] \in Scan
    BY DEF TypeOK
  <1>2. cves \subseteq Keys
    BY CvesAreKeys
  <1>3. 0 \in 0 .. Ttl
    BY TimeAssumption
  <1> QED
    BY <1>1, <1>2, <1>3 DEF Searched, Scan, Located, LocatedScan

LEMMA StepType ==
    ASSUME TypeOK, Located, NEW s \in Scans, Step(s) \/ EnterLimiter(s)
    PROVE  TypeOK' /\ Located'
  <1>0. /\ scan[s] \in Scan /\ 0 \in 0 .. Ttl /\ 0 \in 0 .. Interval /\ 0 \in 0 .. Window
        /\ LocatedScan(scan[s])
    BY TimeAssumption DEF TypeOK, Located, LocatedScan
  <1>1. CASE PickDevice(s)
    <2>1. PICK d \in scan[s].queue :
             Update(s, [scan[s] EXCEPT
              !.pc = "persist", !.queue = @ \ {d}, !.device = d,
              !.results = FiringRules(Services[d], Os[d]),
              !.keywords = IF scan[s].nvd THEN BannerKeywords(Services[d]) ELSE {}])
      BY <1>1 DEF PickDevice
    <2> DEFINE new == [scan[s] EXCEPT
              !.pc = "persist", !.queue = @ \ {d}, !.device = d,
              !.results = FiringRules(Services[d], Os[d]),
              !.keywords = IF scan[s].nvd THEN BannerKeywords(Services[d]) ELSE {}]
    <2>2. d \in Devices
      BY <1>0 DEF Scan
    <2>3. new \in Scan /\ LocatedScan(new)
      BY <1>0, <2>2, KeysOfADevice DEF Scan, LocatedScan
    <2> HIDE DEF new
    <2>4. scan' \in [Scans -> Scan] /\ Located'
      BY <2>1, <2>3, ScanMoves DEF new
    <2> QED
      BY <1>1, <2>4 DEF PickDevice, TypeOK
  <1>2. ASSUME NEW k \in Keys, PersistFinding(s, k)
        PROVE  TypeOK' /\ Located'
    <2> DEFINE new == [scan[s] EXCEPT
           !.results = @ \ {k},
           !.pending = IF RowsSeen(s, k) = 0 THEN @ \cup {k} ELSE @,
           !.found = @ \cup {<<scan[s].device, k>>}]
    <2>0. /\ scan[s].pc = "persist" /\ scan[s].device \in Devices
          /\ scan[s].found \cup {<<scan[s].device, k>>} \in SUBSET (Devices \X Keys)
          /\ (IF RowsSeen(s, k) = 0 THEN scan[s].pending \cup {k} ELSE scan[s].pending)
                \in SUBSET Keys
          /\ scan[s].results \ {k} \in SUBSET Keys
      BY <1>0, <1>2 DEF Scan, LocatedScan, PersistFinding
    <2>1. new \in Scan /\ LocatedScan(new)
      BY <1>0, <2>0 DEF Scan, LocatedScan
    <2> HIDE DEF new
    <2>2. scan' \in [Scans -> Scan] /\ Located'
      BY <1>2, <2>1, ScanMoves DEF new, PersistFinding
    <2> QED
      BY <1>2, <2>2 DEF PersistFinding, TypeOK
  <1>3. CASE Raise(s)
    <2>1. LocatedScan(Idle)
      BY DEF LocatedScan, Idle
    <2>2. scan' \in [Scans -> Scan] /\ Located'
      BY <1>3, <2>1, IdleType, ScanMoves DEF Raise
    <2> QED
      BY <1>3, <2>2 DEF Raise, TypeOK
  <1>4. CASE CommitDevice(s)
    <2> DEFINE pc == IF scan[s].queue = {} THEN "done" ELSE "device"
               new == [Idle EXCEPT !.pc = pc, !.queue = scan[s].queue,
                                   !.nvd = scan[s].nvd, !.found = scan[s].found]
    <2>1. /\ scan[s].queue \in SUBSET Devices /\ scan[s].nvd \in BOOLEAN
          /\ scan[s].found \in SUBSET (Devices \X Keys)
          /\ pc \in {"done", "device"}
      BY <1>0 DEF Scan
    <2>2. Update(s, new)
      BY <1>4 DEF CommitDevice
    <2> HIDE DEF pc
    <2>3. new.pc \in {"done", "device"} /\ new.pending = {} /\ new.broken = FALSE
      BY <2>1 DEF Idle
    <2>4. new \in Scan
      BY <2>1, IdleType DEF Scan
    <2>5. LocatedScan(new)
      BY <2>3 DEF LocatedScan
    <2> HIDE DEF new
    <2>6. scan' \in [Scans -> Scan] /\ Located'
      BY <2>2, <2>4, <2>5, ScanMoves
    <2>7. findings' \in [Devices -> [Keys -> Nat]]
      BY <1>4, CommitType DEF CommitDevice
    <2> QED
      BY <1>4, <2>6, <2>7 DEF CommitDevice, TypeOK
  <1>5. ASSUME NEW k \in Keywords, LookUpCache(s, k)
        PROVE  TypeOK' /\ Located'
    <2>1. cache[k] # None => cache[k].cves \in SUBSET Cves
      BY DEF TypeOK, CacheRow
    <2> DEFINE fresh == [scan[s] EXCEPT !.keywords = @ \ {k}, !.results = cache[k].cves]
               ask == [scan[s] EXCEPT !.keywords = @ \ {k}, !.keyword = k, !.pc = "enter",
                                !.asked = 0,
                                !.row = IF cache[k] = None THEN None ELSE cache[k].cves]
    <2>2. cache[k] # None => fresh \in Scan /\ LocatedScan(fresh)
      BY <1>0, <2>1, CvesAreKeys DEF Scan, LocatedScan
    <2>3. ask \in Scan /\ LocatedScan(ask)
      <3>1. (IF cache[k] = None THEN None ELSE cache[k].cves) \in (SUBSET Cves) \cup {None}
        BY <2>1
      <3>2. scan[s].device \in Devices /\ ~scan[s].broken
        BY <1>0, <1>5 DEF LookUpCache, LocatedScan
      <3> QED
        BY <1>0, <3>1, <3>2 DEF Scan, LocatedScan
    <2> HIDE DEF fresh, ask
    <2>4. \/ cache[k] # None /\ Update(s, fresh)
          \/ Update(s, ask)
      BY <1>5 DEF LookUpCache, fresh, ask
    <2>5. scan' \in [Scans -> Scan] /\ Located'
      BY <2>2, <2>3, <2>4, ScanMoves
    <2> QED
      BY <1>5, <2>5 DEF LookUpCache, TypeOK
  <1>6. CASE EnterLimiter(s)
    <2> DEFINE new == [scan[s] EXCEPT !.pc = "sleep", !.sleep = Interval - limiter.elapsed]
    <2>1. Interval - limiter.elapsed \in 0 .. Interval
      BY TimeAssumption DEF TypeOK
    <2>2. new \in Scan /\ LocatedScan(new)
      BY <1>0, <1>6, <2>1 DEF Scan, LocatedScan, EnterLimiter
    <2> HIDE DEF new
    <2>3. scan' \in [Scans -> Scan] /\ Located'
      BY <1>6, <2>2, ScanMoves DEF new, EnterLimiter
    <2> QED
      BY <1>6, <2>3 DEF EnterLimiter, TypeOK
  <1>7. CASE LeaveLimiter(s)
    <2> DEFINE new == [scan[s] EXCEPT !.pc = "call"]
    <2>1. new \in Scan /\ LocatedScan(new)
      BY <1>0, <1>7 DEF Scan, LocatedScan, LeaveLimiter
    <2> HIDE DEF new
    <2>2. scan' \in [Scans -> Scan] /\ Located'
      BY <1>7, <2>1, ScanMoves DEF new, LeaveLimiter
    <2>3. calls' \in [1 .. Cap + 1 -> 0 .. Window]
      BY <1>0, <1>7, TimeAssumption DEF LeaveLimiter, TypeOK
    <2>4. limiter' \in [holder : Scans \cup {None}, elapsed : 0 .. Interval]
      BY <1>0, <1>7 DEF LeaveLimiter
    <2> QED
      BY <1>7, <2>2, <2>3, <2>4 DEF LeaveLimiter, TypeOK
  <1>8. CASE Answer(s)
    <2>1. PICK cves \in SUBSET Cves :
             Update(s, [scan[s] EXCEPT !.pc = "store", !.answer = cves, !.answered = 0])
      BY <1>8 DEF Answer
    <2> DEFINE new == [scan[s] EXCEPT !.pc = "store", !.answer = cves, !.answered = 0]
    <2>2. new \in Scan /\ LocatedScan(new)
      BY <1>0, <1>8 DEF Scan, LocatedScan, Answer
    <2> HIDE DEF new
    <2>3. scan' \in [Scans -> Scan] /\ Located'
      BY <2>1, <2>2, ScanMoves DEF new
    <2> QED
      BY <1>8, <2>3 DEF Answer, TypeOK
  <1>9. CASE Outage(s)
    <2> DEFINE cves == IF scan[s].row = None THEN {} ELSE scan[s].row
    <2>1. cves \in SUBSET Cves
      BY <1>0 DEF Scan
    <2> HIDE DEF cves
    <2>2. scan' \in [Scans -> Scan] /\ Located'
      BY <1>9, <2>1, SearchedType, ScanMoves DEF Outage, cves
    <2> QED
      BY <1>9, <2>2 DEF Outage, TypeOK
  <1>10. CASE Store(s)
    <2> DEFINE new == [Searched(s, scan[s].answer) EXCEPT !.pending = {}]
    <2>1. Searched(s, scan[s].answer) \in Scan /\ LocatedScan(Searched(s, scan[s].answer))
      BY <1>0, <1>10, SearchedType DEF Store, Scan
    <2>2. new \in Scan /\ LocatedScan(new)
      BY <2>1 DEF Scan, LocatedScan
    <2> HIDE DEF new
    <2>3. scan' \in [Scans -> Scan] /\ Located'
      BY <1>10, <2>2, ScanMoves DEF new, Store
    <2>4. findings' \in [Devices -> [Keys -> Nat]]
      BY <1>10, CommitType DEF Store
    <2>5. cache' \in [Keywords -> CacheRow \cup {None}]
      <3> DEFINE k == scan[s].keyword
      <3>1. Written(s) \in CacheRow
        BY <1>0 DEF Scan, CacheRow, Written
      <3>2. ASSUME NEW row \in CacheRow
            PROVE  Dated(s, row) \in CacheRow
        BY <1>0 DEF Scan, CacheRow, Dated
      <3>3. \/ cache' = [cache EXCEPT ![k] = Written(s)]
            \/ cache[k] # None /\ cache' = [cache EXCEPT ![k] = Dated(s, cache[k])]
        BY <1>10 DEF Store
      <3>4. k \in Keywords => cache[k] = None \/ cache[k] \in CacheRow
        BY DEF TypeOK
      <3>5. \A row : row \in CacheRow \/ k \notin Keywords
               => [cache EXCEPT ![k] = row] \in [Keywords -> CacheRow \cup {None}]
        BY DEF TypeOK
      <3> HIDE DEF k
      <3> QED
        BY <3>1, <3>2, <3>3, <3>4, <3>5
    <2> QED
      BY <1>10, <2>3, <2>4, <2>5 DEF Store, TypeOK
  <1>11. CASE StoreFails(s)
    <2> DEFINE new == [Searched(s, scan[s].answer) EXCEPT !.pending = {}, !.broken = TRUE]
    <2>1. Searched(s, scan[s].answer) \in Scan /\ LocatedScan(Searched(s, scan[s].answer))
      BY <1>0, <1>11, SearchedType DEF StoreFails, Scan
    <2>2. Searched(s, scan[s].answer).pc = "persist"
      BY <1>0 DEF Searched, Scan
    <2>3. new \in Scan /\ LocatedScan(new)
      BY <2>1, <2>2 DEF Scan, LocatedScan
    <2> HIDE DEF new
    <2>4. scan' \in [Scans -> Scan] /\ Located'
      BY <1>11, <2>3, ScanMoves DEF new, StoreFails
    <2> QED
      BY <1>11, <2>4 DEF StoreFails, TypeOK
  <1> QED
    BY <1>1, <1>2, <1>3, <1>4, <1>5, <1>6, <1>7, <1>8, <1>9, <1>10, <1>11 DEF Step

\* Where a scan has `now` and waits for the limiter, the network or its turn.
Waiting == {"enter", "sleep", "call", "store"}

LEMMA AgedType ==
    ASSUME NEW sc \in Scan, LocatedScan(sc)
    PROVE  /\ AgedScan(sc) \in Scan /\ LocatedScan(AgedScan(sc))
           /\ \A f \in {"pc", "device", "pending", "found", "broken", "keyword", "row"} :
                 AgedScan(sc)[f] = sc[f]
           /\ AgedScan(sc).sleep = IF sc.sleep = 0 THEN 0 ELSE sc.sleep - 1
           /\ sc.pc \in Waiting => AgedScan(sc).asked = Older(sc.asked, Ttl)
           /\ sc.pc = "store" => AgedScan(sc).answered = Older(sc.answered, Ttl)
  <1> DEFINE sleep == IF sc.sleep = 0 THEN 0 ELSE sc.sleep - 1
             asked == IF sc.pc \in Waiting THEN Older(sc.asked, Ttl) ELSE sc.asked
             answered == IF sc.pc = "store" THEN Older(sc.answered, Ttl) ELSE sc.answered
  <1>1. sleep \in 0 .. Interval /\ asked \in 0 .. Ttl /\ answered \in 0 .. Ttl
    BY TimeAssumption DEF Scan, Older
  <1>2. AgedScan(sc) = [sc EXCEPT !.sleep = sleep, !.asked = asked, !.answered = answered]
    BY DEF AgedScan, Waiting
  <1>3. /\ sc.pc \in Waiting => asked = Older(sc.asked, Ttl)
        /\ sc.pc = "store" => answered = Older(sc.answered, Ttl)
    OBVIOUS
  <1> HIDE DEF asked, answered
  <1>4. /\ AgedScan(sc).sleep = sleep
        /\ AgedScan(sc).asked = asked /\ AgedScan(sc).answered = answered
    BY <1>2 DEF Scan
  <1>5. \A f \in {"pc", "device", "pending", "found", "broken", "keyword", "row"} :
           AgedScan(sc)[f] = sc[f]
    BY <1>2 DEF Scan
  <1>6. AgedScan(sc).sleep = IF sc.sleep = 0 THEN 0 ELSE sc.sleep - 1
    BY <1>4
  <1> HIDE DEF sleep
  <1>7. AgedScan(sc) \in Scan
    BY <1>1, <1>2 DEF Scan
  <1>8. LocatedScan(AgedScan(sc))
    BY <1>5 DEF LocatedScan
  <1> QED
    BY <1>3, <1>4, <1>5, <1>6, <1>7, <1>8

LEMMA TickType ==
    ASSUME TypeOK, Located, Tick
    PROVE  TypeOK' /\ Located'
  <1>1. limiter' \in [holder : Scans \cup {None}, elapsed : 0 .. Interval]
    <2>1. Older(limiter.elapsed, Interval) \in 0 .. Interval
      BY TimeAssumption, OlderType DEF TypeOK
    <2> QED
      BY <2>1 DEF Tick, TypeOK
  <1>2. calls' \in [1 .. Cap + 1 -> 0 .. Window]
    <2>1. \A i \in 1 .. Cap + 1 : Older(calls[i], Window) \in 0 .. Window
      BY TimeAssumption, OlderType DEF TypeOK
    <2> QED
      BY <2>1 DEF Tick
  <1>3. cache' \in [Keywords -> CacheRow \cup {None}]
    <2>1. ASSUME NEW row \in CacheRow
          PROVE  [row EXCEPT !.fetched = Older(@, Ttl), !.answered = Older(@, Ttl),
                             !.written = Older(@, Ttl)] \in CacheRow
      <3>1. /\ Older(row.fetched, Ttl) \in 0 .. Ttl /\ Older(row.answered, Ttl) \in 0 .. Ttl
            /\ Older(row.written, Ttl) \in 0 .. Ttl
        BY TimeAssumption, OlderType DEF CacheRow
      <3> QED
        BY <3>1 DEF CacheRow
    <2> QED
      BY <2>1 DEF Tick, TypeOK
  <1>4. \A s \in Scans : scan[s] \in Scan /\ LocatedScan(scan[s])
    BY DEF TypeOK, Located, LocatedScan
  <1>5. \A s \in Scans : AgedScan(scan[s]) \in Scan /\ LocatedScan(AgedScan(scan[s]))
    BY <1>4, AgedType
  <1>6. scan' \in [Scans -> Scan] /\ Located'
    BY <1>5 DEF Tick, Located, LocatedScan
  <1> QED
    BY <1>1, <1>2, <1>3, <1>6 DEF Tick, TypeOK

LEMMA TypeInductive ==
    /\ Init => TypeOK /\ Located
    /\ TypeOK /\ Located /\ [Next]_vars => TypeOK' /\ Located'
  <1>1. Init => TypeOK /\ Located
    <2> SUFFICES ASSUME Init
                 PROVE  TypeOK /\ Located
      OBVIOUS
    <2>1. NoCalls \in [1 .. Cap + 1 -> 0 .. Window] /\ Interval \in 0 .. Interval
      BY TimeAssumption DEF NoCalls
    <2>2. TypeOK
      BY <2>1, IdleType DEF Init, TypeOK
    <2>3. Located
      BY DEF Init, Located, Idle
    <2> QED
      BY <2>2, <2>3
  <1>2. ASSUME TypeOK, Located, [Next]_vars
        PROVE  TypeOK' /\ Located'
    <2>1. ASSUME NEW s \in Scans, NEW r \in Requests, Request(s, r[1], r[2])
          PROVE  TypeOK' /\ Located'
      <3> DEFINE new == [Idle EXCEPT !.pc = "device", !.queue = r[1], !.nvd = r[2]]
      <3>1. r[1] \in SUBSET Devices /\ r[2] \in BOOLEAN
        BY RequestsAssumption
      <3>2. new \in Scan
        BY <3>1, IdleType DEF Scan
      <3>3. LocatedScan(new)
        BY DEF LocatedScan, Idle
      <3> HIDE DEF new
      <3>4. scan' \in [Scans -> Scan] /\ Located'
        BY <1>2, <2>1, <3>2, <3>3, ScanMoves DEF Request, new
      <3> QED
        BY <1>2, <2>1, <3>4 DEF Request, TypeOK
    <2>2. ASSUME NEW s \in Scans, Step(s) \/ EnterLimiter(s)
          PROVE  TypeOK' /\ Located'
      BY <1>2, <2>2, StepType
    <2>3. ASSUME NEW s \in Scans, DatabaseFails(s)
          PROVE  TypeOK' /\ Located'
      <3>1. LocatedScan(Idle)
        BY DEF LocatedScan, Idle
      <3>2. scan' \in [Scans -> Scan] /\ Located'
        BY <1>2, <2>3, <3>1, IdleType, ScanMoves DEF DatabaseFails
      <3> QED
        BY <1>2, <2>3, <3>2 DEF DatabaseFails, TypeOK
    <2>4. CASE Restart
      <3>1. NoCalls \in [1 .. Cap + 1 -> 0 .. Window] /\ Interval \in 0 .. Interval
        BY TimeAssumption DEF NoCalls
      <3>2. scan' \in [Scans -> Scan] /\ Located'
        BY <2>4, IdleType DEF Restart, Located, Idle
      <3> QED
        BY <1>2, <2>4, <3>1, <3>2 DEF Restart, TypeOK
    <2>5. CASE Tick
      BY <1>2, <2>5, TickType
    <2>6. CASE UNCHANGED vars
      BY <1>2, <2>6 DEF vars, TypeOK, Located
    <2> QED
      BY <1>2, <2>1, <2>2, <2>3, <2>4, <2>5, <2>6 DEF Next
  <1> QED
    BY <1>1, <1>2

\* Every reachable state has the types that engine.py and nvd_client.py rely on.
THEOREM TypeCorrect == Spec => []TypeOK
  <1>1. Spec => [](TypeOK /\ Located)
    BY TypeInductive, PTL DEF Spec
  <1> QED
    BY <1>1, PTL

-----------------------------------------------------------------------------
(***************************************************************************)
(* No finding has more rows than scans that may race for it: counting the  *)
(* committed rows of a finding and the scans that have one pending, the    *)
(* sum never exceeds the number of scans.                                  *)
(***************************************************************************)
Pending(d, k) == {s \in Scans : scan[s].device = d /\ k \in scan[s].pending}

RowsAreBounded ==
    \A d \in Devices, k \in Keys :
        findings[d][k] + Cardinality(Pending(d, k)) <= Cardinality(Scans)

LEMMA PendingIsFinite ==
    ASSUME NEW d, NEW k
    PROVE  /\ IsFiniteSet(Pending(d, k)) /\ Cardinality(Pending(d, k)) \in Nat
           /\ Cardinality(Scans) \in Nat
           /\ Cardinality(Pending(d, k)) <= Cardinality(Scans)
  <1>1. Pending(d, k) \subseteq Scans
    BY DEF Pending
  <1> QED
    BY <1>1, ScansAssumption, FS_Subset, FS_CardinalityType

\* A step that commits nothing and flushes nothing.
LEMMA NothingFlushed ==
    ASSUME TypeOK, TypeOK', RowsAreBounded, UNCHANGED findings,
           \A s \in Scans : \/ scan'[s].pending = {}
                            \/ /\ scan'[s].pending = scan[s].pending
                               /\ scan'[s].device = scan[s].device
    PROVE  RowsAreBounded'
  <1> SUFFICES ASSUME NEW d \in Devices, NEW k \in Keys
               PROVE  findings'[d][k] + Cardinality(Pending(d, k)') <= Cardinality(Scans)
    BY DEF RowsAreBounded
  <1>1. Pending(d, k)' \subseteq Pending(d, k)
    BY DEF Pending
  <1>2. /\ Cardinality(Pending(d, k)') \in Nat
        /\ Cardinality(Pending(d, k)') <= Cardinality(Pending(d, k))
    BY <1>1, PendingIsFinite, FS_Subset, FS_CardinalityType
  <1>3. findings[d][k] + Cardinality(Pending(d, k)) <= Cardinality(Scans)
    BY DEF RowsAreBounded
  <1>4. findings[d][k] \in Nat /\ Cardinality(Pending(d, k)) \in Nat
    BY PendingIsFinite DEF TypeOK
  <1> QED
    BY <1>2, <1>3, <1>4, PendingIsFinite

\* A commit turns the scan's pending rows into committed ones.
LEMMA CommitKeepsTheSum ==
    ASSUME TypeOK, TypeOK', RowsAreBounded, NEW s \in Scans, Commit(s),
           scan'[s].pending = {}, \A r \in Scans \ {s} : scan'[r] = scan[r]
    PROVE  RowsAreBounded'
  <1> SUFFICES ASSUME NEW d \in Devices, NEW k \in Keys
               PROVE  findings'[d][k] + Cardinality(Pending(d, k)') <= Cardinality(Scans)
    BY DEF RowsAreBounded
  <1>1. findings[d][k] + Cardinality(Pending(d, k)) <= Cardinality(Scans)
    BY DEF RowsAreBounded
  <1>2. findings[d][k] \in Nat /\ Cardinality(Pending(d, k)) \in Nat /\ Cardinality(Scans) \in Nat
    BY PendingIsFinite DEF TypeOK
  <1>3. Pending(d, k)' = Pending(d, k) \ {s}
    BY DEF Pending
  <1>4. Cardinality(Pending(d, k)') =
           IF s \in Pending(d, k) THEN Cardinality(Pending(d, k)) - 1
           ELSE Cardinality(Pending(d, k))
    BY <1>3, PendingIsFinite, FS_RemoveElement
  <1>5. findings'[d][k] = IF s \in Pending(d, k) THEN findings[d][k] + 1 ELSE findings[d][k]
    BY CommitType DEF Pending
  <1> QED
    BY <1>1, <1>2, <1>4, <1>5

\* A scan flushes a row only where it has seen none, and then there is none.
LEMMA FlushKeepsTheBound ==
    ASSUME TypeOK, TypeOK', Located, RowsAreBounded,
           NEW s \in Scans, NEW k \in Keys, PersistFinding(s, k)
    PROVE  RowsAreBounded'
  <1>1. /\ scan[s].pc = "persist" /\ scan[s].device \in Devices /\ UNCHANGED findings
        /\ findings[scan[s].device][k] \in Nat
    BY DEF PersistFinding, Located, TypeOK
  <1> DEFINE new == [scan[s] EXCEPT
           !.results = @ \ {k},
           !.pending = IF RowsSeen(s, k) = 0 THEN @ \cup {k} ELSE @,
           !.found = @ \cup {<<scan[s].device, k>>}]
  <1>2. /\ scan'[s] = new
        /\ \A r \in Scans \ {s} : scan'[r] = scan[r]
    BY DEF PersistFinding, Update, TypeOK
  <1>3. /\ scan'[s].device = scan[s].device
        /\ scan'[s].pending = IF RowsSeen(s, k) = 0 THEN scan[s].pending \cup {k}
                              ELSE scan[s].pending
    BY <1>2 DEF TypeOK, Scan
  <1> SUFFICES ASSUME NEW d \in Devices, NEW j \in Keys
               PROVE  findings'[d][j] + Cardinality(Pending(d, j)') <= Cardinality(Scans)
    BY DEF RowsAreBounded
  <1>4. /\ findings[d][j] + Cardinality(Pending(d, j)) <= Cardinality(Scans)
        /\ findings[d][j] \in Nat /\ Cardinality(Pending(d, j)) \in Nat
    BY PendingIsFinite DEF RowsAreBounded, TypeOK
  <1>5. CASE d = scan[s].device /\ j = k /\ RowsSeen(s, k) = 0
    <2>1. findings[d][j] = 0
      BY <1>1, <1>5 DEF RowsSeen
    <2>2. /\ Cardinality(Pending(d, j)') \in Nat
          /\ Cardinality(Pending(d, j)') <= Cardinality(Scans)
      <3>1. Pending(d, j)' \subseteq Scans
        BY DEF Pending
      <3> QED
        BY <3>1, ScansAssumption, FS_Subset, FS_CardinalityType
    <2> QED
      BY <1>1, <2>1, <2>2, PendingIsFinite
  <1>6. CASE ~(d = scan[s].device /\ j = k /\ RowsSeen(s, k) = 0)
    <2>1. Pending(d, j)' = Pending(d, j)
      BY <1>2, <1>3, <1>6 DEF Pending
    <2> QED
      BY <1>1, <1>4, <2>1
  <1> QED
    BY <1>5, <1>6

\* What an action that neither flushes nor commits leaves of a scan.
LEMMA OneScanMoves ==
    ASSUME TypeOK, NEW s \in Scans, NEW new, Update(s, new),
           new.pending = {} \/ (new.pending = scan[s].pending /\ new.device = scan[s].device)
    PROVE  \A r \in Scans : \/ scan'[r].pending = {}
                            \/ /\ scan'[r].pending = scan[r].pending
                               /\ scan'[r].device = scan[r].device
  BY DEF TypeOK, Update

LEMMA RowsStep ==
    ASSUME TypeOK, Located, TypeOK', RowsAreBounded, NEW s \in Scans,
           Step(s) \/ EnterLimiter(s) \/ DatabaseFails(s)
    PROVE  RowsAreBounded'
  <1>0. scan[s] \in Scan
    BY DEF TypeOK
  <1>1. CASE PickDevice(s)
    <2>1. PICK d \in scan[s].queue :
             Update(s, [scan[s] EXCEPT
              !.pc = "persist", !.queue = @ \ {d}, !.device = d,
              !.results = FiringRules(Services[d], Os[d]),
              !.keywords = IF scan[s].nvd THEN BannerKeywords(Services[d]) ELSE {}])
      BY <1>1 DEF PickDevice
    <2> DEFINE new == [scan[s] EXCEPT
              !.pc = "persist", !.queue = @ \ {d}, !.device = d,
              !.results = FiringRules(Services[d], Os[d]),
              !.keywords = IF scan[s].nvd THEN BannerKeywords(Services[d]) ELSE {}]
    <2>2. new.pending = {}
      BY <1>0, <1>1 DEF PickDevice, Located, Scan
    <2> HIDE DEF new
    <2>3. \A r \in Scans : \/ scan'[r].pending = {}
                           \/ /\ scan'[r].pending = scan[r].pending
                              /\ scan'[r].device = scan[r].device
      BY <2>1, <2>2, OneScanMoves DEF new
    <2> QED
      BY <1>1, <2>3, NothingFlushed DEF PickDevice
  <1>2. ASSUME NEW k \in Keys, PersistFinding(s, k)
        PROVE  RowsAreBounded'
    BY <1>2, FlushKeepsTheBound
  <1>3. CASE Raise(s) \/ DatabaseFails(s)
    <2>1. Idle.pending = {}
      BY DEF Idle
    <2>2. \A r \in Scans : \/ scan'[r].pending = {}
                           \/ /\ scan'[r].pending = scan[r].pending
                              /\ scan'[r].device = scan[r].device
      BY <1>3, <2>1, OneScanMoves DEF Raise, DatabaseFails
    <2> QED
      BY <1>3, <2>2, NothingFlushed DEF Raise, DatabaseFails
  <1>4. CASE CommitDevice(s)
    <2>1. scan'[s].pending = {} /\ \A r \in Scans \ {s} : scan'[r] = scan[r]
      BY <1>4 DEF CommitDevice, Update, TypeOK, Idle
    <2> QED
      BY <1>4, <2>1, CommitKeepsTheSum DEF CommitDevice
  <1>5. ASSUME NEW k \in Keywords, LookUpCache(s, k)
        PROVE  RowsAreBounded'
    <2> DEFINE fresh == [scan[s] EXCEPT !.keywords = @ \ {k}, !.results = cache[k].cves]
               ask == [scan[s] EXCEPT !.keywords = @ \ {k}, !.keyword = k, !.pc = "enter",
                                !.asked = 0,
                                !.row = IF cache[k] = None THEN None ELSE cache[k].cves]
    <2>1. /\ fresh.pending = scan[s].pending /\ fresh.device = scan[s].device
          /\ ask.pending = scan[s].pending /\ ask.device = scan[s].device
      BY <1>0 DEF Scan
    <2> HIDE DEF fresh, ask
    <2>2. Update(s, fresh) \/ Update(s, ask)
      BY <1>5 DEF LookUpCache, fresh, ask
    <2>3. \A r \in Scans : \/ scan'[r].pending = {}
                           \/ /\ scan'[r].pending = scan[r].pending
                              /\ scan'[r].device = scan[r].device
      BY <2>1, <2>2, OneScanMoves
    <2> QED
      BY <1>5, <2>3, NothingFlushed DEF LookUpCache
  <1>6. CASE EnterLimiter(s) \/ LeaveLimiter(s) \/ Answer(s) \/ Outage(s)
    <2> DEFINE answered(cves) == [scan[s] EXCEPT !.pc = "store", !.answer = cves, !.answered = 0]
               called == [scan[s] EXCEPT !.pc = "call"]
               sleeping(n) == [scan[s] EXCEPT !.pc = "sleep", !.sleep = n]
    <2>1. \A x : /\ answered(x).pending = scan[s].pending /\ answered(x).device = scan[s].device
                 /\ sleeping(x).pending = scan[s].pending /\ sleeping(x).device = scan[s].device
                 /\ Searched(s, x).pending = scan[s].pending
                 /\ Searched(s, x).device = scan[s].device
      BY <1>0 DEF Searched, Scan
    <2>2. called.pending = scan[s].pending /\ called.device = scan[s].device
      BY <1>0 DEF Scan
    <2>3. \/ \E x : Update(s, answered(x)) \/ Update(s, sleeping(x)) \/ Update(s, Searched(s, x))
          \/ Update(s, called)
      BY <1>6 DEF EnterLimiter, LeaveLimiter, Answer, Outage
    <2> HIDE DEF answered, called, sleeping
    <2>4. \A r \in Scans : \/ scan'[r].pending = {}
                           \/ /\ scan'[r].pending = scan[r].pending
                              /\ scan'[r].device = scan[r].device
      BY <2>1, <2>2, <2>3, OneScanMoves
    <2> QED
      BY <1>6, <2>4, NothingFlushed DEF EnterLimiter, LeaveLimiter, Answer, Outage
  <1>7. CASE Store(s)
    <2>1. scan'[s].pending = {} /\ \A r \in Scans \ {s} : scan'[r] = scan[r]
      BY <1>0, <1>7 DEF Store, Update, TypeOK, Searched, Scan
    <2> QED
      BY <1>7, <2>1, CommitKeepsTheSum DEF Store
  <1>8. CASE StoreFails(s)
    <2> DEFINE new == [Searched(s, scan[s].answer) EXCEPT !.pending = {}, !.broken = TRUE]
    <2>1. new.pending = {}
      BY <1>0 DEF Searched, Scan
    <2> HIDE DEF new
    <2>2. \A r \in Scans : \/ scan'[r].pending = {}
                           \/ /\ scan'[r].pending = scan[r].pending
                              /\ scan'[r].device = scan[r].device
      BY <1>8, <2>1, OneScanMoves DEF StoreFails, new
    <2> QED
      BY <1>8, <2>2, NothingFlushed DEF StoreFails
  <1> QED
    BY <1>1, <1>2, <1>3, <1>4, <1>5, <1>6, <1>7, <1>8 DEF Step

\* One scan at a time never leaves two rows of a finding, and n of them at
\* most n: the SELECT of _persist_finding (engine.py) makes up for the unique
\* constraint that NULLs disable, but for the scans that race.
THEOREM RacesAreBounded == Spec => []OnlyRacesDuplicate
  <1>1. Init => RowsAreBounded
    <2> SUFFICES ASSUME Init, NEW d \in Devices, NEW k \in Keys
                 PROVE  findings[d][k] + Cardinality(Pending(d, k)) <= Cardinality(Scans)
      BY DEF RowsAreBounded
    <2>1. findings[d][k] = 0
      BY DEF Init
    <2> QED
      BY <2>1, PendingIsFinite
  <1>2. TypeOK /\ Located /\ TypeOK' /\ RowsAreBounded /\ [Next]_vars => RowsAreBounded'
    <2> SUFFICES ASSUME TypeOK, Located, TypeOK', RowsAreBounded, [Next]_vars
                 PROVE  RowsAreBounded'
      OBVIOUS
    <2>1. ASSUME NEW s \in Scans, NEW r \in Requests, Request(s, r[1], r[2])
          PROVE  RowsAreBounded'
      <3> DEFINE new == [Idle EXCEPT !.pc = "device", !.queue = r[1], !.nvd = r[2]]
      <3>1. new.pending = {}
        BY DEF Idle
      <3> HIDE DEF new
      <3>2. \A q \in Scans : \/ scan'[q].pending = {}
                             \/ /\ scan'[q].pending = scan[q].pending
                                /\ scan'[q].device = scan[q].device
        BY <2>1, <3>1, OneScanMoves DEF Request, new
      <3> QED
        BY <2>1, <3>2, NothingFlushed DEF Request
    <2>2. ASSUME NEW s \in Scans, Step(s) \/ EnterLimiter(s) \/ DatabaseFails(s)
          PROVE  RowsAreBounded'
      BY <2>2, RowsStep
    <2>3. CASE Restart
      <3>1. \A q \in Scans : scan'[q].pending = {}
        BY <2>3 DEF Restart, Idle
      <3> QED
        BY <2>3, <3>1, NothingFlushed DEF Restart
    <2>4. CASE Tick
      <3>1. \A q \in Scans : scan'[q].pending = scan[q].pending /\ scan'[q].device = scan[q].device
        BY <2>4, AgedType DEF Tick, TypeOK, Located, LocatedScan
      <3> QED
        BY <2>4, <3>1, NothingFlushed DEF Tick
    <2>5. CASE UNCHANGED vars
      BY <2>5, NothingFlushed DEF vars
    <2> QED
      BY <2>1, <2>2, <2>3, <2>4, <2>5 DEF Next
  <1>3. TypeOK /\ RowsAreBounded => OnlyRacesDuplicate
    <2> SUFFICES ASSUME TypeOK, RowsAreBounded, NEW d \in Devices, NEW k \in Keys
                 PROVE  findings[d][k] <= Cardinality(Scans)
      BY DEF OnlyRacesDuplicate
    <2>1. findings[d][k] + Cardinality(Pending(d, k)) <= Cardinality(Scans)
      BY DEF RowsAreBounded
    <2> QED
      BY <2>1, PendingIsFinite DEF TypeOK
  <1> QED
    BY <1>1, <1>2, <1>3, TypeInductive, PTL DEF Spec

-----------------------------------------------------------------------------
(***************************************************************************)
(* What an unbroken scan will report is committed, or pending with it.     *)
(***************************************************************************)
Stored(f) == findings[f[1]][f[2]] > 0

Backed(sc, table) ==
    \/ sc.broken
    \/ \A f \in sc.found : table[f[1]][f[2]] > 0 \/ (f[1] = sc.device /\ f[2] \in sc.pending)

FoundIsBacked == \A s \in Scans : Backed(scan[s], findings)

\* Rows are never deleted by a scan.
LEMMA RowsStay ==
    ASSUME TypeOK, Located, [Next]_vars
    PROVE  \A f \in Devices \X Keys : Stored(f) => Stored(f)'
  <1>1. \/ UNCHANGED findings
        \/ \E s \in Scans : Commit(s)
    BY DEF Next, Step, Request, PickDevice, PersistFinding, Raise, CommitDevice, LookUpCache,
           EnterLimiter, LeaveLimiter, Answer, Outage, Store, StoreFails, DatabaseFails,
           Restart, Tick, vars
  <1>2. ASSUME NEW s \in Scans, Commit(s), NEW f \in Devices \X Keys, Stored(f)
        PROVE  Stored(f)'
    <2>1. f[1] \in Devices /\ f[2] \in Keys /\ findings[f[1]][f[2]] \in Nat
      BY DEF TypeOK
    <2> QED
      BY <1>2, <2>1, CommitType DEF Stored
  <1> QED
    BY <1>1, <1>2 DEF Stored

\* A step that takes over what the scan has found and has pending, or drops
\* what it has found, or breaks it.
LEMMA BackedStays ==
    ASSUME TypeOK, Located, [Next]_vars, FoundIsBacked, NEW s \in Scans, NEW new,
           \/ new.broken
           \/ new.found = {}
           \/ /\ new.found = scan[s].found /\ new.device = scan[s].device
              /\ new.pending = scan[s].pending /\ new.broken = scan[s].broken
    PROVE  Backed(new, findings')
  <1>1. \A f \in scan[s].found : f \in Devices \X Keys
    BY DEF TypeOK, Scan
  <1>2. Backed(scan[s], findings)
    BY DEF FoundIsBacked
  <1>3. \A f \in scan[s].found : Stored(f) => Stored(f)'
    BY <1>1, RowsStay
  <1> QED
    BY <1>2, <1>3 DEF Backed, Stored

\* The commit stores what was pending.
LEMMA CommitStores ==
    ASSUME TypeOK, Located, [Next]_vars, FoundIsBacked, NEW s \in Scans, Commit(s),
           ~scan[s].broken, NEW new, new.found = scan[s].found
    PROVE  Backed(new, findings')
  <1> SUFFICES ASSUME NEW f \in scan[s].found
               PROVE  Stored(f)'
    BY DEF Backed, Stored
  <1>1. f \in Devices \X Keys /\ f[1] \in Devices /\ f[2] \in Keys /\ findings[f[1]][f[2]] \in Nat
    BY DEF TypeOK, Scan
  <1>2. CASE Stored(f)
    BY <1>1, <1>2, RowsStay
  <1>3. CASE f[1] = scan[s].device /\ f[2] \in scan[s].pending
    BY <1>1, <1>3, CommitType DEF Stored
  <1>4. Stored(f) \/ (f[1] = scan[s].device /\ f[2] \in scan[s].pending)
    BY DEF FoundIsBacked, Backed, Stored
  <1> QED
    BY <1>2, <1>3, <1>4

LEMMA BackedStep ==
    ASSUME TypeOK, Located, [Next]_vars, FoundIsBacked, NEW s \in Scans,
           Step(s) \/ EnterLimiter(s)
    PROVE  Backed(scan'[s], findings')
  <1>0. scan[s] \in Scan
    BY DEF TypeOK
  <1>1. CASE PickDevice(s)
    <2>1. ~scan[s].broken /\ scan[s].pending = {}
      BY <1>1 DEF PickDevice, Located
    <2>2. scan'[s].found = scan[s].found
      BY <1>0, <1>1 DEF PickDevice, Update, TypeOK, Scan
    <2>3. \A f \in scan[s].found : f \in Devices \X Keys /\ Stored(f)
      BY <1>0, <2>1 DEF FoundIsBacked, Backed, Stored, Scan
    <2> QED
      BY <2>2, <2>3, RowsStay DEF Backed, Stored
  <1>2. ASSUME NEW k \in Keys, PersistFinding(s, k)
        PROVE  Backed(scan'[s], findings')
    <2> DEFINE d == scan[s].device
    <2>1. /\ scan'[s].found = scan[s].found \cup {<<d, k>>} /\ scan'[s].device = d
          /\ scan'[s].pending = IF RowsSeen(s, k) = 0 THEN scan[s].pending \cup {k}
                                ELSE scan[s].pending
          /\ ~scan[s].broken /\ d \in Devices /\ UNCHANGED findings
      BY <1>0, <1>2 DEF PersistFinding, Update, TypeOK, Scan, Located
    <2>2. RowsSeen(s, k) # 0 => findings[d][k] > 0 \/ k \in scan[s].pending
      BY <2>1 DEF RowsSeen, TypeOK
    <2>3. \A f \in scan[s].found : Stored(f) \/ (f[1] = d /\ f[2] \in scan[s].pending)
      BY <2>1 DEF FoundIsBacked, Backed, Stored
    <2>4. \A f \in scan'[s].found : Stored(f) \/ (f[1] = d /\ f[2] \in scan'[s].pending)
      BY <2>1, <2>2, <2>3 DEF Stored
    <2> QED
      BY <2>1, <2>4 DEF Backed, Stored
  <1>3. CASE Raise(s)
    <2>1. scan'[s].found = {}
      BY <1>3 DEF Raise, Update, TypeOK, Idle
    <2> QED
      BY <2>1, BackedStays
  <1>4. CASE CommitDevice(s)
    <2>1. scan'[s].found = scan[s].found /\ ~scan[s].broken /\ Commit(s)
      BY <1>4 DEF CommitDevice, Update, TypeOK, Idle
    <2> QED
      BY <2>1, CommitStores
  <1>5. ASSUME NEW k \in Keywords, LookUpCache(s, k)
        PROVE  Backed(scan'[s], findings')
    <2>1. /\ scan'[s].found = scan[s].found /\ scan'[s].device = scan[s].device
          /\ scan'[s].pending = scan[s].pending /\ scan'[s].broken = scan[s].broken
      BY <1>0, <1>5 DEF LookUpCache, Update, TypeOK, Scan
    <2> QED
      BY <2>1, BackedStays
  <1>6. CASE EnterLimiter(s) \/ LeaveLimiter(s) \/ Answer(s) \/ Outage(s)
    <2> DEFINE answered(cves) == [scan[s] EXCEPT !.pc = "store", !.answer = cves, !.answered = 0]
               called == [scan[s] EXCEPT !.pc = "call"]
               sleeping(n) == [scan[s] EXCEPT !.pc = "sleep", !.sleep = n]
               Same(new) == /\ new.found = scan[s].found /\ new.device = scan[s].device
                            /\ new.pending = scan[s].pending /\ new.broken = scan[s].broken
    <2>1. /\ \A x : Same(answered(x)) /\ Same(sleeping(x)) /\ Same(Searched(s, x))
          /\ Same(called)
      BY <1>0 DEF Searched, Scan
    <2>2. \/ \E x : Update(s, answered(x)) \/ Update(s, sleeping(x)) \/ Update(s, Searched(s, x))
          \/ Update(s, called)
      BY <1>6 DEF EnterLimiter, LeaveLimiter, Answer, Outage
    <2> HIDE DEF answered, called, sleeping
    <2>3. Same(scan'[s])
      BY <2>1, <2>2 DEF Update, TypeOK
    <2> QED
      BY <2>3, BackedStays
  <1>7. CASE Store(s)
    <2>1. scan'[s].found = scan[s].found /\ ~scan[s].broken /\ Commit(s)
      BY <1>0, <1>7 DEF Store, Update, TypeOK, Searched, Scan, Located
    <2> QED
      BY <2>1, CommitStores
  <1>8. CASE StoreFails(s)
    <2>1. scan'[s].broken
      BY <1>0, <1>8 DEF StoreFails, Update, TypeOK, Searched, Scan
    <2> QED
      BY <2>1, BackedStays
  <1> QED
    BY <1>1, <1>2, <1>3, <1>4, <1>5, <1>6, <1>7, <1>8 DEF Step

LEMMA BackedInductive ==
    ASSUME TypeOK, Located, [Next]_vars, FoundIsBacked
    PROVE  FoundIsBacked'
  <1>1. ASSUME NEW r \in Scans, scan'[r] = scan[r]
        PROVE  Backed(scan'[r], findings')
    BY <1>1, BackedStays
  <1>2. ASSUME NEW r \in Scans, scan'[r].found = {}
        PROVE  Backed(scan'[r], findings')
    BY <1>2, BackedStays
  <1> SUFFICES ASSUME NEW r \in Scans
               PROVE  Backed(scan'[r], findings')
    BY DEF FoundIsBacked
  <1>3. ASSUME NEW s \in Scans, Step(s) \/ EnterLimiter(s)
        PROVE  Backed(scan'[r], findings')
    <2>1. r # s => scan'[r] = scan[r]
      BY <1>3 DEF Step, PickDevice, PersistFinding, Raise, CommitDevice, LookUpCache,
           EnterLimiter, LeaveLimiter, Answer, Outage, Store, StoreFails, Update, TypeOK
    <2> QED
      BY <1>1, <1>3, <2>1, BackedStep
  <1>4. ASSUME NEW s \in Scans, DatabaseFails(s) \/ \E q \in Requests : Request(s, q[1], q[2])
        PROVE  Backed(scan'[r], findings')
    <2> DEFINE new(q) == [Idle EXCEPT !.pc = "device", !.queue = q[1], !.nvd = q[2]]
    <2>1. Idle.found = {} /\ \A q : new(q).found = {}
      BY DEF Idle
    <2>2. \/ Update(s, Idle)
          \/ \E q : Update(s, new(q))
      BY <1>4 DEF DatabaseFails, Request
    <2> HIDE DEF new
    <2>3. scan'[r] = scan[r] \/ scan'[r].found = {}
      BY <2>1, <2>2 DEF Update, TypeOK
    <2> QED
      BY <1>1, <1>2, <2>3
  <1>5. CASE Restart
    BY <1>2, <1>5 DEF Restart, Idle
  <1>6. CASE Tick
    <2>1. scan[r] \in Scan /\ LocatedScan(scan[r]) /\ scan'[r] = AgedScan(scan[r])
      BY <1>6 DEF Tick, TypeOK, Located, LocatedScan
    <2>2. \A f \in {"pc", "device", "pending", "found", "broken"} : scan'[r][f] = scan[r][f]
      BY <2>1, AgedType
    <2> QED
      BY <2>2, BackedStays
  <1>7. CASE UNCHANGED vars
    BY <1>1, <1>7 DEF vars
  <1> QED
    BY <1>3, <1>4, <1>5, <1>6, <1>7 DEF Next

\* Commits come in the middle of a scan and failures of them are swallowed;
\* still every finding POST /scan answers with is in the database.
THEOREM ReportsAreTrue == Spec => []ReportedFindingsAreStored
  <1>1. Init => FoundIsBacked
    BY DEF Init, FoundIsBacked, Backed, Idle
  <1>2. TypeOK /\ Located /\ FoundIsBacked => ReportedFindingsAreStored
    BY DEF Located, FoundIsBacked, Backed, Stored, ReportedFindingsAreStored
  <1> QED
    BY <1>1, <1>2, TypeInductive, BackedInductive, PTL DEF Spec

-----------------------------------------------------------------------------
(***************************************************************************)
(* Freshness: an answer comes after `now` was taken, and a scan that waits *)
(* has loaded what the cache has, unless that was put there since.         *)
(***************************************************************************)
LoadedOrNewer(sc, k, row) ==
    sc.pc \in Waiting /\ sc.keyword = k /\ sc.row # None /\ row # None
        => row.cves = sc.row \/ row.written <= sc.asked

AnsweredOrNewer(row) ==
    row # None => row.answered <= row.fetched \/ row.written <= row.fetched

DatesHold ==
    /\ \A s \in Scans : scan[s].pc = "store" => scan[s].answered <= scan[s].asked
    /\ \A s \in Scans, k \in Keywords : LoadedOrNewer(scan[s], k, cache[k])
    /\ \A k \in Keywords : AnsweredOrNewer(cache[k])

LEMMA OlderIsMonotone ==
    ASSUME NEW limit \in Nat, NEW a \in 0 .. limit, NEW b \in 0 .. limit, a <= b
    PROVE  Older(a, limit) <= Older(b, limit)
  BY DEF Older

\* A step of one scan that leaves the cache alone has that scan to account for.
LEMMA OthersHold ==
    ASSUME DatesHold, NEW s \in Scans, UNCHANGED cache,
           \A q \in Scans \ {s} : scan'[q] = scan[q],
           scan'[s].pc = "store" => scan'[s].answered <= scan'[s].asked,
           \A k \in Keywords : LoadedOrNewer(scan'[s], k, cache[k])
    PROVE  DatesHold'
  <1>1. ASSUME NEW q \in Scans
        PROVE  /\ scan'[q].pc = "store" => scan'[q].answered <= scan'[q].asked
               /\ \A k \in Keywords : LoadedOrNewer(scan'[q], k, cache[k])
    BY DEF DatesHold
  <1> QED
    BY <1>1 DEF DatesHold, LoadedOrNewer, AnsweredOrNewer

\* An INSERT, an UPDATE of both columns or of fetched_at alone.
LEMMA StoreHolds ==
    ASSUME TypeOK, Located, DatesHold, NEW s \in Scans, Store(s)
    PROVE  DatesHold'
  <1>0. scan[s] \in Scan /\ \A q \in Scans : scan[q] \in Scan
    BY DEF TypeOK
  <1>1. /\ scan'[s].pc = "persist"
        /\ \A q \in Scans \ {s} : scan'[q] = scan[q]
    BY <1>0 DEF Store, Update, TypeOK, Searched, Scan
  <1>2. scan[s].pc = "store" /\ scan[s].answered <= scan[s].asked
    BY DEF Store, DatesHold
  <1> DEFINE k == scan[s].keyword
  <1>3. \A q \in Scans : scan'[q].pc = "store" => scan'[q].answered <= scan'[q].asked
    BY <1>1 DEF DatesHold
  <1>4. CASE cache' = [cache EXCEPT ![k] = Written(s)]
    <2>1. /\ \A j \in Keywords \ {k} : cache'[j] = cache[j]
          /\ k \in Keywords => cache'[k] = Written(s)
      BY <1>4 DEF TypeOK
    <2>2. Written(s).written = 0 /\ Written(s).answered <= Written(s).fetched
      BY <1>2 DEF Written
    <2>3. \A j \in Keywords : AnsweredOrNewer(cache'[j])
      BY <2>1, <2>2 DEF DatesHold, AnsweredOrNewer
    <2>4. ASSUME NEW q \in Scans, NEW j \in Keywords
          PROVE  LoadedOrNewer(scan'[q], j, cache'[j])
      <3>1. q = s => scan'[q].pc \notin Waiting
        BY <1>1 DEF Waiting
      <3>2. q # s => 0 <= scan'[q].asked
        BY <1>0, <1>1, TimeAssumption DEF Scan
      <3>3. j # k /\ q # s => LoadedOrNewer(scan'[q], j, cache'[j])
        BY <1>1, <2>1 DEF DatesHold
      <3> QED
        BY <2>1, <2>2, <3>1, <3>2, <3>3 DEF LoadedOrNewer
    <2> QED
      BY <1>3, <2>3, <2>4 DEF DatesHold, LoadedOrNewer, AnsweredOrNewer
  <1>5. CASE /\ cache[k] # None /\ scan[s].row = scan[s].answer
             /\ cache' = [cache EXCEPT ![k] = Dated(s, cache[k])]
    <2>1. /\ \A j \in Keywords \ {k} : cache'[j] = cache[j]
          /\ k \in Keywords => cache'[k] = Dated(s, cache[k]) /\ cache[k] \in CacheRow
      BY <1>5 DEF TypeOK
    <2>2. scan[s].row # None
      BY <1>5 DEF Store, KeywordIsTaken
    <2>3. ASSUME k \in Keywords
          PROVE  /\ cache'[k].cves = cache[k].cves /\ cache'[k].written = cache[k].written
                 /\ cache'[k].fetched = scan[s].asked
                 /\ cache[k].cves = scan[s].answer => cache'[k].answered = scan[s].answered
      BY <2>1, <2>3 DEF Dated, CacheRow
    <2>4. k \in Keywords => cache[k].cves = scan[s].answer \/ cache[k].written <= scan[s].asked
      BY <1>2, <1>5, <2>2 DEF DatesHold, LoadedOrNewer, Waiting
    <2>5. k \in Keywords => AnsweredOrNewer(cache'[k])
      BY <1>2, <2>3, <2>4 DEF AnsweredOrNewer
    <2>6. \A j \in Keywords : AnsweredOrNewer(cache'[j])
      BY <2>1, <2>5 DEF DatesHold
    <2>7. ASSUME NEW q \in Scans, NEW j \in Keywords
          PROVE  LoadedOrNewer(scan'[q], j, cache'[j])
      <3>1. q = s => scan'[q].pc \notin Waiting
        BY <1>1 DEF Waiting
      <3>2. q # s => LoadedOrNewer(scan'[q], j, cache[j])
        BY <1>1 DEF DatesHold
      <3>3. j # k => cache'[j] = cache[j]
        BY <2>1
      <3> QED
        BY <1>5, <2>3, <3>1, <3>2, <3>3 DEF LoadedOrNewer
    <2> QED
      BY <1>3, <2>6, <2>7 DEF DatesHold, LoadedOrNewer, AnsweredOrNewer
  <1> QED
    BY <1>4, <1>5 DEF Store

\* Everything ages alike.
LEMMA TickHolds ==
    ASSUME TypeOK, Located, DatesHold, Tick
    PROVE  DatesHold'
  <1>0. \A s \in Scans : scan[s] \in Scan /\ LocatedScan(scan[s]) /\ scan'[s] = AgedScan(scan[s])
    BY DEF TypeOK, Located, LocatedScan, Tick
  <1>1. ASSUME NEW s \in Scans, scan'[s].pc = "store"
        PROVE  scan'[s].answered <= scan'[s].asked
    <2>1. scan[s].pc = "store" /\ scan[s].pc \in Waiting
      BY <1>0, <1>1, AgedType DEF Waiting
    <2>2. scan[s].answered <= scan[s].asked
      BY <2>1 DEF DatesHold
    <2>3. /\ scan[s].asked \in 0 .. Ttl /\ scan[s].answered \in 0 .. Ttl
          /\ scan'[s].asked = Older(scan[s].asked, Ttl)
          /\ scan'[s].answered = Older(scan[s].answered, Ttl)
      BY <1>0, <2>1, AgedType DEF Scan
    <2> QED
      BY <2>2, <2>3, OlderIsMonotone, TimeAssumption
  <1>2. ASSUME NEW k \in Keywords, cache'[k] # None
        PROVE  /\ cache[k] # None /\ cache[k] \in CacheRow /\ cache'[k].cves = cache[k].cves
               /\ cache'[k].fetched = Older(cache[k].fetched, Ttl)
               /\ cache'[k].answered = Older(cache[k].answered, Ttl)
               /\ cache'[k].written = Older(cache[k].written, Ttl)
    <2>1. cache[k] # None /\ cache[k] \in CacheRow
      BY <1>2 DEF Tick, TypeOK
    <2> QED
      BY <1>2, <2>1 DEF Tick, CacheRow
  <1>3. ASSUME NEW k \in Keywords
        PROVE  AnsweredOrNewer(cache'[k])
    <2> SUFFICES ASSUME cache'[k] # None
                 PROVE  \/ cache'[k].answered <= cache'[k].fetched
                        \/ cache'[k].written <= cache'[k].fetched
      BY DEF AnsweredOrNewer
    <2>1. cache[k].answered <= cache[k].fetched \/ cache[k].written <= cache[k].fetched
      BY <1>2 DEF DatesHold, AnsweredOrNewer
    <2> QED
      BY <1>2, <2>1, OlderIsMonotone, TimeAssumption DEF CacheRow
  <1>4. ASSUME NEW s \in Scans, NEW k \in Keywords
        PROVE  LoadedOrNewer(scan'[s], k, cache'[k])
    <2> SUFFICES ASSUME scan'[s].pc \in Waiting, scan'[s].keyword = k, scan'[s].row # None,
                        cache'[k] # None, cache'[k].cves # scan'[s].row
                 PROVE  cache'[k].written <= scan'[s].asked
      BY DEF LoadedOrNewer
    <2>1. /\ scan[s].pc \in Waiting /\ scan[s].keyword = k /\ scan[s].row = scan'[s].row
          /\ scan'[s].asked = Older(scan[s].asked, Ttl) /\ scan[s].asked \in 0 .. Ttl
      BY <1>0, AgedType DEF Scan
    <2>2. cache[k].written <= scan[s].asked
      BY <1>2, <2>1 DEF DatesHold, LoadedOrNewer
    <2> QED
      BY <1>2, <2>1, <2>2, OlderIsMonotone, TimeAssumption DEF CacheRow
  <1> QED
    BY <1>1, <1>3, <1>4 DEF DatesHold, LoadedOrNewer, AnsweredOrNewer

LEMMA DatesGoOnHolding ==
    ASSUME TypeOK, Located, DatesHold, [Next]_vars
    PROVE  DatesHold'
  <1>0. \A s \in Scans : scan[s] \in Scan
    BY DEF TypeOK
  <1>1. ASSUME NEW s \in Scans, UNCHANGED cache, scan'[s].pc \notin Waiting,
               \A q \in Scans \ {s} : scan'[q] = scan[q]
        PROVE  DatesHold'
    <2>1. \A k \in Keywords : LoadedOrNewer(scan'[s], k, cache[k])
      BY <1>1 DEF LoadedOrNewer
    <2> QED
      BY <1>1, <2>1, OthersHold DEF Waiting
  <1>2. ASSUME NEW s \in Scans, NEW r \in Requests, Request(s, r[1], r[2])
        PROVE  DatesHold'
    <2>1. scan'[s].pc = "device" /\ \A q \in Scans \ {s} : scan'[q] = scan[q]
      BY <1>2 DEF Request, Update, TypeOK, Idle
    <2> QED
      BY <1>1, <1>2, <2>1 DEF Request, Waiting
  <1>3. ASSUME NEW s \in Scans,
               \/ PickDevice(s) \/ \E k \in Keys : PersistFinding(s, k)
               \/ Raise(s) \/ CommitDevice(s) \/ Outage(s) \/ StoreFails(s)
               \/ DatabaseFails(s)
        PROVE  DatesHold'
    <2>1. scan'[s].pc \in {"persist", "idle", "done", "device"}
      <3>1. CASE PickDevice(s)
        BY <1>0, <3>1 DEF PickDevice, Update, TypeOK, Scan
      <3>2. CASE \E k \in Keys : PersistFinding(s, k)
        BY <1>0, <3>2 DEF PersistFinding, Update, TypeOK, Scan
      <3>3. CASE Raise(s) \/ DatabaseFails(s)
        BY <3>3 DEF Raise, DatabaseFails, Update, TypeOK, Idle
      <3>4. CASE CommitDevice(s)
        BY <3>4 DEF CommitDevice, Update, TypeOK, Idle
      <3>5. CASE Outage(s)
        BY <1>0, <3>5 DEF Outage, Update, TypeOK, Searched, Scan
      <3>6. CASE StoreFails(s)
        BY <1>0, <3>6 DEF StoreFails, Update, TypeOK, Searched, Scan
      <3> QED
        BY <1>3, <3>1, <3>2, <3>3, <3>4, <3>5, <3>6
    <2>2. UNCHANGED cache /\ \A q \in Scans \ {s} : scan'[q] = scan[q]
      BY <1>3 DEF PickDevice, PersistFinding, Raise, CommitDevice, Outage, StoreFails,
           DatabaseFails, Update, TypeOK
    <2> QED
      BY <1>1, <2>1, <2>2 DEF Waiting
  <1>4. ASSUME NEW s \in Scans, NEW k \in Keywords, LookUpCache(s, k)
        PROVE  DatesHold'
    <2>1. /\ UNCHANGED cache /\ \A q \in Scans \ {s} : scan'[q] = scan[q]
          /\ scan'[s].pc # "store"
          /\ \/ scan'[s].pc \notin Waiting
             \/ /\ scan'[s].keyword = k
                /\ cache[k] # None => scan'[s].row = cache[k].cves
      BY <1>0, <1>4 DEF LookUpCache, Update, TypeOK, Scan, Waiting
    <2>2. \A j \in Keywords : LoadedOrNewer(scan'[s], j, cache[j])
      BY <2>1 DEF LoadedOrNewer
    <2> QED
      BY <2>1, <2>2, OthersHold
  <1>5. ASSUME NEW s \in Scans, EnterLimiter(s) \/ LeaveLimiter(s) \/ Answer(s)
        PROVE  DatesHold'
    <2>1. /\ UNCHANGED cache /\ \A q \in Scans \ {s} : scan'[q] = scan[q]
          /\ scan[s].pc \in Waiting
          /\ scan'[s].keyword = scan[s].keyword /\ scan'[s].row = scan[s].row
          /\ scan'[s].asked = scan[s].asked /\ 0 <= scan[s].asked
          /\ scan'[s].pc # "store" \/ scan'[s].answered = 0
      <3>1. CASE EnterLimiter(s)
        BY <1>0, <3>1, TimeAssumption DEF EnterLimiter, Update, TypeOK, Scan, Waiting
      <3>2. CASE LeaveLimiter(s)
        BY <1>0, <3>2, TimeAssumption DEF LeaveLimiter, Update, TypeOK, Scan, Waiting
      <3>3. CASE Answer(s)
        BY <1>0, <3>3, TimeAssumption DEF Answer, Update, TypeOK, Scan, Waiting
      <3> QED
        BY <1>5, <3>1, <3>2, <3>3
    <2>2. \A k \in Keywords : LoadedOrNewer(scan'[s], k, cache[k])
      BY <2>1 DEF DatesHold, LoadedOrNewer
    <2> QED
      BY <2>1, <2>2, OthersHold
  <1>6. CASE Restart
    <2>1. UNCHANGED cache /\ \A s \in Scans : scan'[s].pc = "idle"
      BY <1>6 DEF Restart, Idle
    <2> QED
      BY <2>1 DEF DatesHold, LoadedOrNewer, AnsweredOrNewer, Waiting
  <1>7. CASE UNCHANGED vars
    BY <1>7 DEF vars, DatesHold, LoadedOrNewer, AnsweredOrNewer
  <1> QED
    BY <1>2, <1>3, <1>4, <1>5, <1>6, <1>7, StoreHolds, TickHolds DEF Next, Step

\* Outages leave a row its date, and what search_nvd writes under a new one is
\* the answer it got after taking it, or was put there by a scan since then.
THEOREM StaleStaysDated == Spec => []StaleAnswersAreNotRedated
  <1>1. Init => DatesHold
    BY DEF Init, Idle, DatesHold, LoadedOrNewer, AnsweredOrNewer
  <1>2. DatesHold => StaleAnswersAreNotRedated
    BY DEF DatesHold, AnsweredOrNewer, StaleAnswersAreNotRedated
  <1> QED
    BY <1>1, <1>2, TypeInductive, DatesGoOnHolding, PTL DEF Spec

-----------------------------------------------------------------------------
(***************************************************************************)
(* Spacing.  The holder of the lock, and nobody else, is in its pause; what*)
(* is left of the pause and the time since the last call make up an        *)
(* interval; and the last call let through is no younger than that time.   *)
(***************************************************************************)
HolderSleeps == \A s \in Scans : scan[s].pc = "sleep" <=> limiter.holder = s

PausesAreLong == \A s \in Scans : scan[s].pc = "sleep" => scan[s].sleep + limiter.elapsed >= Interval

LastCallIsKnown == calls[1] = Window \/ calls[1] >= limiter.elapsed

Paced == HolderSleeps /\ PausesAreLong /\ LastCallIsKnown /\ CallsAreSpaced

\* A step of a scan that is not in its pause and does not enter it.
LEMMA PacedElsewhere ==
    ASSUME TypeOK, Paced, UNCHANGED <<limiter, calls>>, NEW s \in Scans,
           scan[s].pc # "sleep", scan'[s].pc # "sleep",
           \A q \in Scans \ {s} : scan'[q] = scan[q]
    PROVE  Paced'
  BY DEF Paced, HolderSleeps, PausesAreLong, LastCallIsKnown, CallsAreSpaced

LEMMA StaysPaced ==
    ASSUME TypeOK, Located, Paced, [Next]_vars
    PROVE  Paced'
  <1>0. \A s \in Scans : scan[s] \in Scan /\ LocatedScan(scan[s])
    BY DEF TypeOK, Located, LocatedScan
  <1>1. ASSUME NEW s \in Scans, NEW r \in Requests, Request(s, r[1], r[2])
        PROVE  Paced'
    <2>1. /\ scan'[s].pc = "device" /\ \A q \in Scans \ {s} : scan'[q] = scan[q]
          /\ scan[s].pc # "sleep"
      BY <1>1 DEF Request, Update, TypeOK, Idle, Active
    <2> QED
      BY <1>1, <2>1, PacedElsewhere DEF Request
  <1>2. ASSUME NEW s \in Scans,
               \/ PickDevice(s) \/ \E k \in Keys : PersistFinding(s, k)
               \/ Raise(s) \/ CommitDevice(s) \/ \E k \in Keywords : LookUpCache(s, k)
               \/ Answer(s) \/ Outage(s) \/ Store(s) \/ StoreFails(s) \/ DatabaseFails(s)
        PROVE  Paced'
    <2>1. scan[s].pc # "sleep"
      BY <1>2 DEF PickDevice, PersistFinding, Raise, CommitDevice, LookUpCache, Answer, Outage,
           Store, StoreFails, DatabaseFails
    <2>2. scan'[s].pc # "sleep"
      <3>1. CASE PickDevice(s)
        BY <1>0, <3>1 DEF PickDevice, Update, TypeOK, Scan
      <3>2. CASE \E k \in Keys : PersistFinding(s, k)
        BY <1>0, <3>2 DEF PersistFinding, Update, TypeOK, Scan
      <3>3. CASE Raise(s) \/ DatabaseFails(s)
        BY <3>3 DEF Raise, DatabaseFails, Update, TypeOK, Idle
      <3>4. CASE CommitDevice(s)
        BY <3>4 DEF CommitDevice, Update, TypeOK, Idle
      <3>5. CASE \E k \in Keywords : LookUpCache(s, k)
        BY <1>0, <3>5 DEF LookUpCache, Update, TypeOK, Scan
      <3>6. CASE Answer(s)
        BY <1>0, <3>6 DEF Answer, Update, TypeOK, Scan
      <3>7. CASE Outage(s)
        BY <1>0, <3>7 DEF Outage, Update, TypeOK, Searched, Scan
      <3>8. CASE Store(s)
        BY <1>0, <3>8 DEF Store, Update, TypeOK, Searched, Scan
      <3>9. CASE StoreFails(s)
        BY <1>0, <3>9 DEF StoreFails, Update, TypeOK, Searched, Scan
      <3> QED
        BY <1>2, <3>1, <3>2, <3>3, <3>4, <3>5, <3>6, <3>7, <3>8, <3>9
    <2>3. UNCHANGED <<limiter, calls>> /\ \A q \in Scans \ {s} : scan'[q] = scan[q]
      BY <1>2 DEF PickDevice, PersistFinding, Raise, CommitDevice, LookUpCache, Answer, Outage,
           Store, StoreFails, DatabaseFails, Update, TypeOK
    <2> QED
      BY <2>1, <2>2, <2>3, PacedElsewhere
  <1>3. ASSUME NEW s \in Scans, EnterLimiter(s)
        PROVE  Paced'
    <2>1. /\ scan'[s].pc = "sleep" /\ scan'[s].sleep = Interval - limiter.elapsed
          /\ \A q \in Scans \ {s} : scan'[q] = scan[q]
          /\ limiter'.holder = s /\ limiter'.elapsed = limiter.elapsed
          /\ limiter.elapsed \in 0 .. Interval
      BY <1>0, <1>3 DEF EnterLimiter, Update, TypeOK, Scan
    <2>2. \A q \in Scans : scan[q].pc # "sleep"
      BY <1>3, ScansAssumption DEF EnterLimiter, Paced, HolderSleeps
    <2>3. HolderSleeps' /\ PausesAreLong'
      BY <2>1, <2>2, TimeAssumption DEF HolderSleeps, PausesAreLong
    <2> QED
      BY <1>3, <2>1, <2>3 DEF EnterLimiter, Paced, LastCallIsKnown, CallsAreSpaced
  <1>4. ASSUME NEW s \in Scans, LeaveLimiter(s)
        PROVE  Paced'
    <2>1. /\ scan'[s].pc = "call" /\ \A q \in Scans \ {s} : scan'[q] = scan[q]
          /\ limiter'.holder = None /\ limiter'.elapsed = 0
      BY <1>0, <1>4 DEF LeaveLimiter, Update, TypeOK, Scan
    <2>2. HolderSleeps'
      <3>1. \A q \in Scans \ {s} : scan[q].pc # "sleep"
        BY <1>4 DEF LeaveLimiter, Paced, HolderSleeps
      <3> QED
        BY <2>1, <3>1, ScansAssumption DEF HolderSleeps
    <2>3. PausesAreLong'
      BY <2>1, <2>2, ScansAssumption DEF HolderSleeps, PausesAreLong
    <2>4. limiter.elapsed = Interval
      BY <1>4, TimeAssumption DEF LeaveLimiter, Paced, PausesAreLong, TypeOK
    <2>5. /\ calls'[1] = 0 /\ \A i \in 1 .. Cap : calls'[i + 1] = calls[i]
      <3>1. calls' = [i \in 1 .. Cap + 1 |-> IF i = 1 THEN 0 ELSE calls[i - 1]]
        BY <1>4 DEF LeaveLimiter
      <3>2. 1 \in 1 .. Cap + 1
        BY TimeAssumption
      <3>3. \A i \in 1 .. Cap : i + 1 \in 1 .. Cap + 1 /\ i + 1 # 1 /\ (i + 1) - 1 = i
        BY TimeAssumption
      <3> QED
        BY <3>1, <3>2, <3>3
    <2>6. CallsAreSpaced'
      <3> SUFFICES ASSUME NEW i \in 1 .. Cap
                   PROVE  calls'[i + 1] = Window \/ calls'[i + 1] >= calls'[i] + Interval
        BY DEF CallsAreSpaced
      <3>1. CASE i = 1
        <4>1. calls[1] = Window \/ calls[1] >= Interval
          BY <2>4 DEF Paced, LastCallIsKnown
        <4> QED
          BY <2>5, <3>1, <4>1, TimeAssumption
      <3>2. CASE i > 1
        <4>1. i - 1 \in 1 .. Cap /\ (i - 1) + 1 = i
          BY <3>2, TimeAssumption
        <4>2. calls'[i] = calls[i - 1] /\ calls'[i + 1] = calls[i]
          BY <2>5, <4>1
        <4>3. calls[i] = Window \/ calls[i] >= calls[i - 1] + Interval
          BY <4>1 DEF Paced, CallsAreSpaced
        <4> QED
          BY <4>2, <4>3
      <3> QED
        BY <3>1, <3>2, TimeAssumption
    <2> QED
      BY <2>1, <2>2, <2>3, <2>5, <2>6 DEF Paced, LastCallIsKnown
  <1>5. CASE Restart
    <2>1. /\ \A i \in 1 .. Cap + 1 : calls'[i] = Window
          /\ limiter'.holder = None /\ \A s \in Scans : scan'[s].pc = "idle"
      BY <1>5 DEF Restart, NoCalls, Idle
    <2> QED
      BY <2>1, ScansAssumption, TimeAssumption
      DEF Paced, HolderSleeps, PausesAreLong, LastCallIsKnown, CallsAreSpaced
  <1>6. CASE Tick
    <2>1. /\ limiter.elapsed \in 0 .. Interval
          /\ limiter'.holder = limiter.holder
          /\ limiter'.elapsed = Older(limiter.elapsed, Interval)
      BY <1>6 DEF Tick, TypeOK
    <2>2. \A s \in Scans : /\ scan'[s].pc = scan[s].pc /\ scan[s].sleep \in 0 .. Interval
                           /\ scan'[s].sleep = IF scan[s].sleep = 0 THEN 0 ELSE scan[s].sleep - 1
      BY <1>0, <1>6, AgedType DEF Tick, Scan
    <2>3. \A i \in 1 .. Cap + 1 : calls[i] \in 0 .. Window /\ calls'[i] = Older(calls[i], Window)
      BY <1>6 DEF Tick, TypeOK
    <2>4. HolderSleeps'
      BY <2>1, <2>2 DEF Paced, HolderSleeps
    <2>5. PausesAreLong'
      <3> SUFFICES ASSUME NEW s \in Scans, scan'[s].pc = "sleep"
                   PROVE  scan'[s].sleep + limiter'.elapsed >= Interval
        BY DEF PausesAreLong
      <3>1. scan[s].sleep + limiter.elapsed >= Interval
        BY <2>2 DEF Paced, PausesAreLong
      <3> QED
        BY <2>1, <2>2, <3>1, TimeAssumption DEF Older
    <2>6. LastCallIsKnown'
      <3>1. calls[1] = Window \/ calls[1] >= limiter.elapsed
        BY DEF Paced, LastCallIsKnown
      <3>2. 1 \in 1 .. Cap + 1
        BY TimeAssumption
      <3>3. calls'[1] = Window \/ calls'[1] >= limiter'.elapsed
        BY <2>1, <2>3, <3>1, <3>2, TimeAssumption DEF Older
      <3> QED
        BY <3>3 DEF LastCallIsKnown
    <2>7. CallsAreSpaced'
      <3> SUFFICES ASSUME NEW i \in 1 .. Cap
                   PROVE  calls'[i + 1] = Window \/ calls'[i + 1] >= calls'[i] + Interval
        BY DEF CallsAreSpaced
      <3>1. i \in 1 .. Cap + 1 /\ i + 1 \in 1 .. Cap + 1
        BY TimeAssumption
      <3>2. calls[i + 1] = Window \/ calls[i + 1] >= calls[i] + Interval
        BY DEF Paced, CallsAreSpaced
      <3> QED
        BY <2>3, <3>1, <3>2, TimeAssumption DEF Older
    <2> QED
      BY <2>4, <2>5, <2>6, <2>7 DEF Paced
  <1>7. CASE UNCHANGED vars
    BY <1>7 DEF vars, Paced, HolderSleeps, PausesAreLong, LastCallIsKnown, CallsAreSpaced
  <1> QED
    BY <1>1, <1>2, <1>3, <1>4, <1>5, <1>6, <1>7 DEF Next, Step

\* However many scans are under way, and in whatever order threads get the
\* limiter's lock, the calls to the NVD are an interval apart.
THEOREM LimiterSpacesCalls == Spec => []CallsAreSpaced
  <1>1. Init => Paced
    <2> SUFFICES ASSUME Init
                 PROVE  Paced
      OBVIOUS
    <2>1. /\ \A i \in 1 .. Cap + 1 : calls[i] = Window
          /\ limiter.holder = None /\ \A s \in Scans : scan[s].pc = "idle"
      BY DEF Init, NoCalls, Idle
    <2> QED
      BY <2>1, ScansAssumption, TimeAssumption
      DEF Paced, HolderSleeps, PausesAreLong, LastCallIsKnown, CallsAreSpaced
  <1>2. Paced => CallsAreSpaced
    BY DEF Paced
  <1> QED
    BY <1>1, <1>2, TypeInductive, StaysPaced, PTL DEF Spec
=============================================================================
