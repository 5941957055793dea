------------------------------- MODULE VulnScan -------------------------------
(***************************************************************************)
(* Vulnerability scans (vuln/engine.py) and the client of the NVD          *)
(* (vuln/nvd_client.py).  Several requests scan devices at the same time,  *)
(* each in a transaction of its own, which sees what is committed and what *)
(* it has flushed itself.  A search in the NVD goes through the cache      *)
(* table, the process's rate limiter and the network, and commits in the   *)
(* middle of the scan.  Every exception of a search is swallowed, that of  *)
(* its commit too; the Session is then unusable, and whatever the scan     *)
(* does next raises.                                                       *)
(*                                                                         *)
(* Time is kept as ages, which stop growing where nobody looks further.    *)
(* Devices are not deleted here: CaptureSessions has that.                 *)
(***************************************************************************)
EXTENDS Naturals, FiniteSets, LocalRules

CONSTANTS
    Scans,     \* requests that may be under way at the same time
    Devices,   \* the devices of the caller's organization
    Services,  \* [Devices -> sets of services]
    Os,        \* [Devices -> os_signature]
    Cves,      \* what the NVD may answer with
    Requests,  \* the bodies of POST /scan: some devices, and use_nvd
    None,      \* no cache row, no holder of the lock
    Interval,  \* _RateLimiter's min_interval, in ticks
    Ttl,       \* NVD_CACHE_TTL_SECONDS
    Window,    \* the period for which the NVD counts calls
    Cap        \* the calls it allows in one

RuleKeys == UNION {FiringRules(Services[d], Os[d]) : d \in Devices}

\* What tells the findings of a device apart: a rule_id, or else a cve_id.
Keys == RuleKeys \cup Cves

Keywords == UNION {BannerKeywords(Services[d]) : d \in Devices}

ASSUME ScansAssumption == IsFiniteSet(Scans) /\ None \notin Scans
ASSUME RequestsAssumption == Requests \subseteq (SUBSET Devices) \X BOOLEAN
ASSUME TimeAssumption ==
    /\ Interval \in Nat /\ Ttl \in Nat /\ Window \in Nat /\ Cap \in Nat
    /\ Interval < Window

VARIABLES
    findings,  \* the committed rows of each device and key: how many
    cache,     \* cve_cache: per keyword None, or its row
    limiter,   \* the holder of _lock, and the time since _last_call
    calls,     \* calls[i]: the age of the i-th last call let through
    scan       \* what each request is doing

vars == <<findings, cache, limiter, calls, scan>>

\* Mutant: an age of no use to anybody grows on.
OlderForEver(age, limit) == age + 1

Older(age, limit) == IF age < limit THEN age + 1 ELSE limit

\* A cache row: `fetched` is the age of fetched_at.  Two ages are in no column:
\* `answered`, of the NVD's last answer with these CVEs, and `written`, of the
\* commit that put them here.
CacheRow == [cves : SUBSET Cves, fetched : 0 .. Ttl, answered : 0 .. Ttl, written : 0 .. Ttl]

\* `pending` are the findings flushed and not committed; `found`, those the
\* response will list; `row`, the answer the cache had; `asked`, the age of
\* `now`; `sleep`, what is left of the limiter's pause.
Idle ==
    [pc |-> "idle", nvd |-> FALSE, queue |-> {}, device |-> None, keywords |-> {},
     keyword |-> None, results |-> {}, row |-> None, asked |-> 0, sleep |-> 0,
     answer |-> {}, answered |-> 0, pending |-> {}, broken |-> FALSE, found |-> {}]

Scan ==
    [pc : {"idle", "device", "persist", "enter", "sleep", "call", "store", "done"},
     nvd : BOOLEAN, queue : SUBSET Devices, device : Devices \cup {None},
     keywords : SUBSET Keywords, keyword : Keywords \cup {None}, results : SUBSET Keys,
     row : (SUBSET Cves) \cup {None}, asked : 0 .. Ttl, sleep : 0 .. Interval,
     answer : SUBSET Cves, answered : 0 .. Ttl, pending : SUBSET Keys, broken : BOOLEAN,
     found : SUBSET (Devices \X Keys)]

TypeOK ==
    /\ findings \in [Devices -> [Keys -> Nat]]
    /\ cache \in [Keywords -> CacheRow \cup {None}]
    /\ limiter \in [holder : Scans \cup {None}, elapsed : 0 .. Interval]
    /\ calls \in [1 .. Cap + 1 -> 0 .. Window]
    /\ scan \in [Scans -> Scan]

NoCalls == [i \in 1 .. Cap + 1 |-> Window]

Init ==
    /\ findings = [d \in Devices |-> [k \in Keys |-> 0]]
    /\ cache = [k \in Keywords |-> None]
    /\ limiter = [holder |-> None, elapsed |-> Interval]
    /\ calls = NoCalls
    /\ scan = [s \in Scans |-> Idle]

-----------------------------------------------------------------------------
(***************************************************************************)
(* scan_device and scan_all_devices.                                       *)
(***************************************************************************)
Active(s) == scan[s].pc \notin {"idle", "done"}

Update(s, new) == scan' = [scan EXCEPT ![s] = new]

\* The transaction's writes become visible.
Commit(s) ==
    findings' = [findings EXCEPT ![scan[s].device] =
                    [k \in Keys |-> IF k \in scan[s].pending THEN @[k] + 1 ELSE @[k]]]

\* trigger_scan: of one device, or of all those of the organization.
Request(s, devices, nvd) ==
    /\ ~Active(s)
    /\ Update(s, [Idle EXCEPT !.pc = "device", !.queue = devices, !.nvd = nvd])
    /\ UNCHANGED <<findings, cache, limiter, calls>>

\* The local rules come first; the keywords are a set, in any order.
PickDevice(s) ==
    /\ scan[s].pc = "device"
    /\ \E d \in scan[s].queue :
          Update(s, [scan[s] EXCEPT
              !.pc = "persist", !.queue = @ \ {d}, !.device = d,
              !.results = FiringRules(Services[d], Os[d]),
              !.keywords = IF scan[s].nvd THEN BannerKeywords(Services[d]) ELSE {}])
    /\ UNCHANGED <<findings, cache, limiter, calls>>

\* Mutant: the scan looks only at what it has found itself.
RowsSeenPending(s, k) == IF k \in scan[s].pending THEN 1 ELSE 0

\* The rows the scan's SELECT finds of a key: others' once committed, its own.
RowsSeen(s, k) ==
    findings[scan[s].device][k] + (IF k \in scan[s].pending THEN 1 ELSE 0)

\* _persist_finding.  The half of the key that is NULL keeps the unique
\* constraint from ever being violated: only the SELECT prevents a second row.
PersistFinding(s, k) ==
    /\ scan[s].pc = "persist"
    /\ ~scan[s].broken
    /\ k \in scan[s].results
    /\ RowsSeen(s, k) <= 1
    /\ Update(s, [scan[s] EXCEPT
           !.results = @ \ {k},
           !.pending = IF RowsSeen(s, k) = 0 THEN @ \cup {k} ELSE @,
           !.found = @ \cup {<<scan[s].device, k>>}])
    /\ UNCHANGED <<findings, cache, limiter, calls>>

\* one_or_none finds two rows, or the Session has been left unusable: the
\* request fails, and what it had pending is rolled back.
Raise(s) ==
    /\ scan[s].pc = "persist"
    /\ scan[s].broken \/ \E k \in scan[s].results : RowsSeen(s, k) > 1
    /\ Update(s, Idle)
    /\ UNCHANGED <<findings, cache, limiter, calls>>

CommitDevice(s) ==
    /\ scan[s].pc = "persist"
    /\ ~scan[s].broken
    /\ scan[s].results = {} /\ scan[s].keywords = {}
    /\ Commit(s)
    /\ Update(s, [Idle EXCEPT
           !.pc = IF scan[s].queue = {} THEN "done" ELSE "device",
           !.queue = scan[s].queue, !.nvd = scan[s].nvd, !.found = scan[s].found])
    /\ UNCHANGED <<cache, limiter, calls>>

-----------------------------------------------------------------------------
(***************************************************************************)
(* search_nvd and _RateLimiter.wait.                                       *)
(***************************************************************************)

\* A fresh row is the answer; otherwise its CVEs are kept to fall back on.  The
\* SELECT and `now`, which follows it, are one step.
LookUpCache(s, k) ==
    /\ scan[s].pc = "persist"
    /\ ~scan[s].broken
    /\ scan[s].results = {} /\ k \in scan[s].keywords
    /\ Update(s,
           IF cache[k] # None /\ cache[k].fetched < Ttl
           THEN [scan[s] EXCEPT !.keywords = @ \ {k}, !.results = cache[k].cves]
           ELSE [scan[s] EXCEPT !.keywords = @ \ {k}, !.keyword = k, !.pc = "enter",
                                !.asked = 0,
                                !.row = IF cache[k] = None THEN None ELSE cache[k].cves])
    /\ UNCHANGED <<findings, cache, limiter, calls>>

\* Mutant: the pause is computed under the lock and slept without it.
EnterLimiterUnlocked(s) ==
    /\ scan[s].pc = "enter"
    /\ limiter' = [limiter EXCEPT !.holder = None]
    /\ Update(s, [scan[s] EXCEPT !.pc = "sleep", !.sleep = Interval - limiter.elapsed])
    /\ UNCHANGED <<findings, cache, calls>>

\* The lock is held while sleeping.
EnterLimiter(s) ==
    /\ scan[s].pc = "enter"
    /\ limiter.holder = None
    /\ limiter' = [limiter EXCEPT !.holder = s]
    /\ Update(s, [scan[s] EXCEPT !.pc = "sleep", !.sleep = Interval - limiter.elapsed])
    /\ UNCHANGED <<findings, cache, calls>>

\* Mutant: the lock is acquired and not released.
LeaveLimiterLocked(s) ==
    /\ scan[s].pc = "sleep"
    /\ scan[s].sleep = 0
    /\ limiter' = [limiter EXCEPT !.elapsed = 0]
    /\ calls' = [i \in 1 .. Cap + 1 |-> IF i = 1 THEN 0 ELSE calls[i - 1]]
    /\ Update(s, [scan[s] EXCEPT !.pc = "call"])
    /\ UNCHANGED <<findings, cache>>

LeaveLimiter(s) ==
    /\ scan[s].pc = "sleep"
    /\ scan[s].sleep = 0
    /\ limiter' = [holder |-> None, elapsed |-> 0]
    /\ calls' = [i \in 1 .. Cap + 1 |-> IF i = 1 THEN 0 ELSE calls[i - 1]]
    /\ Update(s, [scan[s] EXCEPT !.pc = "call"])
    /\ UNCHANGED <<findings, cache>>

\* The NVD answers; entries without an id are dropped.
Answer(s) ==
    /\ scan[s].pc = "call"
    /\ \E cves \in SUBSET Cves :
          Update(s, [scan[s] EXCEPT !.pc = "store", !.answer = cves, !.answered = 0])
    /\ UNCHANGED <<findings, cache, limiter, calls>>

\* The scan as it goes on from a search, with these results.
Searched(s, cves) ==
    [scan[s] EXCEPT !.pc = "persist", !.results = cves, !.keyword = None, !.row = None,
                    !.asked = 0, !.answer = {}, !.answered = 0]

\* Mutant: a stale row that has to do for the answer is dated anew.
OutageRedates(s) ==
    /\ scan[s].pc = "call"
    /\ Update(s, Searched(s, IF scan[s].row = None THEN {} ELSE scan[s].row))
    /\ cache' = IF scan[s].row = None THEN cache
                ELSE [cache EXCEPT ![scan[s].keyword].fetched = scan[s].asked]
    /\ UNCHANGED <<findings, limiter, calls>>

\* No network, a status that is an error, a timeout, an answer that cannot be
\* read: what the cache had, fresh or not.
Outage(s) ==
    /\ scan[s].pc = "call"
    /\ Update(s, Searched(s, IF scan[s].row = None THEN {} ELSE scan[s].row))
    /\ UNCHANGED <<findings, cache, limiter, calls>>

\* The keyword was not there when this scan looked, and is now.
KeywordIsTaken(s) == scan[s].row = None /\ cache[scan[s].keyword] # None

\* The row as the scan's INSERT or UPDATE leaves it.
Written(s) == [cves |-> scan[s].answer, fetched |-> scan[s].asked,
               answered |-> scan[s].answered, written |-> 0]

\* An UPDATE writes the columns that differ from what the scan has loaded.  An
\* answer equal to that one (the CVEs are; the texts may not be) leaves what is
\* there by now, perhaps another scan's answer, and dates it.
Dated(s, row) ==
    [row EXCEPT !.fetched = scan[s].asked,
                !.answered = IF row.cves = scan[s].answer THEN scan[s].answered ELSE @]

\* The commit takes along what the scan has found so far.
Store(s) ==
    /\ scan[s].pc = "store"
    /\ ~KeywordIsTaken(s)
    /\ \/ cache' = [cache EXCEPT ![scan[s].keyword] = Written(s)]
       \/ /\ cache[scan[s].keyword] # None /\ scan[s].row = scan[s].answer
          /\ cache' = [cache EXCEPT ![scan[s].keyword] = Dated(s, @)]
    /\ Commit(s)
    /\ Update(s, [Searched(s, scan[s].answer) EXCEPT !.pending = {}])
    /\ UNCHANGED <<limiter, calls>>

\* Mutant: the handler of the exception calls rollback(), and the scan goes on.
StoreFailsAndGoesOn(s) ==
    /\ scan[s].pc = "store"
    /\ KeywordIsTaken(s)
    /\ Update(s, [Searched(s, scan[s].answer) EXCEPT !.pending = {}])
    /\ UNCHANGED <<findings, cache, limiter, calls>>

\* The INSERT violates the unique keyword, the transaction is rolled back, and
\* the exception is swallowed with those of the network: the new row's object
\* still has the answer.
StoreFails(s) ==
    /\ scan[s].pc = "store"
    /\ KeywordIsTaken(s)
    /\ Update(s, [Searched(s, scan[s].answer) EXCEPT !.pending = {}, !.broken = TRUE])
    /\ UNCHANGED <<findings, cache, limiter, calls>>

-----------------------------------------------------------------------------
(***************************************************************************)
(* What happens to a scan.                                                 *)
(***************************************************************************)
DatabaseFails(s) ==
    /\ scan[s].pc \in {"device", "persist", "store"}
    /\ Update(s, Idle)
    /\ UNCHANGED <<findings, cache, limiter, calls>>

\* The limiter, and what it knows of earlier calls, are the process's.
Restart ==
    /\ scan' = [s \in Scans |-> Idle]
    /\ limiter' = [holder |-> None, elapsed |-> Interval]
    /\ calls' = NoCalls
    /\ UNCHANGED <<findings, cache>>

AgedScan(sc) ==
    [sc EXCEPT !.sleep = IF @ = 0 THEN 0 ELSE @ - 1,
               !.asked = IF sc.pc \in {"enter", "sleep", "call", "store"}
                          THEN Older(@, Ttl) ELSE @,
               !.answered = IF sc.pc = "store" THEN Older(@, Ttl) ELSE @]

Tick ==
    /\ limiter' = [limiter EXCEPT !.elapsed = Older(@, Interval)]
    /\ calls' = [i \in 1 .. Cap + 1 |-> Older(calls[i], Window)]
    /\ cache' = [k \in Keywords |->
                    IF cache[k] = None THEN None
                    ELSE [cache[k] EXCEPT !.fetched = Older(@, Ttl), !.answered = Older(@, Ttl),
                                          !.written = Older(@, Ttl)]]
    /\ scan' = [s \in Scans |-> AgedScan(scan[s])]
    /\ UNCHANGED findings

\* What a scan does of itself.
Step(s) ==
    \/ PickDevice(s)
    \/ \E k \in Keys : PersistFinding(s, k)
    \/ Raise(s)
    \/ CommitDevice(s)
    \/ \E k \in Keywords : LookUpCache(s, k)
    \/ LeaveLimiter(s)
    \/ Answer(s)
    \/ Outage(s)
    \/ Store(s)
    \/ StoreFails(s)

Next ==
    \/ \E s \in Scans, r \in Requests : Request(s, r[1], r[2])
    \/ \E s \in Scans :
          \/ Step(s)
          \/ EnterLimiter(s)
          \/ DatabaseFails(s)
    \/ Restart
    \/ Tick

\* Time passes, a call to the NVD is answered or times out, and a thread that
\* waits for the lock gets it if it is free again and again.
Fairness ==
    /\ WF_vars(Tick)
    /\ \A s \in Scans : WF_vars(Step(s)) /\ SF_vars(EnterLimiter(s))

Spec == Init /\ [][Next]_vars /\ Fairness

-----------------------------------------------------------------------------
(***************************************************************************)
(* Properties.                                                             *)
(***************************************************************************)

\* Whatever the commits in the middle did, and whichever exceptions were
\* swallowed: every finding that a response lists is in the database.
ReportedFindingsAreStored ==
    \A s \in Scans :
        scan[s].pc = "done" => \A f \in scan[s].found : findings[f[1]][f[2]] > 0

\* Two rows of a finding come from scans that both looked before either had
\* committed; the scans that come later never add another.  One scan at a
\* time updates in place.
OnlyRacesDuplicate ==
    \A d \in Devices, k \in Keys : findings[d][k] <= Cardinality(Scans)

\* A row is judged fresh by its fetched_at, taken before the limiter and the
\* network make the scan wait, and possibly written alone.  Still an outage never
\* passes for an answer: an answer that is older than its fetched_at is one that
\* another scan has put there since, while the two overlapped.
StaleAnswersAreNotRedated ==
    \A k \in Keywords :
        cache[k] # None => \/ cache[k].answered <= cache[k].fetched
                           \/ cache[k].written <= cache[k].fetched

\* nvd_client.py:42: whoever calls, and in whatever order threads get the
\* lock, two calls are an interval apart.
CallsAreSpaced ==
    \A i \in 1 .. Cap : calls[i + 1] = Window \/ calls[i + 1] >= calls[i] + Interval

\* Every scan ends, whatever the NVD, the limiter and other scans do.
ScansEnd == \A s \in Scans : Active(s) ~> ~Active(s)
-----------------------------------------------------------------------------
(***************************************************************************)
(* What the project says of scans, and the code does not always do.        *)
(***************************************************************************)

\* models.py:367-369 declares UniqueConstraint("device_id", "rule_id",
\* "cve_id"), and test_vuln_engine.py:41: "re-scanning updates in place, does
\* not duplicate".
NoFindingTwice == \A d \in Devices, k \in Keys : findings[d][k] <= 1

\* nvd_client.py:87-89: a search "falls back to a stale cache entry if one
\* exists, otherwise returns an empty list rather than raising": it never
\* leaves the scan unable to go on.
SearchesNeverBreakScans == \A s \in Scans : ~scan[s].broken

\* nvd_client.py:87: a search "Serves from cache when fresh": no answer in the
\* cache is older than its fetched_at.
AnswersAreAsFreshAsTheyClaim ==
    \A k \in Keywords : cache[k] # None => cache[k].answered <= cache[k].fetched

\* nvd_client.py:42: "~5.5s between calls keeps us comfortably under the
\* public 5-requests/30s cap": the call before the last five is a window ago.
UnderThePublicCap == calls[Cap + 1] = Window
=============================================================================
