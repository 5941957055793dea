# TridentyOT in TLA+

TridentyOT listens to an industrial network, live or from pcap files, and keeps an
inventory of the devices it sees, per organization. This directory has TLA+ modules of
the parts of it that are hard to get right by testing: the threads of a live capture, the
ingestion of packets into the inventory, the lifetime of captures and their data, the
accounts, the scans for vulnerabilities, and the upgrades at startup. TLC checks them on small
instances; TLAPS proves their safety for all instances. Paths below are relative to `src/backend/app/`, unless they say otherwise.

## The system

    browser --> api/routes_*.py  (a pool of threads, one transaction per request)
                  |        |              |                 |
                  |        |              |                 +--> auth/*, routes_users, ...: users, auth_tokens
                  |        |              +--> vuln/engine.py --> vuln/nvd_client.py: vulnerability_findings
                  |        +--> background task: capture/pcap_loader.py ----------+
                  +--> LiveCaptureManager --> one _CaptureWorker per capture      |
                           sniffer thread --queue--> consumer thread -------------+
                                                                                  v
                           inventory/inventory_service.py (with fingerprint/*): devices,
                           device_protocols, flows; capture_sessions' counters and status

| component | state it keeps | operations | what is hard | what makes it correct |
|---|---|---|---|---|
| `capture/live_capture.py` | per capture: queue, stop event, drop counter, two threads; the manager's registry | start, on_packet, drain, ingest a batch, stop, stop_all, startup sweep | three kinds of threads share it; joins time out; batches fail; the sniffer dies unnoticed | no packet is counted twice, and none is lost while the session runs and no ingest fails; a stop books what the consumer took; no sniffer is left without its consumer |
| `api/routes_capture.py` | `capture_sessions` rows | start, stop, delete, wipe, upload | long waits (`worker.stop()`) between reading a row and writing it | status and threads agree; only one's own data is deleted |
| `capture/pcap_loader.py` | a session's progress | read a file with commits in between | transactions fail in the middle | the task always ends, and the session with it unless an exception gets past its `try` |
| `inventory/inventory_service.py` | devices, protocols, flows; the `IngestCache` | ingest a record, gateway pass, purge, wipe | autoflush is off: objects, cache and SELECTs see different states; several sessions write the same rows | one row per address; evidence only grows; purges leave nothing dangling and take nothing of others |
| `fingerprint/*` | none | classify a device, an OS, a protocol; find names, identities, vendors | tables and ties; whose name it is | the better evidence wins |
| `capture/packet_processor.py` | none | make a record of a packet | which layer speaks | a record tells of its sender |
| `auth/*`, `routes_auth.py`, `routes_users.py`, `routes_organizations.py` | users, organizations, tokens | login, logout, create, change, delete; seeding at startup | checks and writes of concurrent requests; startups migrate what is there | tenants stay apart; somebody can always administer |
| `db.py`, `main.py` | the schema | startup: columns, constraints, backfills, seeds, the sweep | runs on databases of every age, every time, and may be killed halfway | complete, whatever earlier starts did; takes nothing from anybody; never in its own way |
| `api/routes_hierarchy.py` | sites, zones, sensors | create, rename; resolve a capture's sensor | who may use which sensor, and what backfills chose before there were any | a capture's sensor is of its own tenant, and of its kind |
| `vuln/engine.py`, `vuln/nvd_client.py`, `vuln/rules.py` | findings, CVE cache, the rate limiter | scan, upsert findings, look up with cache and rate limit | network calls inside transactions, commits in the middle, exceptions swallowed | what is reported is stored; an outage never passes for an answer; calls keep their distance; scans end |
| `api/routes_inventory.py`, `schemas.py`, `i18n`, `config.py`, `static/` | custom_* fields | read, edit, present | - | - |

`PROJECT.json` has every component with its status, and the list of hazards, each at its
line and with the properties that watch it.

## The modules

* `CaptureWorker` - one live capture, from its request to its end: the start request, any
  number of stop and delete requests, the sniffer thread and the consumer thread. One
  action per step that another thread can see: `put_nowait`, the two critical sections of
  `_dropped_lock`, each `get`, the two reads of the stop event, the SELECT and the commit of a
  batch, the pop from the registry, the three steps of `stop()`. The sniffer thread opens its socket after
  `start()` has returned, and may die of itself before that or later, told to nobody; `stop()` then raises. The
  consumer ends in one of two ways: after an empty final flush (`flushed`), or when it sees the event after a timed
  drain that found nothing (`quit`). Packets are counted, not told apart.
* `CaptureLedger` - what the worker promises of packets: each one seen is pending until it
  is stored, counted as dropped, or (only once a session has ended or an ingest has failed)
  forgotten. `CaptureWorker!KeepsLedger` is the refinement, under the mapping `Ledger`.
* `Inventory` - one ingest run (a file, or the batches of a live capture) as a function of the
  run's three views: `mem`, the ORM objects; `sql`, what SELECT finds, that is `mem` as of
  the last flush; and the `IngestCache`. The operators are named after the functions of
  `inventory_service.py`. One action ingests one packet record, whole. `PacketProcessor` makes the
  records of frames, with the names and identities that `hostname_detect.py` and `identity_detect.py` believe;
  `ProtocolDetect` is the table of protocols, `OsFingerprint` and `DeviceClassifier` those of operating
  systems and kinds of devices.
* `CaptureSessions` - several sessions of several organizations over one database: starts,
  uploads, stops, deletions, wipes, scans and a restart, with each run's open transaction as
  a value: what it has looked up, changed, inserted, and what was deleted under it. Between
  `worker.stop()` and the transaction of a stop, deletion or wipe, anything can happen. An upload's last
  commit, and the one of its rollback, are outside its `try`: what fails there leaves the session as it is (`Abandon`).
* `Accounts` - startups, sign-in, and the requests on users; a change of role or a
  deletion is checked in one step and committed in another.
* `VulnScan` - several scans at once, each in its transaction, with the search in the NVD step by
  step: the cache, the limiter's lock and its pause, the network, the commit in the middle of
  the scan, and the exceptions that are swallowed. Time is kept as ages. `LocalRules`, the rules
  of `vuln/rules.py`, gives it its findings and keywords.
* `Startup` - a start as the transactions it consists of, on a database without organizations, one without
  sensors or a new one, killed between any two of them; and, while the server is up, the
  requests that make what the next start finds: organizations, sites, zones, sensors,
  captures and the choice of their sensors.
* `Evidence` - several ingest runs on one device, each with the copy it has loaded, a transaction
  that locks the row from its first flush on, and a cache of services: lost updates, waiting
  INSERTs and NULL ports. `OsFingerprint` and `DeviceClassifier` weigh what the runs see.
* `CaptureWorkerProofs`, `InventoryProofs`, `CaptureSessionsProofs`, `AccountsProofs`, `VulnScanProofs`,
  `StartupProofs`, `EvidenceProofs` - the theorems. `TableProofs` has the lemmas on the tables of `OsFingerprint`
  and `DeviceClassifier` that the proofs of the inventory and of the evidence share.
* `MC*` - symmetry sets and, for `Inventory`, `Evidence` and `VulnScan`, what the runs choose from.

How state maps to code is said at each VARIABLE; `PROJECT.json` "map" gives the lines
of every definition. A definition marked `Mutant` in its comment is no part of any
specification: it is a bug that could have been made, kept to see that the property named
with it in `PROJECT.json` notices it.

### Abstractions

* The database is PostgreSQL as docker-compose runs it: foreign keys are enforced, an INSERT
  of a key that another transaction has inserted waits, and a deadlock is broken. Where only
  the order of commits matters, a transaction's writes are one step at its commit.
* SQLAlchemy: an UPDATE or DELETE by object of a row that is gone raises on flush. A run that
  fails is rolled back whole.
* A frame in `PacketProcessor` is what Scapy makes of it: layers and fields. A name or an identity comes with the
  protocol it was found in; the module says when it is believed and what it gives.
* In `Inventory`, as in `Evidence`, scores are eighths and twelfths of a confidence, and the categories of a vendor or
  a host name stand for the words they were found by (`Words`). Protocols are numbered by their first
  port. Banners, counters, times, model numbers and versions are left out, as nothing modelled reads them.
* In `CaptureSessions` evidence rows are the sets of devices they connect; rows of two
  sessions on the same devices differ in their ports. That a second session merely counts
  up the first one's row is left out, and so is the unique key of such rows.
* In `Accounts` ids are not used twice; passwords, locales and user agents are left out. A token
  expires at any time (`SignOut`).
* In `VulnScan` devices stay (`CaptureSessions` deletes them under a scan), a CVE is its id, and an age stops
  growing where nobody asks further: at the interval, the time to live, the window. The SELECT of a cache row and
  the `now` after it are one step. An UPDATE writes the columns that differ from what the Session has loaded: always the
  date, the answer only if it is another one (`Dated`); as texts differ in more than their CVEs, one of the same CVEs may be either.
* In `Startup` a step is a transaction, names are left out (`Accounts` has them), and rows of the hierarchy, which
  the code never deletes, are counted. The widening of text columns changes nothing there.
* In `Evidence` there is one device.

## What is checked

All runs: `tlc -config <run>.cfg <module>`; `PROJECT.json` "runs" says which module. Deadlock
checking is off: captures end, users stop asking.

| run | shows | bounds, and why they do |
|---|---|---|
| `capture_worker` | nothing lost or counted twice while healthy; threads end once, in order, and no sniffer without its consumer; the worker implements the ledger; a stop returns, and has booked what the consumer took if it is the only one; a full queue is drained again | queue 2, batch 2, 4 packets: full queue, refused packet, full and partial batch; 2 requests race, one of which does not wait for the consumer; 1 failing batch; the sniffer dies at any time |
| `inventory` | one row per address; the cache agrees with SELECT; no key twice; every service is classified, and was seen at an end that may be a server's; nothing known is lost | a LAN and a public address, and four networks. `addresses`, with 2 MACs: all merges of MAC-only, address-only and full rows, with announcements and identities in between. `services`: handshakes and data of a conversation each way, one with a port of the table and one without, PROFINET and LLDP, with the cache and without (`Caching`). `names`: what every source may say of a host, itself or another. `coincidence`: a client that calls from a port of the table, which the port heuristic takes for the server. No bound on frames |
| `capture_sessions` | nothing dangles, evident devices stay, others keep their data | 2 sessions, of one organization or of two, which have a host with the same address; 2 requests at a time; scans, restarts, lost connections, dead sniffers |
| `capture_sessions_live` | every pcap task ends, and its session unless an exception got past its `try` | 2 sessions and 2 hosts, so that they can wait for each other both ways; lost connections |
| `accounts` | users' references hold; tenants apart; a super admin remains; no request takes the last administrator | 4 users, 2 organizations, 3 startups (the first, one that backfills, one after that), 2 requests at a time |
| `vuln_scan` | what is reported is stored; only races duplicate | 2 scans of 2 devices whose banners yield one keyword, 1 CVE, 1 local rule on two ports: both sides of the race for a cache row and for a finding |
| `vuln_scan_live` | stale answers are not redated but by overlapping scans; calls are spaced; scans end | 2 scans of 1 device; the interval is 2 ticks, so that one can arrive in another's pause |
| `startup` | captures have sensors of their tenant and kind; starts are complete; addresses stay unique; no live orphans; nothing changes hands | 2 organizations, 2 sessions, 2 devices with one address, 2 users; 1 site of 2 zones with 1 sensor each: enough for an ambiguous choice and for a first zone that is empty; any number of starts and kills |
| `evidence` | an OT server is known as one; services have one row; certainty grows | 2 runs, 1 header, 1 host name, 1 claim, a service with a port and one without: every two kinds of evidence can meet in either order |

The state spaces are finite because packets, batches that fail and startups (of `Accounts`) are bounded by
the constants that the modules name as bounds; `Inventory` and `Evidence` need no such bound, for rows are
never deleted and their fields range over small sets, nor do `CaptureSessions` and `Startup`, whose
sessions are used once (`Faults` says what may go wrong, not how often).
`VulnScan` has none either: a finding's rows are limited by `OnlyRacesDuplicate` itself.

`Caching` is TRUE for files and live batches; the calls without a cache, which the code also
allows, are checked for services only: without it `OneRowPerAddress` does not hold, as the
address that a MAC-only row has just got is not flushed before it is looked up.

The properties on administrators need requests to come one at a time, which `calm` records: without that, TLC
finds two of them removing each other. That every organization has an administrator is not even then
true: a restart before the first organization is made creates the default one, for
the super admin, and no administrator (`db.py:138-151`). Likewise `clean` records, in `Evidence`, that no run has
written to a row that another one has changed since it was loaded.

**Fairness.** `CaptureWorker!Fairness`: the consumer thread, a callback that has begun, the
start request and each request that has arrived go on, as threads are scheduled; and not each and every drain loses
its `BATCH_MAX_SECONDS` before its first `get` (`SF_vars(TakeRecord)`), which a thread that runs at all does not; no
packet, request or failure is assumed. `CaptureSessions!Fairness`: a run that waits for a lock gets it
if it is free again and again (PostgreSQL's queue), and a run that comes back to its next
packet again and again gets to the end, for batches and files are finite; the exits of
upload tasks are weakly fair. Nothing is assumed of a live run's consumer, which a dead sniffer may leave polling. `VulnScan!Fairness`: time passes, what a scan does of itself goes on (a call to the NVD is answered or
times out, `NVD_REQUEST_TIMEOUT_SECONDS`), and a thread that waits for the limiter's lock gets it if it is
free again and again. Failures are not fair, except the answers of the database to a
violated key and to a deadlock.

## What the code does not do

Three runs end with a counterexample; "findings" in `PROJECT.json` quotes the sentence of the project
that each contradicts.

* `capture_worker_late_register`: a stop that comes before the worker is registered ends the session with its
  sniffer running.
* `capture_sessions_wipe`: one organization's wipe stops everybody's captures.
* `accounts_backfill`: the backfill at startup gives super admins an organization.

The modules state more such claims, at their ends, each with the line it quotes. They are in no run;
TLC refutes each one when it is added as an INVARIANT to the configuration named here, with the change
named here.

| claim | configuration | why it fails |
|---|---|---|
| `NeverDroppedSilently` | `capture_worker` | drops that a skipped batch took over, or that come after the last batch, are in no `dropped_count` |
| `SoleStopDrainsQueue` | `capture_worker` | records queued after the consumer's last timed drain came back empty, and before it looks at the stop event, stay there, though the stop is the only one and waits |
| `NoThreadIsLeaked` | `capture_worker` | a sniffer that has died of itself makes `stop()` raise before the event is set, with the worker popped already: its consumer polls on |
| `StopIngestsBatches` | `capture_worker` | a second stop ends the session under the first one's flush |
| `NoSharedName` | `inventory`, `Networks = {"names"}` | the SELECT for other holders of a name misses one that was given it in the same batch |
| `OneFlowPerConversation` | `inventory`, `Networks = {"coincidence"}` | a client that calls an unknown port from one of the table is taken for the server once its handshake is over |
| `MacLookupFindsNoIp`, `MergedOnIpTraffic` | `inventory` | SELECT still finds a row by its MAC that has just got an address; a MAC-only row is not merged when the address was seen first |
| `GatewayIsFound` | `inventory`, `Networks = {"addresses"}`, `PublicIps = {p1, p2}` | a MAC learned since the last flush is not seen |
| `OneGatewayPerMac` | `inventory`, `Networks = {"addresses"}`, `PublicIps = {p1, p2, p3}`, `Macs = {m1}` | the oldest row may learn the MAC last |
| `RacingRunsConverge` | `capture_sessions` | two uploads that find a device at once: one ends in error |
| `FailedUploadsSayError` | `capture_sessions`, `Faults = {}` | an upload whose last flush is the one to find its rows deleted is caught by nobody, and its session stays `running` |
| `NothingOutlivesSessions`, `SeenDevicesSurvive` | `capture_sessions` | a device that two sessions have seen outlives both, or goes with the first, depending on the evidence |
| `EveryoneCanSignIn` | `accounts` | a name that two organizations use cannot sign in |
| `ServerStarts` | `accounts` | the backfill of a super admin runs into a user with the same name |
| `SuperAdminsAreSeeded` | `accounts` | super admins make super admins |
| `NoFindingTwice` | `vuln_scan` | the unique key of a finding always holds a NULL, so two scans insert it twice |
| `SearchesNeverBreakScans` | `vuln_scan` | a commit that runs into another scan's cache row leaves the Session unusable |
| `AnswersAreAsFreshAsTheyClaim` | `vuln_scan_live` | a scan whose answer equals what it had loaded writes the date alone, onto an older answer that another scan has stored meanwhile |
| `UnderThePublicCap` | `vuln_scan_live`, `Interval = 1`, `Window = 6`, `Cap = 5` (ticks of 5.5 s) | six calls 5.5 s apart take 27.5 s, less than the window of 30 |
| `HierarchyIsIdempotent` | `startup` | the first zone is given a sensor at the next start, though the organization has one elsewhere |
| `ProtocolRowsAreUnique` | `evidence` | a NULL port equals no other: two runs insert the service twice |
| `OtServersStayKnown` | `evidence` | a run writes the weaker guess that its own copy led to |

## What is proved

`tlapm <module>.tla` checks every proof. The assumptions are the ASSUMEs of the modules, which
TLC evaluates in every run: bounds are naturals, NULL is no value.

* `CaptureWorkerProofs`: types, the accounting of packets, the control invariants and the
  refinement of `CaptureLedger`, for any queue, batch, requests and failures. Accounting is
  inductive with types alone, as the batch and both counters are explicit. The control
  properties are not: `ControlInv` adds where the start request is while the worker is not yet
  registered, and that a request between the pop and the join is the only one and excludes the
  registration. The refinement follows step by step, each action mapping to one of the ledger's
  or a stutter. `SoleInv` is for `SoleStopBooksWhatItTook`: from the request that stops the sniffer on,
  if it is the only one and waits, the row is still running when the consumer reads it. What the consumer leaves in
  the queue when it quits is not in the row, and the theorem says so.
* `CaptureSessionsProofs`: types, `NoDanglingRows`, `OthersKeepTheirData`, `EvidentDevicesStay`, for
  any organizations, hosts, sessions, requests. `NoDanglingRows` speaks of the database, and
  what gets there comes from open transactions: the inductive invariant adds `Coherent`, that what
  a run holds is there, is its own INSERT, or is known to be gone; that it has rows only on
  those; and that devices being scanned exist. A deletion preserves it because it changes
  `known` (`Forget`) or fails on a foreign key (`RequestFails`).
* `AccountsProofs`: types, `RowsAreSound`, `TenantsApart`, `ASuperAdminRemains`, `LastAdminStays`, for any
  users, organizations, startups and concurrent requests. `RequestsHold` is the strengthening for the first ones:
  the target of a checked request was a row, and is no super admin if its role is to change, so
  that what a commit finds later is still covered by the check. `CalmHolds` is the one for the
  last two: while requests come one at a time, the others that were counted at the check are there at the commit.
* `VulnScanProofs`: types, `OnlyRacesDuplicate`, `ReportedFindingsAreStored`, `StaleAnswersAreNotRedated`, `CallsAreSpaced`, for
  any scans, devices, rules, intervals. That a finding has at most as many rows as scans is inductive
  only together with what each scan may still add: a scan that has a finding pending counts as one of
  its rows. What a response will list is committed, pending in a scan that is not broken, or never
  answered. An answer is older than its date only where another scan has stored it after that date: `DatesHold` says
  of a scan that waits that the row either holds what it has loaded or was written since it asked, so that
  a date written alone goes onto the same answer or onto one of an overlapping scan. The age
  of the last call by the limiter's, which the holder of the lock makes wait.
* `StartupProofs`: types, `CapturesHaveTheirSensors`, `StartsComplete`, `AddressesStayUnique`, `OnlyUploadsAreOrphaned`,
  `NothingChangesHands`, for any databases of the three ages, and any bounds. Its invariant says per phase of a start what is
  done already: which columns are NULL, who has an organization, that each
  organization up to `orgs` has its first site, zone and sensor (`Rooted`), that addresses are flat until organizations are
  backfilled (`FlatAddresses`, from which the unique index follows), and that a session with a sensor has an
  organization.

* `EvidenceProofs`: types, `ServicesHaveOneRow`, `OtServersAreKnown`, `CertaintyGrows`, for any runs, services,
  headers, names and claims, over lemmas on the tables: some signature and some type is the best, and an
  industrial protocol weighs in whatever is. `UpToDate` is the strengthening: as long as no other run has committed
  since a run loaded the device, its `base` is what its transaction finds, so that a write of what changed
  is a write of all it holds, which has only grown (`Growing`); that a row about to be inserted is not there yet; and that the
  run knows what the services it finds weigh.

* `InventoryProofs`: types, `OneRowPerAddress`, `CacheMirrorsQueries`, `NoKeyInsertedTwice`,
  `ServiceIsClassified`, `ServicesWereSeen`, `IdentityIsKept`, for any networks and frames, addresses,
  names and vendors, with a cache or without, as far as each property asks for one.
  * *The invariant.* None of them is inductive alone. `SqlLags`: what SELECT sees is the objects with some addresses
    still missing, and each row has one; `CacheHolds`: an entry of the cache names a row with that address, which has
    no IP if it is found by its MAC; `CacheCovers`: a row whose IP SELECT does not see yet is in the cache under it;
    `KeysFound`: a key not flushed is in the cache's sets. Together they say that a lookup, cache first and then
    SELECT, finds the row if there is one, so that none is made twice. TLC checked `InventoryInv` before it was proved.
  * *The argument.* A handler is a function from states to states, and `Leads(s, t)` says that `t` is sound if `s` is,
    and keeps the rows of `s` and what is known of them. Each function of the code gets a lemma that it leads, from
    `Put` to `IngestPacketRecord`, and a handler is their composition (`LeadsIsTransitive`). In two places a function is
    called on a state that is not sound: between a merge and `Remember` (`NearlySound`: the cache is right except
    about the row just merged), and between the INSERT of a service and the classification of its device (`Consistent`).
  * *Lists of hints* are folded over by recursive functions. The library's induction theorems take an operator, so
    `UpTo` does induction by the least counterexample (`LeastExists`) for a set, and `IterationStays` for such functions.
  * *Where services come from.* `ServicesWereSeen` needs that what a packet has shown stays so: a row's addresses never
    change once known, so what was seen of them still holds of the row (`Seen`, `Witnessed`) through merges, and `Host`
    follows the rows of both ends from their lookup to the INSERT. It holds for any frames: `FramesAssumption` only types
    them. It does not say that the port heuristic is right: an end may be a server's unless it is
    the client's end of a handshake or, outside of one, has an unknown port above the other's. `OneFlowPerConversation` shows what the heuristic gets wrong.

So every invariant and every action property of the passing runs is a theorem. Only model-checked are the
liveness properties, `StopReturns`, `QueueRecovers`, `PcapEnds` and `ScansEnd`, as fairness and ENABLED are out of the
prover's reach; and, of course, the claims that TLC refutes. There are no RECURSIVE operators: the two recursions
(`ApplyIdentityHints`, `ApplyHostnameHints`) are functions on the numbers of hints applied.

## Plan

Written first, as the heart of the system: worker and ledger, inventory, sessions, accounts,
and their proofs; then the scans, the startup with the hierarchy, the evidence of several runs with the pure
tables, and their proofs; then frames, names, identities and protocols under the inventory, and the inventory's
proofs. Left, in this order:

1. `CaptureSessions` as an implementation of an abstract store of tenants, in which a deletion takes one tenant's
   rows and nothing else.
2. The edits of the inventory (`routes_inventory.py`), whose custom fields outweigh what is detected.

## Not modelled

How bytes become fields: Scapy, and the parsers inside the extractors of `hostname_detect.py` and
`identity_detect.py`, which tests reach well; banners, models, versions and the texts of evidence, which nothing
modelled reads; BACnet, which gives only such texts. An administrator's edits of a device: of what is
modelled only the classifier reads them, a custom name or vendor in place of the detected one
(`display_name`, `display_vendor`), so the models are of devices nobody has renamed. Reads, schemas, texts
and the dashboard keep no state that anything modelled reads. Cryptography, Docker files and the manual are out of scope.
