---------------------------- MODULE CaptureSessions ----------------------------
(***************************************************************************)
(* All the captures of one server and the inventory they share: live       *)
(* workers and pcap uploads of several organizations, ingesting at the     *)
(* same time, while sessions are stopped, deleted and wiped, devices are   *)
(* scanned, and the server restarts.                                       *)
(*                                                                         *)
(* A step is a request up to its commit (in two, around the blocking       *)
(* worker.stop()), or one SELECT, INSERT or commit of an ingest run: a     *)
(* live batch or a whole pcap file, each with a Session of its own.        *)
(* CaptureWorker has the threads of a single live capture, Inventory the   *)
(* contents of the rows.  The database is the default one, Postgres: it    *)
(* has foreign keys, gives no id twice, and makes an INSERT wait for       *)
(* another transaction's INSERT of the same key.                           *)
(***************************************************************************)
EXTENDS Naturals, FiniteSets

CONSTANTS
    Orgs, Hosts,  \* organizations; (mac, ip) pairs, which each may have
    Sessions,     \* capture_sessions ids
    Talks,        \* sets of hosts one device_protocols or flows row can join
    None, Absent, \* SQL NULL; no such row
    Scannable,    \* bound: the hosts whose devices are scanned
    MaxRequests,  \* bound: stop, delete and wipe requests at the same time
    Faults        \* what may go wrong: "restart", "connection", "sniffer"

ASSUME ConstantsAssumption ==
    /\ Talks \subseteq SUBSET Hosts
    /\ Scannable \subseteq Hosts
    /\ None # Absent
    /\ {None, Absent} \cap (Orgs \cup Sessions) = {}
    /\ MaxRequests \in Nat
    /\ Faults \subseteq {"restart", "connection", "sniffer"}

VARIABLES
    session,    \* the capture_sessions rows
    device,     \* the devices rows: each one's capture_session_id, or Absent
    evidence,   \* the device_protocols and flows rows
    findings,   \* the devices that have vulnerability_findings rows
    workers,    \* LiveCaptureManager._workers
    ingesters,  \* the sessions with a live consumer thread or a pcap task
    run,        \* what each one's open transaction holds
    requests,   \* stop, delete and wipe requests past worker.stop()
    scans,      \* the devices being scanned
    abandoned   \* history: the sessions whose pcap task was ended by an
                \* exception that nothing catches

database == <<session, device, evidence, findings>>
vars == <<database, workers, ingesters, run, requests, scans, abandoned>>

-----------------------------------------------------------------------------
Session == [org : Orgs \cup {None}, kind : {"live", "pcap"},
            status : {"unused", "running", "stopped", "completed", "error", "deleted"},
            error : {"", "start", "unique", "stale", "deadlock", "failure"}]

\* What a run knows of a host: nothing yet, that there was no such row, a row
\* it holds an object for, or an object whose row has been deleted since.
Run == [open : BOOLEAN, known : [Hosts -> {"no", "missing", "held", "gone"}],
        touched : SUBSET Hosts,  \* objects it changed since its last commit
        added : SUBSET Hosts,    \* devices it inserted since
        rows : SUBSET Talks]     \* evidence it added since

ClosedRun == [open |-> FALSE, known |-> [h \in Hosts |-> "no"],
              touched |-> {}, added |-> {}, rows |-> {}]

Requests == [what : {"stop", "delete"}, on : Sessions]
                \cup [what : {"wipe"}, on : Orgs \cup {None}]

TypeOK ==
    /\ session \in [Sessions -> Session]
    /\ device \in [Orgs \X Hosts -> {Absent, None} \cup Sessions]
    /\ evidence \subseteq [on : Talks, by : Sessions]
    /\ findings \subseteq Orgs \X Hosts
    /\ workers \subseteq Sessions
    /\ ingesters \subseteq Sessions
    /\ run \in [Sessions -> Run]
    /\ requests \subseteq Requests
    /\ scans \subseteq Orgs \X Hosts
    /\ abandoned \subseteq Sessions

Init ==
    /\ session = [s \in Sessions |->
                     [org |-> None, kind |-> "live", status |-> "unused", error |-> ""]]
    /\ device = [d \in Orgs \X Hosts |-> Absent]
    /\ evidence = {}
    /\ findings = {}
    /\ workers = {}
    /\ ingesters = {}
    /\ run = [s \in Sessions |-> ClosedRun]
    /\ requests = {}
    /\ scans = {}
    /\ abandoned = {}

Exists(s) == session[s].status \notin {"unused", "deleted"}
OrgOf(s) == session[s].org
Key(s, h) == <<OrgOf(s), h>>  \* the device a session takes the host for

-----------------------------------------------------------------------------
\* Sessions begin.

Begin(s, o, kind) ==
    /\ session[s].status = "unused"
    /\ session' = [session EXCEPT
                      ![s] = [org |-> o, kind |-> kind, status |-> "running", error |-> ""]]
    /\ ingesters' = ingesters \cup {s}

StartLive(s, o) ==
    /\ Begin(s, o, "live")
    /\ workers' = workers \cup {s}
    /\ UNCHANGED <<device, evidence, findings, run, requests, scans, abandoned>>

\* The sniffer would not start.
StartLiveFails(s, o) ==
    /\ session[s].status = "unused"
    /\ session' = [session EXCEPT
                      ![s] = [org |-> o, kind |-> "live", status |-> "error", error |-> "start"]]
    /\ UNCHANGED <<device, evidence, findings, workers, ingesters, run, requests, scans,
                   abandoned>>

UploadPcap(s, o) ==
    /\ Begin(s, o, "pcap")
    /\ UNCHANGED <<device, evidence, findings, workers, run, requests, scans, abandoned>>

-----------------------------------------------------------------------------
\* Ingest runs.

Reading(s) == run[s].open /\ \A h \in Hosts : run[s].known[h] # "missing"

\* _ingest_batch and _process_pcap_background look the session up first: a
\* batch of one that is not running is skipped, a file of a deleted one left.
OpenRun(s) ==
    /\ s \in ingesters
    /\ ~run[s].open
    /\ \/ session[s].kind = "live" /\ session[s].status = "running"
       \/ session[s].kind = "pcap" /\ Exists(s)
    /\ run' = [run EXCEPT ![s].open = TRUE]
    /\ UNCHANGED <<database, workers, ingesters, requests, scans, abandoned>>

\* A consumer whose worker was stopped drains its queue and exits; so does a
\* task that finds no session.  A consumer that stop() has not told to, having
\* raised before, polls on: that it may exit as well changes nothing here, for
\* one that finds its queue empty does nothing.
IngesterExits(s) ==
    /\ s \in ingesters
    /\ ~run[s].open
    /\ IF session[s].kind = "live" THEN s \notin workers ELSE ~Exists(s)
    /\ ingesters' = ingesters \ {s}
    /\ UNCHANGED <<database, workers, run, requests, scans, abandoned>>

\* get_or_create_device: an object from the cache or from a SELECT is changed
\* (last_seen, at least) ...
FindDevice(s, h) ==
    /\ Reading(s)
    /\ IF run[s].known[h] = "no" /\ device[Key(s, h)] = Absent
       THEN run' = [run EXCEPT ![s].known[h] = "missing"]
       ELSE run' = [run EXCEPT ![s].known[h] = IF @ = "no" THEN "held" ELSE @,
                               ![s].touched = @ \cup {h}]
    /\ UNCHANGED <<database, workers, ingesters, requests, scans, abandoned>>

\* ... and a row that was not found is inserted, once no other transaction
\* holds the same key.
WaitsFor(s, t) ==
    /\ s # t
    /\ run[t].open
    /\ OrgOf(s) = OrgOf(t)
    /\ \E h \in run[t].added : run[s].known[h] = "missing"

InsertDevice(s, h) ==
    /\ run[s].open
    /\ run[s].known[h] = "missing"
    /\ \A t \in Sessions : ~WaitsFor(s, t)
    /\ device[Key(s, h)] = Absent
    /\ run' = [run EXCEPT ![s].known[h] = "held", ![s].added = @ \cup {h}]
    /\ UNCHANGED <<database, workers, ingesters, requests, scans, abandoned>>

\* upsert_protocol, upsert_flow, on the devices of the packet at hand.  The
\* rows of two sessions on the same hosts differ in their ports; that a row
\* which is there already is only counted up is left out.
AddEvidence(s, hosts) ==
    /\ Reading(s)
    /\ hosts \subseteq run[s].touched \cup run[s].added
    /\ run' = [run EXCEPT ![s].rows = @ \cup {hosts}]
    /\ UNCHANGED <<database, workers, ingesters, requests, scans, abandoned>>

\* The UPDATE of a row that is gone matches nothing and raises; so does the
\* commit's UPDATE of the session's own counters.
Stale(s) == ~Exists(s) \/ \E h \in run[s].touched : run[s].known[h] = "gone"

Stored(s) ==
    /\ device' = [d \in Orgs \X Hosts |->
                     IF d[1] = OrgOf(s) /\ d[2] \in run[s].added THEN s ELSE device[d]]
    /\ evidence' = evidence \cup [on : run[s].rows, by : {s}]

CommitBatch(s) ==
    /\ Reading(s)
    /\ session[s].kind = "live"
    /\ ~Stale(s)
    /\ Stored(s)
    /\ run' = [run EXCEPT ![s] = ClosedRun]
    /\ UNCHANGED <<session, findings, workers, ingesters, requests, scans, abandoned>>

\* process_pcap_file, now and then: the objects and the cache stay.
CommitProgress(s) ==
    /\ Reading(s)
    /\ session[s].kind = "pcap"
    /\ ~Stale(s)
    /\ Stored(s)
    /\ run' = [run EXCEPT ![s].touched = {}, ![s].added = {}, ![s].rows = {}]
    /\ UNCHANGED <<session, findings, workers, ingesters, requests, scans, abandoned>>

FinishPcap(s) ==
    /\ Reading(s)
    /\ session[s].kind = "pcap"
    /\ ~Stale(s)
    /\ Stored(s)
    /\ run' = [run EXCEPT ![s] = ClosedRun]
    /\ session' = [session EXCEPT ![s].status = "completed"]
    /\ ingesters' = ingesters \ {s}
    /\ UNCHANGED <<findings, workers, requests, scans, abandoned>>

\* Mutant: the message goes where the status belongs.
FailSwapped(s, why) ==
    /\ run[s].open
    /\ run' = [run EXCEPT ![s] = ClosedRun]
    /\ ingesters' = IF session[s].kind = "live" THEN ingesters ELSE ingesters \ {s}
    /\ session' = IF Exists(s) THEN [session EXCEPT ![s].status = why] ELSE session
    /\ UNCHANGED <<device, evidence, findings, workers, requests, scans, abandoned>>

\* Mutant: a pcap task dies of its exception without a word.
FailUncaught(s, why) ==
    /\ run[s].open
    /\ run' = [run EXCEPT ![s] = ClosedRun]
    /\ ingesters' = IF session[s].kind = "live" THEN ingesters ELSE ingesters \ {s}
    /\ UNCHANGED <<database, workers, requests, scans, abandoned>>

\* An exception that is caught rolls the run back.  A live batch is dropped
\* and the next one goes on; a pcap session ends in error, if there still is
\* one.
Fail(s, why) ==
    /\ run[s].open
    /\ run' = [run EXCEPT ![s] = ClosedRun]
    /\ IF session[s].kind = "live" THEN UNCHANGED <<session, ingesters>>
       ELSE /\ ingesters' = ingesters \ {s}
            /\ session' = IF Exists(s)
                          THEN [session EXCEPT ![s].status = "error", ![s].error = why]
                          ELSE session
    /\ UNCHANGED <<device, evidence, findings, workers, requests, scans, abandoned>>

\* For a file, in a flush or a commit before the last one.
FailStale(s) ==
    /\ Reading(s)
    /\ Stale(s)
    /\ Fail(s, "stale")

\* uq_device_org_mac_ip: somebody else's INSERT of the key got there first.
FailUnique(s) ==
    /\ \E h \in Hosts : run[s].known[h] = "missing" /\ device[Key(s, h)] # Absent
    /\ Fail(s, "unique")

\* The database breaks the wait of two runs for each other.
FailDeadlock(s) ==
    /\ \E t \in Sessions : WaitsFor(s, t) /\ WaitsFor(t, s)
    /\ Fail(s, "deadlock")

\* A file that is no capture, a value the database refuses, a lost connection.
FailItself(s) == Fail(s, "failure")

\* What a pcap task raises outside its try leaves the session as it was.
Abandon(s) ==
    /\ session[s].kind = "pcap"
    /\ run' = [run EXCEPT ![s] = ClosedRun]
    /\ ingesters' = ingesters \ {s}
    /\ abandoned' = abandoned \cup {s}
    /\ UNCHANGED <<database, workers, requests, scans>>

\* The last commit, which the finally makes, is the one to find rows gone.
FinishPcapFails(s) ==
    /\ Reading(s)
    /\ Stale(s)
    /\ Abandon(s)

\* The connection is lost at the SELECT of the session, at the last commit, or
\* at the one that should write the error.
PcapCutOff(s) ==
    /\ "connection" \in Faults
    /\ s \in ingesters
    /\ Abandon(s)

-----------------------------------------------------------------------------
\* Stop, delete and wipe: first worker.stop(), which may take long, and then
\* the transaction.

Pop(popped, what, on) ==
    /\ Cardinality(requests) < MaxRequests
    /\ workers' = workers \ popped
    /\ requests' = requests \cup {[what |-> what, on |-> on]}
    /\ UNCHANGED <<database, ingesters, run, scans, abandoned>>

PopForStop(s) == Exists(s) /\ session[s].kind = "live" /\ Pop({s}, "stop", s)

PopForDelete(s) == Exists(s) /\ Pop({s}, "delete", s)

\* stop_all: of every organization, whoever asks.
PopForWipe(o) == Pop(workers, "wipe", o)

\* A sniffer had died, or had not begun, so that stop() of its worker raises:
\* that worker has been popped, alone or after others of a wipe, and the
\* request fails before its transaction.
StopRaises(popped) ==
    /\ "sniffer" \in Faults
    /\ popped \subseteq workers
    /\ workers' = workers \ popped
    /\ UNCHANGED <<database, ingesters, run, requests, scans, abandoned>>

Answer(what, on) ==
    /\ [what |-> what, on |-> on] \in requests
    /\ requests' = requests \ {[what |-> what, on |-> on]}
    /\ UNCHANGED <<workers, ingesters, abandoned>>

WriteStopped(s) ==
    /\ Answer("stop", s)
    /\ session' = IF Exists(s) THEN [session EXCEPT ![s].status = "stopped"] ELSE session
    /\ UNCHANGED <<device, evidence, findings, run, scans>>

\* Who holds an object of a row that is deleted does not know it.  A scan of
\* one can only fail: its finding's foreign key does not let it commit.
Forget(gone) ==
    /\ findings' = findings \ gone
    /\ run' = [s \in Sessions |->
                  [run[s] EXCEPT !.known =
                      [h \in Hosts |->
                          IF @[h] = "held" /\ h \notin run[s].added /\ Key(s, h) \in gone
                          THEN "gone" ELSE @[h]]]]
    /\ scans' = scans \ gone

Evident(d, rows) == \E row \in rows : d[1] = OrgOf(row.by) /\ d[2] \in row.on

\* purge_capture_session.
Kept(s) == {row \in evidence : row.by # s}
Found(s) == {d \in Orgs \X Hosts : device[d] = s}

\* Mutant: nobody counts what remains.
FoundPurged(s) == Found(s)

Purged(s) == {d \in Found(s) : ~Evident(d, Kept(s))}

\* Mutant: a device that survives still points at the session.
DeleteSessionKeepsReference(s) ==
    /\ Answer("delete", s)
    /\ Exists(s)
    /\ evidence' = Kept(s)
    /\ device' = [d \in Orgs \X Hosts |-> IF d \in Purged(s) THEN Absent ELSE device[d]]
    /\ Forget(Purged(s))
    /\ session' = [session EXCEPT ![s].status = "deleted"]

DeleteSession(s) ==
    /\ Answer("delete", s)
    /\ Exists(s)
    /\ evidence' = Kept(s)
    /\ device' = [d \in Orgs \X Hosts |->
                     IF d \in Purged(s) THEN Absent
                     ELSE IF d \in Found(s) THEN None
                     ELSE device[d]]
    /\ Forget(Purged(s))
    /\ session' = [session EXCEPT ![s].status = "deleted"]

\* Mutant: no filter by organization.
WipeEverything(o) ==
    /\ Answer("wipe", o)
    /\ evidence' = {}
    /\ device' = [d \in Orgs \X Hosts |-> Absent]
    /\ Forget(Orgs \X Hosts)
    /\ session' = [s \in Sessions |->
                      IF Exists(s) THEN [session[s] EXCEPT !.status = "deleted"] ELSE session[s]]

\* wipe_all_capture_data; a super admin has no organization, and no data.
WipeOrganization(o) ==
    /\ Answer("wipe", o)
    /\ evidence' = {row \in evidence : OrgOf(row.by) # o}
    /\ device' = [d \in Orgs \X Hosts |-> IF d[1] = o THEN Absent ELSE device[d]]
    /\ Forget({d \in Orgs \X Hosts : d[1] = o /\ device[d] # Absent})
    /\ session' = [s \in Sessions |->
                      IF Exists(s) /\ OrgOf(s) = o
                      THEN [session[s] EXCEPT !.status = "deleted"] ELSE session[s]]

\* The session is gone already, or a run committed rows that refer to what
\* is being deleted: the request fails and changes nothing.
RequestFails(what, on) ==
    /\ Answer(what, on)
    /\ what # "stop"
    /\ \/ what = "delete" /\ ~Exists(on)
       \/ \E t \in Sessions :
             /\ run[t].added # {} \/ run[t].rows # {}
             /\ IF what = "wipe" THEN OrgOf(t) = on ELSE OrgOf(t) = OrgOf(on)
    /\ UNCHANGED <<database, run, scans>>

-----------------------------------------------------------------------------
\* scan_device: from the SELECT of the device to the commit of its findings,
\* with the NVD lookups between them.

BeginScan(d) ==
    /\ d[2] \in Scannable
    /\ device[d] # Absent
    /\ scans' = scans \cup {d}
    /\ UNCHANGED <<database, workers, ingesters, run, requests, abandoned>>

EndScan(d) ==
    /\ d \in scans
    /\ findings' = findings \cup {d}
    /\ scans' = scans \ {d}
    /\ UNCHANGED <<session, device, evidence, workers, ingesters, run, requests, abandoned>>

\* The process dies, and the next one sweeps the live sessions it left.
Restart ==
    /\ "restart" \in Faults
    /\ session' = [s \in Sessions |->
                      IF session[s].kind = "live" /\ session[s].status = "running"
                      THEN [session[s] EXCEPT !.status = "stopped"] ELSE session[s]]
    /\ workers' = {}
    /\ ingesters' = {}
    /\ run' = [s \in Sessions |-> ClosedRun]
    /\ requests' = {}
    /\ scans' = {}
    /\ UNCHANGED <<device, evidence, findings, abandoned>>

-----------------------------------------------------------------------------
Ingest(s) ==
    \/ OpenRun(s)
    \/ IngesterExits(s)
    \/ \E h \in Hosts : FindDevice(s, h) \/ InsertDevice(s, h)
    \/ \E hosts \in Talks : AddEvidence(s, hosts)
    \/ CommitBatch(s)
    \/ CommitProgress(s)
    \/ FinishPcap(s)
    \/ FailStale(s)
    \/ FailUnique(s)
    \/ FailDeadlock(s)
    \/ FailItself(s)
    \/ FinishPcapFails(s)
    \/ PcapCutOff(s)

Serve ==
    \/ \E s \in Sessions, o \in Orgs :
          StartLive(s, o) \/ StartLiveFails(s, o) \/ UploadPcap(s, o)
    \/ \E s \in Sessions :
          \/ PopForStop(s) \/ WriteStopped(s)
          \/ PopForDelete(s) \/ DeleteSession(s) \/ RequestFails("delete", s)
    \/ \E o \in Orgs \cup {None} :
          PopForWipe(o) \/ WipeOrganization(o) \/ RequestFails("wipe", o)
    \/ \E popped \in SUBSET Sessions : StopRaises(popped)
    \/ \E d \in Orgs \X Hosts : BeginScan(d) \/ EndScan(d)

Next == Serve \/ (\E s \in Sessions : Ingest(s)) \/ Restart

Spec == Init /\ [][Next]_vars

(***************************************************************************)
(* The threads are scheduled; a batch or a file is finite, so a run that   *)
(* keeps getting back to its next packet gets to its end; and a run that   *)
(* waits for a lock gets it if it is free again and again.  Nobody has to  *)
(* fail on their own, to ask for anything, or to restart.                  *)
(***************************************************************************)
EndRun(s) == CommitBatch(s) \/ FinishPcap(s) \/ FailStale(s) \/ FinishPcapFails(s)

Unblocked(s) ==
    \/ \E h \in Hosts : InsertDevice(s, h)
    \/ FailUnique(s)
    \/ FailDeadlock(s)

Fairness ==
    \A s \in Sessions :
        /\ WF_vars(OpenRun(s))
        /\ WF_vars(session[s].kind = "pcap" /\ IngesterExits(s))
        /\ SF_vars(Unblocked(s))
        /\ SF_vars(EndRun(s))

FairSpec == Spec /\ Fairness

-----------------------------------------------------------------------------
(***************************************************************************)
(* Properties.                                                             *)
(***************************************************************************)

\* Nothing in the database refers to a row that is gone, whoever deletes it
\* while somebody else works with it: not a device's capture_session_id, nor
\* a protocol or flow row's device or session, nor a finding's device.
NoDanglingRows ==
    /\ \A d \in Orgs \X Hosts :
          device[d] \in Sessions => Exists(device[d]) /\ OrgOf(device[d]) = d[1]
    /\ \A row \in evidence :
          /\ Exists(row.by)
          /\ \A h \in row.on : device[Key(row.by, h)] # Absent
    /\ \A d \in findings : device[d] # Absent

\* tests/test_session_management.py:53: whatever is deleted or wiped, a device
\* that a session still there has protocols or flows of stays.
EvidentDevicesStay ==
    [][\A d \in Orgs \X Hosts :
          device[d] # Absent /\ device'[d] = Absent
              => \A row \in evidence : Evident(d, {row}) => session'[row.by].status = "deleted"]_vars

\* tests/test_multi_tenancy.py:109: sessions, devices, evidence and findings
\* are only ever lost by one organization at a time.
Loses(o) ==
    \/ \E s \in Sessions : OrgOf(s) = o /\ Exists(s) /\ session'[s].status = "deleted"
    \/ \E h \in Hosts : \/ device[<<o, h>>] # Absent /\ device'[<<o, h>>] = Absent
                        \/ <<o, h>> \in findings \ findings'
    \/ \E row \in evidence \ evidence' : OrgOf(row.by) = o

OthersKeepTheirData == [][\A o, p \in Orgs : Loses(o) /\ Loses(p) => o = p]_vars

\* A pcap task comes to an end, whatever the other runs hold and whoever
\* deletes what it works on; and it lets its session end with it, unless it was
\* an exception outside its try that ended it.
PcapEnds ==
    \A s \in Sessions :
        session[s].kind = "pcap" /\ s \in ingesters
            ~> /\ s \notin ingesters
               /\ session[s].status = "running" => s \in abandoned

-----------------------------------------------------------------------------
(***************************************************************************)
(* What the project says of captures, and the code does not do.            *)
(***************************************************************************)

\* inventory_service.py:779-780: a wipe "must never reach beyond the calling
\* organization's own data": a running live session keeps its worker unless
\* a request for it or for its organization takes it away.
OnlyItsOwnRequestsStopIt ==
    \A s \in Sessions \ workers :
        session[s].kind = "live" /\ session[s].status = "running"
            => \E r \in requests : r.on \in {s, OrgOf(s)}

\* pcap_loader.py:88-98: the rollback is there, or an exception "propagates out
\* of this function entirely uncaught", and the row "would then never actually
\* reach status "error"": as long as no connection is lost and the server is
\* up, a running upload has a task that works on it.
FailedUploadsSayError ==
    \A s \in Sessions :
        session[s].kind = "pcap" /\ session[s].status = "running" => s \in ingesters

\* README.md:431-435: two captures that create a row for the same address
\* before seeing each other converge on one, "en vez de lanzar un error a
\* media captura".
RacingRunsConverge == \A s \in Sessions : session[s].error \notin {"unique", "deadlock"}

\* inventory_service.py:724-725: "a device seen by more than one capture
\* survives deleting just one of them": no device that a capture has seen,
\* and not only since its last commit, is deleted while the session exists.
SeenDevicesSurvive ==
    \A s \in Sessions, h \in Hosts :
        run[s].known[h] = "gone" /\ h \notin run[s].touched => ~Exists(s)

\* inventory_service.py:721: deleting a session "removes everything a capture
\* session contributed to the shared inventory": an organization without
\* sessions has no devices.
NothingOutlivesSessions ==
    \A d \in Orgs \X Hosts :
        device[d] # Absent => \E s \in Sessions : Exists(s) /\ OrgOf(s) = d[1]
=============================================================================
