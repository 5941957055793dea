------------------------------ MODULE Evidence ------------------------------
(***************************************************************************)
(* What several ingest runs at once make of one device                     *)
(* (inventory/inventory_service.py, under pcap_loader.py and the batches   *)
(* of live_capture.py).  Each run has a Session of its own, that loads the *)
(* device when first it meets it, never again (expire_on_commit is off),   *)
(* and writes what it has changed since: at a flush, inside a transaction  *)
(* that locks the row, or at a commit.  Inventory has the packets of one   *)
(* run and all the devices; here is one device, found by its MAC until a   *)
(* run gives it its ip.                                                    *)
(***************************************************************************)
EXTENDS Naturals, Sequences, FiniteSets, OsFingerprint, DeviceClassifier

CONSTANTS
    Runs,
    Uploads,              \* the runs that commit as they go; a batch commits once
    Headers,              \* the TCP SYN and SYN-ACK headers of the device
    Names,                \* its host names
    Vendor,               \* the vendor of its MAC
    Claims,               \* the types that it may say it is of
    Profinet,             \* PROFINET, a service that has no port
    OtPorts, ItPorts,     \* services that have one
    None

Services == {Profinet} \cup OtPorts \cup ItPorts
OtServices == {Profinet} \cup OtPorts

ASSUME EvidenceAssumption ==
    /\ Uploads \subseteq Runs /\ None \notin Runs
    /\ Headers \subseteq Syn /\ Vendor \subseteq VendorWords
    /\ Names \subseteq SUBSET HostWords /\ Claims \subseteq Types
    /\ Profinet \notin OtPorts \cup ItPorts /\ None \notin Services
    /\ IsFiniteSet(OtPorts \cup ItPorts)

VARIABLES
    db,      \* committed: the device's row, and how many rows each service has
    draft,   \* the same, as the transaction of the writer has it
    writer,  \* the run that has flushed and not committed
    run,     \* the runs
    clean    \* has no run yet written to a row that has changed since it loaded it?

vars == <<db, draft, writer, run, clean>>

Signature == SignatureNames \cup {"cdp_lldp_announcement", "none"}

Device == [ip : BOOLEAN, host : SUBSET HostWords, os : Signature, confidence : 0 .. 12,
           type : Types \cup {"none"}, score : 0 .. 8]

Rows == [device : Device, copies : [Services -> Nat]]

\* base: the device as it was loaded or last flushed; held: as the run has it;
\* known: the run's cache of services; raced: has another run committed since?
Run == [pc : {"closed", "ready", "adding"}, service : Services \cup {None},
        base : Device, held : Device, known : SUBSET Services, raced : BOOLEAN]

TypeOK ==
    /\ db \in Rows /\ draft \in Rows
    /\ writer \in Runs \cup {None}
    /\ run \in [Runs -> Run]
    /\ clean \in BOOLEAN

NewDevice == [ip |-> FALSE, host |-> {}, os |-> "none", confidence |-> 0,
              type |-> "none", score |-> 0]

Closed == [pc |-> "closed", service |-> None, base |-> NewDevice, held |-> NewDevice,
           known |-> {}, raced |-> FALSE]

Init ==
    /\ db = [device |-> NewDevice, copies |-> [s \in Services |-> 0]]
    /\ draft = db
    /\ writer = None
    /\ run = [r \in Runs |-> Closed]
    /\ clean = TRUE

\* What the queries of a run see.
Seen(r) == IF writer = r THEN draft ELSE db

MayWrite(r) == writer \in {None, r}

-----------------------------------------------------------------------------
(***************************************************************************)
(* The guesses, on the device as a run holds it.                           *)
(***************************************************************************)
\* apply_os_guess
ApplyOsGuess(device, os, confidence) ==
    IF confidence <= device.confidence THEN device
    ELSE [device EXCEPT !.os = os, !.confidence = confidence]

\* apply_device_type_guess, given the services that its query finds
ApplyTypeGuess(device, copies) ==
    LET served == {s \in Services : copies[s] > 0}
        guess == Classify(Vendor, device.host, device.os, served \cap OtServices # {},
                          Cardinality(served))
    IN  IF guess.score <= device.score THEN device
        ELSE [device EXCEPT !.type = guess.type, !.score = guess.score]

\* apply_identity_hints: what a device says of itself needs no votes.
ApplyClaim(device, type) == [device EXCEPT !.type = type, !.score = 8]

\* Only what the run has changed is written.
Written(base, held, row) ==
    [ip |-> IF held.ip # base.ip THEN held.ip ELSE row.ip,
     host |-> IF held.host # base.host THEN held.host ELSE row.host,
     os |-> IF held.os # base.os THEN held.os ELSE row.os,
     confidence |-> IF held.confidence # base.confidence THEN held.confidence
                    ELSE row.confidence,
     type |-> IF held.type # base.type THEN held.type ELSE row.type,
     score |-> IF held.score # base.score THEN held.score ELSE row.score]

-----------------------------------------------------------------------------
(***************************************************************************)
(* The sessions of the runs.                                               *)
(***************************************************************************)
\* get_or_create_device finds the device: a frame without an ip, by its MAC,
\* as long as its row has no ip.
Load(r, ip) ==
    /\ run[r].pc = "closed"
    /\ ip \/ ~db.device.ip
    /\ run' = [run EXCEPT ![r] = [Closed EXCEPT !.pc = "ready", !.base = db.device,
                                      !.held = [db.device EXCEPT !.ip = @ \/ ip]]]
    /\ UNCHANGED <<db, draft, writer, clean>>

\* The same for a later frame; the ip of the row may not be flushed yet.
FoundByMac(r) == run[r].pc = "ready" /\ (~run[r].held.ip \/ ~Seen(r).device.ip)

FoundByIp(r) == run[r].pc = "ready"

Addressed(device) == [device EXCEPT !.ip = TRUE]

Hold(r, device) ==
    /\ run' = [run EXCEPT ![r].held = device]
    /\ UNCHANGED <<db, draft, writer, clean>>

\* A SYN or a SYN-ACK that the device sends.
Fingerprinted(r, syn) ==
    LET guess == Fingerprint(syn)
        held == ApplyOsGuess(Addressed(run[r].held), guess.os, guess.confidence)
    IN  FoundByIp(r) /\ Hold(r, ApplyTypeGuess(held, Seen(r).copies))

\* A CDP or LLDP frame.
Announced(r) ==
    LET held == ApplyOsGuess(run[r].held, "cdp_lldp_announcement", 12)
    IN  FoundByMac(r) /\ Hold(r, ApplyTypeGuess(held, Seen(r).copies))

\* A packet in which it says what it is.
Identified(r, type) ==
    FoundByIp(r) /\ Hold(r, ApplyClaim(Addressed(run[r].held), type))

\* A packet with its host name, which is looked for by its ip.
Named(r, host) ==
    LET held == Addressed(run[r].held)
    IN  /\ FoundByIp(r)
        /\ IF Seen(r).device.ip /\ host # held.host
           THEN Hold(r, ApplyTypeGuess([held EXCEPT !.host = host], Seen(r).copies))
           ELSE Hold(r, held)

\* The transaction of a run is rolled back, and the run is over: an upload is
\* in error, a batch is dropped.
RollBack(r) ==
    /\ run' = [run EXCEPT ![r] = Closed]
    /\ draft' = IF writer = r THEN db ELSE draft
    /\ writer' = IF writer = r THEN None ELSE writer
    /\ UNCHANGED <<db, clean>>

\* Any exception, or the end of the process.
Abort(r) == run[r].pc # "closed" /\ RollBack(r)

\* A packet of a service of the device, up to the query of upsert_protocol:
\* one_or_none raises when it finds two rows.
LookUp(r, s) ==
    /\ IF s = Profinet THEN FoundByMac(r) ELSE FoundByIp(r)
    /\ LET held == IF s = Profinet THEN run[r].held ELSE Addressed(run[r].held)
           rows == Seen(r).copies[s]
       IN  \/ /\ s \in run[r].known \/ rows = 1
              /\ run' = [run EXCEPT ![r].held = ApplyTypeGuess(held, Seen(r).copies),
                                    ![r].known = @ \cup {s}]
              /\ UNCHANGED <<db, draft, writer, clean>>
           \/ /\ s \notin run[r].known /\ rows = 0
              /\ run' = [run EXCEPT ![r].held = held, ![r].pc = "adding", ![r].service = s]
              /\ UNCHANGED <<db, draft, writer, clean>>
           \/ /\ s \notin run[r].known /\ rows > 1
              /\ RollBack(r)

\* The unique key holds the port, and a NULL differs from every NULL.
Unique(s) == s # Profinet

\* Mutant: the device is classified before the service is flushed.
InsertLast(r) ==
    /\ run[r].pc = "adding"
    /\ MayWrite(r)
    /\ LET s == run[r].service
           copies == [draft.copies EXCEPT ![s] = @ + 1]
       IN  IF Unique(s) /\ draft.copies[s] > 0 THEN RollBack(r)
           ELSE /\ draft' = [device |-> Written(run[r].base, run[r].held, draft.device),
                             copies |-> copies]
                /\ writer' = r
                /\ run' = [run EXCEPT ![r] = [run[r] EXCEPT !.pc = "ready", !.service = None,
                               !.base = run[r].held,
                               !.held = run[r].held,
                               !.known = @ \cup {s}]]
                /\ UNCHANGED <<db, clean>>

\* Mutant: the database has lost the index.
InsertUnchecked(r) ==
    /\ run[r].pc = "adding"
    /\ MayWrite(r)
    /\ LET s == run[r].service
           copies == [draft.copies EXCEPT ![s] = @ + 1]
       IN  IF FALSE THEN RollBack(r)
           ELSE /\ draft' = [device |-> Written(run[r].base, run[r].held, draft.device),
                             copies |-> copies]
                /\ writer' = r
                /\ run' = [run EXCEPT ![r] = [run[r] EXCEPT !.pc = "ready", !.service = None,
                               !.base = run[r].held,
                               !.held = ApplyTypeGuess(run[r].held, copies),
                               !.known = @ \cup {s}]]
                /\ UNCHANGED <<db, clean>>

\* The rest of that packet: the row is flushed, and the device with it, once no
\* other run has the device's row locked.
Insert(r) ==
    /\ run[r].pc = "adding"
    /\ MayWrite(r)
    /\ LET s == run[r].service
           copies == [draft.copies EXCEPT ![s] = @ + 1]
       IN  IF Unique(s) /\ draft.copies[s] > 0 THEN RollBack(r)
           ELSE /\ draft' = [device |-> Written(run[r].base, run[r].held, draft.device),
                             copies |-> copies]
                /\ writer' = r
                /\ run' = [run EXCEPT ![r] = [run[r] EXCEPT !.pc = "ready", !.service = None,
                               !.base = run[r].held,
                               !.held = ApplyTypeGuess(run[r].held, copies),
                               !.known = @ \cup {s}]]
                /\ UNCHANGED <<db, clean>>

\* Mutant: the whole of the object is written.
CommitAll(r, ends) ==
    /\ run[r].pc = "ready"
    /\ MayWrite(r)
    /\ ends \/ r \in Uploads
    /\ db' = [draft EXCEPT !.device = run[r].held]
    /\ draft' = db'
    /\ writer' = None
    /\ run' = [q \in Runs |->
                  IF q = r THEN IF ends THEN Closed ELSE [run[r] EXCEPT !.base = run[r].held]
                  ELSE IF run[q].pc = "closed" THEN run[q] ELSE [run[q] EXCEPT !.raced = TRUE]]
    /\ clean' = (clean /\ ~run[r].raced)

\* A commit: the last of the run, or one of an upload's, which keeps its copy.
Commit(r, ends) ==
    /\ run[r].pc = "ready"
    /\ MayWrite(r)
    /\ ends \/ r \in Uploads
    /\ db' = [draft EXCEPT !.device = Written(run[r].base, run[r].held, @)]
    /\ draft' = db'
    /\ writer' = None
    /\ run' = [q \in Runs |->
                  IF q = r THEN IF ends THEN Closed ELSE [run[r] EXCEPT !.base = run[r].held]
                  ELSE IF run[q].pc = "closed" THEN run[q] ELSE [run[q] EXCEPT !.raced = TRUE]]
    /\ clean' = (clean /\ ~run[r].raced)

Next ==
    \E r \in Runs :
        \/ \E ip \in BOOLEAN : Load(r, ip)
        \/ \E syn \in Headers : Fingerprinted(r, syn)
        \/ Announced(r)
        \/ \E type \in Claims : Identified(r, type)
        \/ \E host \in Names : Named(r, host)
        \/ \E s \in Services : LookUp(r, s)
        \/ Insert(r)
        \/ \E ends \in BOOLEAN : Commit(r, ends)
        \/ Abort(r)

Spec == Init /\ [][Next]_vars

-----------------------------------------------------------------------------
(***************************************************************************)
(* Properties.                                                             *)
(***************************************************************************)
\* inventory_service.py:199-202, device_classifier.py:15-18: once a device is
\* known to serve an industrial protocol it is classified by no less than that,
\* unless two runs have written over each other.
OtServersAreKnown ==
    clean /\ (\E s \in OtServices : db.copies[s] > 0) => db.device.score >= 6

\* A service has one row: also PROFINET, which has no port for the unique key
\* to tell, unless two runs have met it first.
ServicesHaveOneRow ==
    \A s \in Services : (Unique(s) \/ clean) => db.copies[s] <= 1

\* What is on record of a device only becomes more certain, and its ip stays,
\* unless two runs have written over each other.
CertaintyGrows ==
    [][/\ clean' => /\ db.device.confidence <= db'.device.confidence
                    /\ db.device.score <= db'.device.score
       /\ db.device.ip => db'.device.ip]_vars

-----------------------------------------------------------------------------
(***************************************************************************)
(* What the code says of itself, and concurrent runs refute.               *)
(***************************************************************************)
\* models.py:291-293: (device, protocol, port, role) is unique.  Where it is not,
\* upsert_protocol's one_or_none raises in every later run that meets the
\* device's PROFINET.
ProtocolRowsAreUnique == \A s \in Services : db.copies[s] <= 1

\* inventory_service.py:199-202, "never-downgrade", whoever writes.
OtServersStayKnown == (\E s \in OtServices : db.copies[s] > 0) => db.device.score >= 6
=============================================================================
