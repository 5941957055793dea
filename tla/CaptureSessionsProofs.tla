------------------------- MODULE CaptureSessionsProofs -------------------------
(***************************************************************************)
(* Proofs about CaptureSessions, for any organizations, hosts, sessions    *)
(* and bounds.                                                             *)
(***************************************************************************)
EXTENDS CaptureSessions, TLAPS

\* What the steps of a run rely on: a session unused has none; an
\* object held is that of a row that exists, or is the run's own INSERT;
\* what it changed are objects it has, and evidence is only about those.
RunCoherent(s) ==
    /\ session[s].status = "unused" =>
          ~run[s].open /\ \A h \in Hosts : run[s].known[h] = "no"
    /\ session[s].status # "unused" => OrgOf(s) \in Orgs
    /\ \A h \in Hosts :
          /\ run[s].known[h] = "held" => h \in run[s].added \/ device[Key(s, h)] # Absent
          /\ h \in run[s].touched \cup run[s].added => run[s].known[h] \in {"held", "gone"}
    /\ \A hosts \in run[s].rows : hosts \subseteq run[s].touched \cup run[s].added

\* A scan goes on only while its device exists.
Coherent ==
    /\ \A s \in Sessions : RunCoherent(s)
    /\ \A d \in scans : device[d] # Absent

IInv == TypeOK /\ Coherent /\ NoDanglingRows

-----------------------------------------------------------------------------
\* A closed run is one of the possible runs.
LEMMA ClosedRunTyped == ClosedRun \in Run
<1>1. [h \in Hosts |-> "no"] \in [Hosts -> {"no", "missing", "held", "gone"}]
  OBVIOUS
<1> QED BY <1>1 DEF ClosedRun, Run

\* What an ingest run knows and holds stays in its range.
LEMMA IngestTyped ==
    ASSUME TypeOK, NEW s \in Sessions, Ingest(s)
    PROVE  TypeOK'
<1> USE ClosedRunTyped DEF TypeOK, database
<1>1. run[s] \in Run
  OBVIOUS
<1>2. CASE OpenRun(s)
  <2>1. run' \in [Sessions -> Run]
    BY <1>1, <1>2 DEF OpenRun, Run
  <2> QED BY <2>1, <1>2 DEF OpenRun
<1>3. CASE IngesterExits(s)
  BY <1>3 DEF IngesterExits
<1>4. CASE \E h \in Hosts : FindDevice(s, h)
  <2>1. PICK h \in Hosts : FindDevice(s, h)
    BY <1>4
  <2>2. [run EXCEPT ![s].known[h] = "missing"] \in [Sessions -> Run]
    BY <1>1 DEF Run
  <2>3. [run EXCEPT ![s].known[h] = IF @ = "no" THEN "held" ELSE @,
                    ![s].touched = @ \cup {h}] \in [Sessions -> Run]
    BY <1>1 DEF Run
  <2>5. run' \in [Sessions -> Run]
    BY <2>1, <2>2, <2>3 DEF FindDevice
  <2> QED BY <2>1, <2>5 DEF FindDevice
<1>5. CASE \E h \in Hosts : InsertDevice(s, h)
  <2>1. PICK h \in Hosts : InsertDevice(s, h)
    BY <1>5
  <2>4. run' \in [Sessions -> Run]
    BY <1>1, <2>1 DEF InsertDevice, Run
  <2> QED BY <2>1, <2>4 DEF InsertDevice
<1>6. CASE \E hosts \in Talks : AddEvidence(s, hosts)
  <2>1. PICK hosts \in Talks : AddEvidence(s, hosts)
    BY <1>6
  <2>2. run' \in [Sessions -> Run]
    BY <1>1, <2>1 DEF AddEvidence, Run
  <2> QED BY <2>1, <2>2 DEF AddEvidence
<1>7. ASSUME Stored(s) PROVE /\ device' \in [Orgs \X Hosts -> {Absent, None} \cup Sessions]
                             /\ evidence' \subseteq [on : Talks, by : Sessions]
  <2>1. run[s].rows \subseteq Talks
    BY <1>1 DEF Run
  <2> QED BY <1>7, <2>1 DEF Stored
<1>8. CASE CommitBatch(s)
  <2>1. run' \in [Sessions -> Run]
    BY <1>8 DEF CommitBatch
  <2> QED BY <1>8, <1>7, <2>1 DEF CommitBatch
<1>9. CASE CommitProgress(s)
  <2>1. run' \in [Sessions -> Run]
    BY <1>1, <1>9 DEF CommitProgress, Run
  <2> QED BY <1>9, <1>7, <2>1 DEF CommitProgress
<1>10. CASE FinishPcap(s)
  <2>1. run' \in [Sessions -> Run]
    BY <1>10 DEF FinishPcap
  <2>2. [session EXCEPT ![s].status = "completed"] \in [Sessions -> Session]
    BY DEF Session
  <2>3. session' \in [Sessions -> Session]
    BY <1>10, <2>2 DEF FinishPcap
  <2> QED BY <1>10, <1>7, <2>1, <2>3 DEF FinishPcap
<1>11. ASSUME NEW why \in {"unique", "stale", "deadlock", "failure"}, Fail(s, why)
       PROVE  TypeOK'
  <2>1. run' \in [Sessions -> Run]
    BY <1>11 DEF Fail
  <2>2. [session EXCEPT ![s].status = "error", ![s].error = why] \in [Sessions -> Session]
    BY DEF Session
  <2>3. \/ session' = session
        \/ session' = [session EXCEPT ![s].status = "error", ![s].error = why]
    BY <1>11 DEF Fail
  <2>4. session' \in [Sessions -> Session]
    BY <2>2, <2>3
  <2> QED BY <1>11, <2>1, <2>4 DEF Fail
<1>12. CASE FailStale(s)
  BY <1>11, <1>12 DEF FailStale
<1>13. CASE FailUnique(s)
  BY <1>11, <1>13 DEF FailUnique
<1>14. CASE FailDeadlock(s)
  BY <1>11, <1>14 DEF FailDeadlock
<1>15. CASE FailItself(s)
  BY <1>11, <1>15 DEF FailItself
<1>16. ASSUME Abandon(s) PROVE TypeOK'
  <2>1. run' \in [Sessions -> Run]
    BY <1>16 DEF Abandon
  <2> QED BY <1>16, <2>1 DEF Abandon
<1>17. CASE FinishPcapFails(s) \/ PcapCutOff(s)
  BY <1>16, <1>17 DEF FinishPcapFails, PcapCutOff
<1> QED
  BY <1>2, <1>3, <1>4, <1>5, <1>6, <1>8, <1>9, <1>10, <1>12, <1>13, <1>14, <1>15, <1>17
  DEF Ingest

\* Requests and scans keep the types as well.
LEMMA ServeTyped ==
    ASSUME TypeOK, Serve
    PROVE  TypeOK'
<1> USE DEF TypeOK, database
<1>1. ASSUME NEW s \in Sessions, NEW o \in Orgs,
             StartLive(s, o) \/ StartLiveFails(s, o) \/ UploadPcap(s, o)
      PROVE  TypeOK'
  <2> DEFINE row(k, status, why) == [org |-> o, kind |-> k, status |-> status, error |-> why]
  <2>1. /\ row("live", "running", "") \in Session
        /\ row("live", "error", "start") \in Session
        /\ row("pcap", "running", "") \in Session
    BY DEF Session
  <2>2. \/ session' = [session EXCEPT ![s] = row("live", "running", "")]
        \/ session' = [session EXCEPT ![s] = row("live", "error", "start")]
        \/ session' = [session EXCEPT ![s] = row("pcap", "running", "")]
    BY <1>1 DEF StartLive, StartLiveFails, UploadPcap, Begin
  <2>3. session' \in [Sessions -> Session]
    <3>1. ASSUME NEW r \in Session
          PROVE  [session EXCEPT ![s] = r] \in [Sessions -> Session]
      OBVIOUS
    <3>2. session' = [session EXCEPT ![s] = row("live", "running", "")]
            => session' \in [Sessions -> Session]
      BY <2>1, <3>1
    <3>3. session' = [session EXCEPT ![s] = row("live", "error", "start")]
            => session' \in [Sessions -> Session]
      BY <2>1, <3>1
    <3>4. session' = [session EXCEPT ![s] = row("pcap", "running", "")]
            => session' \in [Sessions -> Session]
      BY <2>1, <3>1
    <3> QED BY <2>2, <3>2, <3>3, <3>4
  <2> QED BY <1>1, <2>3 DEF StartLive, StartLiveFails, UploadPcap, Begin
<1>2. ASSUME NEW popped, NEW what, NEW on, Pop(popped, what, on),
             [what |-> what, on |-> on] \in Requests
      PROVE  TypeOK'
  BY <1>2 DEF Pop
<1>3. ASSUME NEW s \in Sessions, PopForStop(s) \/ PopForDelete(s)
      PROVE  TypeOK'
  BY <1>2, <1>3 DEF PopForStop, PopForDelete, Requests
<1>4. ASSUME NEW o \in Orgs \cup {None}, PopForWipe(o)
      PROVE  TypeOK'
  BY <1>2, <1>4 DEF PopForWipe, Requests
<1>5. ASSUME NEW s \in Sessions, WriteStopped(s)
      PROVE  TypeOK'
  <2>1. [session EXCEPT ![s].status = "stopped"] \in [Sessions -> Session]
    BY DEF Session
  <2>2. session' \in [Sessions -> Session]
    BY <1>5, <2>1 DEF WriteStopped
  <2> QED BY <1>5, <2>2 DEF WriteStopped, Answer
<1>6. ASSUME NEW gone, Forget(gone)
      PROVE  /\ run' \in [Sessions -> Run]
             /\ findings' \subseteq Orgs \X Hosts
             /\ scans' \subseteq Orgs \X Hosts
  <2>1. ASSUME NEW s \in Sessions
        PROVE  run'[s] \in Run
    <3>1. run[s] \in Run
      OBVIOUS
    <3> DEFINE known == [h \in Hosts |->
                            IF /\ run[s].known[h] = "held"
                               /\ h \notin run[s].added
                               /\ Key(s, h) \in gone
                            THEN "gone" ELSE run[s].known[h]]
    <3>2. known \in [Hosts -> {"no", "missing", "held", "gone"}]
      BY <3>1 DEF Run
    <3>3. run'[s] = [run[s] EXCEPT !.known = known]
      BY <1>6 DEF Forget
    <3> HIDE DEF known
    <3> QED BY <3>1, <3>2, <3>3 DEF Run
  <2>2. run' = [s \in Sessions |-> run'[s]]
    BY <1>6 DEF Forget
  <2> QED BY <1>6, <2>1, <2>2 DEF Forget
<1>7. ASSUME NEW s \in Sessions, DeleteSession(s)
      PROVE  TypeOK'
  <2>1. [session EXCEPT ![s].status = "deleted"] \in [Sessions -> Session]
    BY DEF Session
  <2>2. session' \in [Sessions -> Session]
    BY <1>7, <2>1 DEF DeleteSession
  <2>3. device' \in [Orgs \X Hosts -> {Absent, None} \cup Sessions]
    BY <1>7 DEF DeleteSession
  <2>4. evidence' \subseteq [on : Talks, by : Sessions]
    BY <1>7 DEF DeleteSession, Kept
  <2> QED BY <1>6, <1>7, <2>2, <2>3, <2>4 DEF DeleteSession, Answer
<1>8. ASSUME NEW o \in Orgs \cup {None}, WipeOrganization(o)
      PROVE  TypeOK'
  <2>1. ASSUME NEW s \in Sessions
        PROVE  [session[s] EXCEPT !.status = "deleted"] \in Session
    <3>1. session[s] \in Session
      BY DEF TypeOK
    <3> QED BY <3>1 DEF Session
  <2>2. session' \in [Sessions -> Session]
    BY <1>8, <2>1 DEF WipeOrganization
  <2>3. device' \in [Orgs \X Hosts -> {Absent, None} \cup Sessions]
    BY <1>8 DEF WipeOrganization
  <2>4. evidence' \subseteq [on : Talks, by : Sessions]
    BY <1>8 DEF WipeOrganization
  <2> QED BY <1>6, <1>8, <2>2, <2>3, <2>4 DEF WipeOrganization, Answer
<1>9. ASSUME NEW what, NEW on, RequestFails(what, on)
      PROVE  TypeOK'
  BY <1>9 DEF RequestFails, Answer
<1>10. ASSUME NEW d \in Orgs \X Hosts, BeginScan(d) \/ EndScan(d)
       PROVE  TypeOK'
  BY <1>10 DEF BeginScan, EndScan
<1>11. ASSUME NEW popped, StopRaises(popped)
       PROVE  TypeOK'
  BY <1>11 DEF StopRaises
<1> QED BY <1>1, <1>3, <1>4, <1>5, <1>7, <1>8, <1>9, <1>10, <1>11 DEF Serve

\* TypeOK is inductive.
LEMMA TypeInductive == TypeOK /\ [Next]_vars => TypeOK'
<1> SUFFICES ASSUME TypeOK, [Next]_vars PROVE TypeOK'
  OBVIOUS
<1>1. CASE Restart
  <2>1. ASSUME NEW s \in Sessions
        PROVE  [session[s] EXCEPT !.status = "stopped"] \in Session
    <3>1. session[s] \in Session
      BY DEF TypeOK
    <3> QED BY <3>1 DEF Session
  <2>2. session' \in [Sessions -> Session]
    BY <1>1, <2>1 DEF Restart, TypeOK
  <2>3. run' \in [Sessions -> Run]
    BY <1>1, ClosedRunTyped DEF Restart
  <2> QED BY <1>1, <2>2, <2>3 DEF Restart, TypeOK
<1>2. CASE UNCHANGED vars
  BY <1>2 DEF vars, database, TypeOK
<1> QED BY <1>1, <1>2, IngestTyped, ServeTyped DEF Next

\* The server starts well typed.
LEMMA InitTyped == Init => TypeOK
<1> SUFFICES ASSUME Init PROVE TypeOK
  OBVIOUS
<1>1. [org |-> None, kind |-> "live", status |-> "unused", error |-> ""] \in Session
  BY DEF Session
<1>2. session \in [Sessions -> Session]
  BY <1>1 DEF Init
<1>3. run \in [Sessions -> Run]
  BY ClosedRunTyped DEF Init
<1>4. device \in [Orgs \X Hosts -> {Absent, None} \cup Sessions]
  BY DEF Init
<1> QED BY <1>2, <1>3, <1>4 DEF Init, TypeOK

\* Every reachable state is well typed.
THEOREM TypeCorrect == Spec => []TypeOK
  BY InitTyped, TypeInductive, PTL DEF Spec

-----------------------------------------------------------------------------
\* A step that deletes no device and is about one session leaves what every
\* other run relies on.
LEMMA OthersCoherent ==
    ASSUME IInv, NEW s \in Sessions,
           \A t \in Sessions \ {s} : run'[t] = run[t] /\ session'[t] = session[t],
           \A d \in Orgs \X Hosts : device[d] # Absent => device'[d] # Absent
    PROVE  \A t \in Sessions \ {s} : RunCoherent(t)'
<1> SUFFICES ASSUME NEW t \in Sessions, t # s PROVE RunCoherent(t)'
  OBVIOUS
<1>1. run'[t] = run[t] /\ session'[t] = session[t] /\ RunCoherent(t)
  BY DEF IInv, Coherent
<1>2. ASSUME NEW h \in Hosts, run[t].known[h] = "held", h \notin run[t].added
      PROVE  device'[Key(t, h)'] # Absent
  <2>1. session[t].status # "unused" /\ OrgOf(t) \in Orgs /\ device[Key(t, h)] # Absent
    BY <1>1, <1>2 DEF RunCoherent
  <2>2. Key(t, h) \in Orgs \X Hosts /\ Key(t, h)' = Key(t, h)
    BY <1>1, <2>1 DEF Key, OrgOf
  <2> QED BY <2>1, <2>2
<1> QED BY <1>1, <1>2 DEF RunCoherent, OrgOf

\* As long as sessions, devices and organizations that exist go on existing,
\* rows that dangle could only be new ones.
LEMMA OldRowsStay ==
    ASSUME IInv,
           \A t \in Sessions : Exists(t) => Exists(t)' /\ OrgOf(t)' = OrgOf(t),
           \A d \in Orgs \X Hosts : device[d] # Absent => device'[d] # Absent,
           \A d \in Orgs \X Hosts :
              device'[d] \in Sessions \ {device[d]}
                 => Exists(device[d])' /\ OrgOf(device[d])' = d[1]
    PROVE  /\ \A d \in Orgs \X Hosts :
                 device'[d] \in Sessions => Exists(device[d])' /\ OrgOf(device[d])' = d[1]
           /\ \A row \in evidence :
                 /\ Exists(row.by)'
                 /\ \A h \in row.on : device'[Key(row.by, h)'] # Absent
           /\ \A d \in findings : device'[d] # Absent
<1>1. ASSUME NEW d \in Orgs \X Hosts, device'[d] \in Sessions
      PROVE  Exists(device[d])' /\ OrgOf(device[d])' = d[1]
  <2>1. CASE device'[d] = device[d]
    BY <1>1, <2>1 DEF IInv, NoDanglingRows
  <2> QED BY <1>1, <2>1
<1>2. ASSUME NEW row \in evidence
      PROVE  /\ Exists(row.by)'
             /\ \A h \in row.on : device'[Key(row.by, h)'] # Absent
  <2>1. row.by \in Sessions /\ row.on \subseteq Hosts /\ Exists(row.by)
    BY ConstantsAssumption DEF IInv, TypeOK, NoDanglingRows
  <2>2. RunCoherent(row.by)
    BY <2>1 DEF IInv, Coherent
  <2>3. OrgOf(row.by) \in Orgs
    BY <2>1, <2>2 DEF RunCoherent, Exists
  <2>4. ASSUME NEW h \in row.on PROVE device'[Key(row.by, h)'] # Absent
    <3>1. device[Key(row.by, h)] # Absent
      BY DEF IInv, NoDanglingRows
    <3>2. Key(row.by, h) \in Orgs \X Hosts /\ Key(row.by, h)' = Key(row.by, h)
      BY <2>1, <2>3 DEF Key
    <3> QED BY <3>1, <3>2
  <2> QED BY <2>1, <2>4
<1>3. \A d \in findings : device'[d] # Absent
  BY DEF IInv, TypeOK, NoDanglingRows
<1> QED BY <1>1, <1>2, <1>3

\* What a run commits refers to rows that exist.
LEMMA StoredSafely ==
    ASSUME IInv, NEW s \in Sessions, ~Stale(s), Stored(s), findings' = findings,
           \A t \in Sessions : OrgOf(t)' = OrgOf(t) /\ (Exists(t) => Exists(t)')
    PROVE  /\ NoDanglingRows'
           /\ \A d \in Orgs \X Hosts : device[d] # Absent => device'[d] # Absent
           /\ \A h \in run[s].added : device'[Key(s, h)] # Absent
<1>1. Exists(s) /\ RunCoherent(s) /\ OrgOf(s) \in Orgs
  BY DEF IInv, Coherent, Stale, RunCoherent, Exists
<1>2. s # Absent
  BY ConstantsAssumption
<1>3. run[s].added \subseteq Hosts /\ run[s].touched \subseteq Hosts /\ run[s].rows \subseteq Talks
  BY DEF IInv, TypeOK, Run
<1>4. \A d \in Orgs \X Hosts : device[d] # Absent => device'[d] # Absent
  BY <1>2 DEF Stored
<1>5. ASSUME NEW h \in run[s].added PROVE device'[Key(s, h)] # Absent
  <2>1. Key(s, h) \in Orgs \X Hosts /\ Key(s, h)[1] = OrgOf(s) /\ Key(s, h)[2] = h
    BY <1>1, <1>3 DEF Key
  <2> QED BY <2>1, <1>2 DEF Stored
<1>6. ASSUME NEW d \in Orgs \X Hosts, device'[d] \in Sessions \ {device[d]}
      PROVE  Exists(device[d])' /\ OrgOf(device[d])' = d[1]
  <2>1. d[1] = OrgOf(s) /\ device'[d] = s
    BY <1>6 DEF Stored
  <2> QED BY <2>1, <1>1
<1>7. /\ \A d \in Orgs \X Hosts :
            device'[d] \in Sessions => Exists(device[d])' /\ OrgOf(device[d])' = d[1]
      /\ \A row \in evidence :
            /\ Exists(row.by)'
            /\ \A h \in row.on : device'[Key(row.by, h)'] # Absent
      /\ \A d \in findings : device'[d] # Absent
  BY <1>4, <1>6, OldRowsStay
<1>8. ASSUME NEW hosts \in run[s].rows, NEW h \in hosts
      PROVE  device'[Key(s, h)'] # Absent
  <2>1. h \in run[s].touched \cup run[s].added /\ h \in Hosts
    BY <1>1, <1>3 DEF RunCoherent
  <2>2. Key(s, h)' = Key(s, h) /\ Key(s, h) \in Orgs \X Hosts
    BY <1>1, <2>1 DEF Key
  <2>3. CASE h \in run[s].added
    BY <1>5, <2>2, <2>3
  <2>4. CASE h \notin run[s].added
    <3>1. run[s].known[h] = "held"
      BY <1>1, <2>1, <2>4 DEF RunCoherent, Stale
    <3> QED BY <1>1, <1>4, <2>1, <2>2, <2>4, <3>1 DEF RunCoherent
  <2> QED BY <2>3, <2>4
<1>9. ASSUME NEW row \in evidence'
      PROVE  /\ Exists(row.by)'
             /\ \A h \in row.on : device'[Key(row.by, h)'] # Absent
  <2>1. CASE row \in evidence
    BY <1>7, <2>1
  <2>2. CASE row \in [on : run[s].rows, by : {s}]
    BY <1>1, <1>8, <2>2
  <2> QED BY <1>9, <2>1, <2>2 DEF Stored
<1> QED BY <1>4, <1>5, <1>7, <1>9 DEF NoDanglingRows

\* Deleting devices, and having those who hold one go on without knowing,
\* leaves what runs and scans rely on.
LEMMA ForgetCoherent ==
    ASSUME IInv, NEW gone \in SUBSET (Orgs \X Hosts), Forget(gone),
           \A d \in (Orgs \X Hosts) \ gone : device[d] # Absent => device'[d] # Absent,
           \A t \in Sessions : /\ OrgOf(t)' = OrgOf(t)
                               /\ session'[t].status = "unused" <=> session[t].status = "unused"
    PROVE  /\ Coherent'
           /\ \A d \in findings' : d \in findings /\ d \notin gone
<1>1. ASSUME NEW t \in Sessions PROVE RunCoherent(t)'
  <2>1. RunCoherent(t)
    BY DEF IInv, Coherent
  <2>2. run[t] \in Run
    BY DEF IInv, TypeOK
  <2>3. /\ run'[t].open = run[t].open
        /\ run'[t].touched = run[t].touched
        /\ run'[t].added = run[t].added
        /\ run'[t].rows = run[t].rows
    BY <2>2 DEF Forget, Run
  <2>4. ASSUME NEW h \in Hosts
        PROVE  run'[t].known[h] = IF /\ run[t].known[h] = "held"
                                     /\ h \notin run[t].added
                                     /\ Key(t, h) \in gone
                                  THEN "gone" ELSE run[t].known[h]
    BY <2>2 DEF Forget, Run
  <2>5. ASSUME NEW h \in Hosts, run'[t].known[h] = "held"
        PROVE  h \in run'[t].added \/ device'[Key(t, h)'] # Absent
    <3> SUFFICES ASSUME h \notin run[t].added PROVE device'[Key(t, h)'] # Absent
      BY <2>3
    <3>1. run[t].known[h] = "held" /\ Key(t, h) \notin gone
      BY <2>4, <2>5
    <3>2. OrgOf(t) \in Orgs /\ device[Key(t, h)] # Absent
      BY <2>1, <3>1 DEF RunCoherent
    <3>3. Key(t, h) \in Orgs \X Hosts /\ Key(t, h)' = Key(t, h)
      BY <3>2 DEF Key
    <3> QED BY <3>1, <3>2, <3>3
  <2>6. session'[t].status = "unused" =>
           ~run'[t].open /\ \A h \in Hosts : run'[t].known[h] = "no"
    BY <2>1, <2>3, <2>4 DEF RunCoherent
  <2>7. session'[t].status # "unused" => OrgOf(t)' \in Orgs
    BY <2>1 DEF RunCoherent
  <2>8. ASSUME NEW h \in Hosts, h \in run'[t].touched \cup run'[t].added
        PROVE  run'[t].known[h] \in {"held", "gone"}
    BY <2>1, <2>3, <2>4, <2>8 DEF RunCoherent
  <2>9. \A hosts \in run'[t].rows : hosts \subseteq run'[t].touched \cup run'[t].added
    BY <2>1, <2>3 DEF RunCoherent
  <2> QED BY <2>5, <2>6, <2>7, <2>8, <2>9 DEF RunCoherent
<1>2. \A d \in scans' : device'[d] # Absent
  BY DEF Forget, IInv, Coherent, TypeOK
<1>3. \A d \in findings' : d \in findings /\ d \notin gone
  BY DEF Forget
<1> QED BY <1>1, <1>2, <1>3 DEF Coherent

\* Deleting a session leaves nothing that refers to it or its devices.
LEMMA DeleteSafely ==
    ASSUME IInv, NEW s \in Sessions, DeleteSession(s)
    PROVE  Coherent' /\ NoDanglingRows'
<1>1. /\ session' = [session EXCEPT ![s].status = "deleted"]
      /\ \A t \in Sessions : session[t] \in Session
  BY DEF DeleteSession, IInv, TypeOK
<1>2. ASSUME NEW t \in Sessions
      PROVE  /\ OrgOf(t)' = OrgOf(t)
             /\ session'[t].status = "unused" <=> session[t].status = "unused"
             /\ t # s /\ Exists(t) => Exists(t)'
  <2>1. Exists(s)
    BY DEF DeleteSession
  <2>2. session'[s] = [session[s] EXCEPT !.status = "deleted"]
    BY <1>1 DEF IInv, TypeOK
  <2>3. CASE t = s
    <3>0. session[s] \in Session
      BY <1>1
    <3>1. session'[t].org = session[t].org /\ session'[t].status = "deleted"
      BY <2>2, <2>3, <3>0 DEF Session
    <3> QED BY <2>1, <2>3, <3>1 DEF OrgOf, Exists
  <2>4. CASE t # s
    BY <1>1, <2>4 DEF OrgOf, Exists, IInv, TypeOK
  <2> QED BY <2>3, <2>4
<1>3. s # Absent /\ None # Absent /\ None \notin Sessions
  BY ConstantsAssumption
<1>4. ASSUME NEW d \in Orgs \X Hosts
      PROVE  device'[d] = IF d \in Purged(s) THEN Absent
                          ELSE IF device[d] = s THEN None ELSE device[d]
  BY DEF DeleteSession, Found
<1>5. Purged(s) \in SUBSET (Orgs \X Hosts)
  BY DEF Purged, Found
<1>6. \A d \in (Orgs \X Hosts) \ Purged(s) : device[d] # Absent => device'[d] # Absent
  BY <1>3, <1>4
<1>7. Coherent' /\ \A d \in findings' : d \in findings /\ d \notin Purged(s)
  BY <1>2, <1>5, <1>6, ForgetCoherent DEF DeleteSession
<1>8. ASSUME NEW d \in Orgs \X Hosts, device'[d] \in Sessions
      PROVE  Exists(device[d])' /\ OrgOf(device[d])' = d[1]
  <2>1. device'[d] = device[d] /\ device[d] # s /\ device[d] \in Sessions
    BY <1>3, <1>4, <1>8, ConstantsAssumption
  <2>2. Exists(device[d]) /\ OrgOf(device[d]) = d[1]
    BY <2>1 DEF IInv, NoDanglingRows
  <2>3. ASSUME NEW t \in Sessions, t = device'[d]
        PROVE  Exists(t)' /\ OrgOf(t)' = d[1]
    BY <1>2, <2>1, <2>2, <2>3
  <2> QED BY <1>8, <2>3 DEF Exists, OrgOf
<1>9. ASSUME NEW row \in evidence'
      PROVE  /\ Exists(row.by)'
             /\ \A h \in row.on : device'[Key(row.by, h)'] # Absent
  <2>1. row \in evidence /\ row \in Kept(s) /\ row.by # s
    BY DEF DeleteSession, Kept
  <2>2. row.by \in Sessions /\ row.on \subseteq Hosts /\ Exists(row.by)
    BY <2>1, ConstantsAssumption DEF IInv, TypeOK, NoDanglingRows
  <2>3. RunCoherent(row.by)
    BY <2>2 DEF IInv, Coherent
  <2>4. OrgOf(row.by) \in Orgs
    BY <2>2, <2>3 DEF RunCoherent, Exists
  <2>5. ASSUME NEW h \in row.on PROVE device'[Key(row.by, h)'] # Absent
    <3>1. device[Key(row.by, h)] # Absent
      BY <2>1 DEF IInv, NoDanglingRows
    <3>2. /\ Key(row.by, h) \in Orgs \X Hosts /\ Key(row.by, h)' = Key(row.by, h)
          /\ Key(row.by, h)[1] = OrgOf(row.by) /\ Key(row.by, h)[2] = h
      BY <1>2, <2>2, <2>4 DEF Key
    <3>3. Key(row.by, h) \notin Purged(s)
      BY <2>1, <3>2 DEF Purged, Evident
    <3> QED BY <1>6, <3>1, <3>2, <3>3
  <2> QED BY <1>2, <2>1, <2>2, <2>5
<1>10. \A d \in findings' : device'[d] # Absent
  BY <1>6, <1>7 DEF IInv, TypeOK, NoDanglingRows
<1> QED BY <1>7, <1>8, <1>9, <1>10 DEF NoDanglingRows

\* Nor does wiping an organization.
LEMMA WipeSafely ==
    ASSUME IInv, NEW o \in Orgs \cup {None}, WipeOrganization(o)
    PROVE  Coherent' /\ NoDanglingRows'
<1> DEFINE gone == {d \in Orgs \X Hosts : d[1] = o /\ device[d] # Absent}
<1>1. ASSUME NEW t \in Sessions
      PROVE  /\ OrgOf(t)' = OrgOf(t)
             /\ session'[t].status = "unused" <=> session[t].status = "unused"
             /\ OrgOf(t) # o /\ Exists(t) => Exists(t)'
  <2>1. session[t] \in Session
    BY DEF IInv, TypeOK
  <2> QED BY <2>1 DEF OrgOf, Exists, Session, WipeOrganization
<1>2. ASSUME NEW d \in Orgs \X Hosts
      PROVE  device'[d] = IF d[1] = o THEN Absent ELSE device[d]
  BY DEF WipeOrganization
<1>3. \A d \in (Orgs \X Hosts) \ gone : device[d] # Absent => device'[d] # Absent
  BY <1>2
<1>4. gone \in SUBSET (Orgs \X Hosts) /\ Forget(gone)
  BY DEF WipeOrganization
<1> HIDE DEF gone
<1>5. Coherent' /\ \A d \in findings' : d \in findings /\ d \notin gone
  BY <1>1, <1>3, <1>4, ForgetCoherent
<1>6. ASSUME NEW d \in Orgs \X Hosts, device'[d] \in Sessions
      PROVE  Exists(device[d])' /\ OrgOf(device[d])' = d[1]
  <2>1. device'[d] = device[d] /\ d[1] # o
    BY <1>2, <1>6, ConstantsAssumption
  <2>2. Exists(device[d]) /\ OrgOf(device[d]) = d[1]
    BY <1>6, <2>1 DEF IInv, NoDanglingRows
  <2>3. ASSUME NEW t \in Sessions, t = device'[d]
        PROVE  Exists(t)' /\ OrgOf(t)' = d[1]
    BY <1>1, <2>1, <2>2, <2>3
  <2> QED BY <1>6, <2>3 DEF Exists, OrgOf
<1>7. ASSUME NEW row \in evidence'
      PROVE  /\ Exists(row.by)'
             /\ \A h \in row.on : device'[Key(row.by, h)'] # Absent
  <2>1. row \in evidence /\ OrgOf(row.by) # o
    BY DEF WipeOrganization
  <2>2. row.by \in Sessions /\ row.on \subseteq Hosts /\ Exists(row.by)
    BY <2>1, ConstantsAssumption DEF IInv, TypeOK, NoDanglingRows
  <2>3. RunCoherent(row.by)
    BY <2>2 DEF IInv, Coherent
  <2>4. OrgOf(row.by) \in Orgs
    BY <2>2, <2>3 DEF RunCoherent, Exists
  <2>5. ASSUME NEW h \in row.on PROVE device'[Key(row.by, h)'] # Absent
    <3>1. device[Key(row.by, h)] # Absent
      BY <2>1 DEF IInv, NoDanglingRows
    <3>2. /\ Key(row.by, h) \in Orgs \X Hosts /\ Key(row.by, h)' = Key(row.by, h)
          /\ Key(row.by, h)[1] # o
      BY <1>1, <2>1, <2>2, <2>4 DEF Key
    <3> QED BY <1>2, <3>1, <3>2
  <2> QED BY <1>1, <2>1, <2>2, <2>5
<1>8. \A d \in findings' : device'[d] # Absent
  BY <1>3, <1>5 DEF IInv, TypeOK, NoDanglingRows
<1> QED BY <1>5, <1>6, <1>7, <1>8 DEF NoDanglingRows

-----------------------------------------------------------------------------
\* A step of an ingest run keeps what it and the other runs rely on, and
\* leaves nothing that refers to a missing row.
LEMMA IngestSafely ==
    ASSUME IInv, TypeOK', NEW s \in Sessions, Ingest(s)
    PROVE  Coherent' /\ NoDanglingRows'
<1> USE DEF database
<1>1. /\ RunCoherent(s)
      /\ run[s] \in Run
      /\ session[s] \in Session
      /\ run \in [Sessions -> Run]
      /\ session \in [Sessions -> Session]
  BY DEF IInv, Coherent, TypeOK
<1>2. ASSUME UNCHANGED <<database, scans>>, RunCoherent(s)',
             \A t \in Sessions \ {s} : run'[t] = run[t]
      PROVE  Coherent' /\ NoDanglingRows'
  <2>1. \A t \in Sessions \ {s} : RunCoherent(t)'
    BY <1>2, OthersCoherent
  <2>2. NoDanglingRows'
    BY <1>2 DEF IInv, NoDanglingRows, Exists, OrgOf, Key
  <2>3. \A d \in scans' : device'[d] # Absent
    BY <1>2 DEF IInv, Coherent
  <2> QED BY <1>2, <2>1, <2>2, <2>3 DEF Coherent
<1>3. ASSUME run'[s] = ClosedRun,
             OrgOf(s)' = OrgOf(s),
             session'[s].status # "unused",
             session[s].status # "unused"
      PROVE  RunCoherent(s)'
  BY <1>1, <1>3 DEF RunCoherent, ClosedRun
<1>4. ASSUME NEW r, run' = [run EXCEPT ![s] = r],
             UNCHANGED <<database, scans>>,
             session[s].status # "unused",
             \A h \in Hosts :
                /\ r.known[h] = "held" => h \in r.added \/ device[Key(s, h)] # Absent
                /\ h \in r.touched \cup r.added => r.known[h] \in {"held", "gone"},
             \A hosts \in r.rows : hosts \subseteq r.touched \cup r.added
      PROVE  Coherent' /\ NoDanglingRows'
  <2>1. run'[s] = r /\ \A t \in Sessions \ {s} : run'[t] = run[t]
    BY <1>1, <1>4
  <2>2. RunCoherent(s)'
    BY <1>1, <1>4, <2>1 DEF RunCoherent, OrgOf, Key
  <2> QED BY <1>2, <1>4, <2>1, <2>2
<1>5. run[s].open => session[s].status # "unused"
  BY <1>1 DEF RunCoherent
<1>6. CASE OpenRun(s)
  <2> DEFINE r == [run[s] EXCEPT !.open = TRUE]
  <2>1. run' = [run EXCEPT ![s] = r] /\ UNCHANGED <<database, scans>>
    BY <1>6 DEF OpenRun
  <2>2. /\ r.known = run[s].known /\ r.touched = run[s].touched
        /\ r.added = run[s].added /\ r.rows = run[s].rows
    BY <1>1 DEF Run
  <2>3. session[s].status # "unused"
    BY <1>6 DEF OpenRun, Exists
  <2> HIDE DEF r
  <2> QED BY <1>1, <1>4, <2>1, <2>2, <2>3 DEF RunCoherent
<1>7. CASE IngesterExits(s)
  <2>1. UNCHANGED <<database, scans, run>>
    BY <1>7 DEF IngesterExits
  <2>2. RunCoherent(s)'
    BY <1>1, <2>1 DEF RunCoherent, OrgOf, Key
  <2> QED BY <1>2, <2>1, <2>2
<1>8. ASSUME NEW h \in Hosts, FindDevice(s, h)
      PROVE  Coherent' /\ NoDanglingRows'
  <2>1. /\ UNCHANGED <<database, scans>>
        /\ session[s].status # "unused"
        /\ run[s].known[h] # "missing"
    BY <1>5, <1>8 DEF FindDevice, Reading
  <2>2. run[s].known[h] \in {"no", "held", "gone"}
    BY <1>1, <2>1 DEF Run
  <2>3. CASE run[s].known[h] = "no" /\ device[Key(s, h)] = Absent
    <3> DEFINE r == [run[s] EXCEPT !.known[h] = "missing"]
    <3>1. run' = [run EXCEPT ![s] = r]
      BY <1>8, <2>3 DEF FindDevice
    <3>2. /\ r.known[h] = "missing"
          /\ \A i \in Hosts \ {h} : r.known[i] = run[s].known[i]
          /\ r.touched = run[s].touched /\ r.added = run[s].added /\ r.rows = run[s].rows
      BY <1>1 DEF Run
    <3> HIDE DEF r
    <3>3. ASSUME NEW i \in Hosts
          PROVE  /\ r.known[i] = "held" => i \in r.added \/ device[Key(s, i)] # Absent
                 /\ i \in r.touched \cup r.added => r.known[i] \in {"held", "gone"}
      <4>1. CASE i = h
        BY <1>1, <2>3, <3>2, <4>1 DEF RunCoherent
      <4>2. CASE i # h
        BY <1>1, <3>2, <4>2 DEF RunCoherent
      <4> QED BY <4>1, <4>2
    <3>4. \A hosts \in r.rows : hosts \subseteq r.touched \cup r.added
      BY <1>1, <3>2 DEF RunCoherent
    <3> QED BY <1>4, <2>1, <3>1, <3>3, <3>4
  <2>4. CASE ~(run[s].known[h] = "no" /\ device[Key(s, h)] = Absent)
    <3> DEFINE k == IF run[s].known[h] = "no" THEN "held" ELSE run[s].known[h]
               r == [run[s] EXCEPT !.known[h] = k, !.touched = run[s].touched \cup {h}]
    <3>1. run' = [run EXCEPT ![s] = r]
      BY <1>1, <1>8, <2>4 DEF FindDevice, Run
    <3>2. /\ r.known[h] = k
          /\ \A i \in Hosts \ {h} : r.known[i] = run[s].known[i]
          /\ r.touched = run[s].touched \cup {h}
          /\ r.added = run[s].added /\ r.rows = run[s].rows
      BY <1>1 DEF Run
    <3>3. k \in {"held", "gone"}
      BY <2>2
    <3>4. k = "held" => h \in r.added \/ device[Key(s, h)] # Absent
      BY <1>1, <2>4, <3>2 DEF RunCoherent
    <3> HIDE DEF k, r
    <3>5. ASSUME NEW i \in Hosts
          PROVE  /\ r.known[i] = "held" => i \in r.added \/ device[Key(s, i)] # Absent
                 /\ i \in r.touched \cup r.added => r.known[i] \in {"held", "gone"}
      <4>1. CASE i = h
        BY <3>2, <3>3, <3>4, <4>1
      <4>2. CASE i # h
        BY <1>1, <3>2, <4>2 DEF RunCoherent
      <4> QED BY <4>1, <4>2
    <3>6. \A hosts \in r.rows : hosts \subseteq r.touched \cup r.added
      BY <1>1, <3>2 DEF RunCoherent
    <3> QED BY <1>4, <2>1, <3>1, <3>5, <3>6
  <2> QED BY <2>3, <2>4
<1>9. ASSUME NEW h \in Hosts, InsertDevice(s, h)
      PROVE  Coherent' /\ NoDanglingRows'
  <2> DEFINE r == [run[s] EXCEPT !.known[h] = "held", !.added = run[s].added \cup {h}]
  <2>1. /\ UNCHANGED <<database, scans>>
        /\ session[s].status # "unused"
    BY <1>5, <1>9 DEF InsertDevice
  <2>2. run' = [run EXCEPT ![s] = r]
    BY <1>1, <1>9 DEF InsertDevice, Run
  <2>3. /\ r.known[h] = "held"
        /\ \A i \in Hosts \ {h} : r.known[i] = run[s].known[i]
        /\ r.added = run[s].added \cup {h}
        /\ r.touched = run[s].touched /\ r.rows = run[s].rows
    BY <1>1 DEF Run
  <2> HIDE DEF r
  <2>4. ASSUME NEW i \in Hosts
        PROVE  /\ r.known[i] = "held" => i \in r.added \/ device[Key(s, i)] # Absent
               /\ i \in r.touched \cup r.added => r.known[i] \in {"held", "gone"}
    <3>1. CASE i = h
      BY <2>3, <3>1
    <3>2. CASE i # h
      BY <1>1, <2>3, <3>2 DEF RunCoherent
    <3> QED BY <3>1, <3>2
  <2>5. \A hosts \in r.rows : hosts \subseteq r.touched \cup r.added
    BY <1>1, <2>3 DEF RunCoherent
  <2> QED BY <1>4, <2>1, <2>2, <2>4, <2>5
<1>10. ASSUME NEW hosts \in Talks, AddEvidence(s, hosts)
       PROVE  Coherent' /\ NoDanglingRows'
  <2> DEFINE r == [run[s] EXCEPT !.rows = run[s].rows \cup {hosts}]
  <2>1. /\ UNCHANGED <<database, scans>>
        /\ session[s].status # "unused"
        /\ hosts \subseteq run[s].touched \cup run[s].added
    BY <1>5, <1>10 DEF AddEvidence, Reading
  <2>2. run' = [run EXCEPT ![s] = r]
    BY <1>1, <1>10 DEF AddEvidence, Run
  <2>3. /\ r.known = run[s].known /\ r.touched = run[s].touched
        /\ r.added = run[s].added /\ r.rows = run[s].rows \cup {hosts}
    BY <1>1 DEF Run
  <2> HIDE DEF r
  <2> QED BY <1>1, <1>4, <2>1, <2>2, <2>3 DEF RunCoherent
<1>11. ASSUME ~Stale(s), Stored(s), UNCHANGED <<findings, scans>>, RunCoherent(s)',
              \A t \in Sessions \ {s} : run'[t] = run[t] /\ session'[t] = session[t],
              OrgOf(s)' = OrgOf(s), Exists(s) => Exists(s)'
       PROVE  Coherent' /\ NoDanglingRows'
  <2>1. \A t \in Sessions : OrgOf(t)' = OrgOf(t) /\ (Exists(t) => Exists(t)')
    BY <1>11 DEF OrgOf, Exists
  <2>2. NoDanglingRows' /\ \A d \in Orgs \X Hosts : device[d] # Absent => device'[d] # Absent
    BY <1>11, <2>1, StoredSafely
  <2>3. \A t \in Sessions \ {s} : RunCoherent(t)'
    BY <1>11, <2>2, OthersCoherent
  <2>4. \A d \in scans' : device'[d] # Absent
    BY <1>11, <2>2 DEF IInv, Coherent, TypeOK
  <2> QED BY <1>11, <2>2, <2>3, <2>4 DEF Coherent
<1>12. CASE CommitBatch(s)
  <2>1. run' = [run EXCEPT ![s] = ClosedRun] /\ session' = session /\ run[s].open
    BY <1>12 DEF CommitBatch, Reading
  <2>2. run'[s] = ClosedRun
    BY <1>1, <2>1
  <2>3. RunCoherent(s)'
    BY <1>3, <1>5, <2>1, <2>2 DEF OrgOf
  <2> QED BY <1>1, <1>11, <1>12, <2>1, <2>3 DEF CommitBatch, OrgOf, Exists
<1>13. CASE CommitProgress(s)
  <2> DEFINE r == [run[s] EXCEPT !.touched = {}, !.added = {}, !.rows = {}]
  <2>1. /\ run' = [run EXCEPT ![s] = r] /\ session' = session /\ run[s].open
        /\ ~Stale(s) /\ Stored(s) /\ UNCHANGED <<findings, scans>>
    BY <1>1, <1>13 DEF CommitProgress, Reading, Run
  <2>2. r.known = run[s].known /\ r.touched = {} /\ r.added = {} /\ r.rows = {}
    BY <1>1 DEF Run
  <2>3. run'[s] = r /\ \A t \in Sessions \ {s} : run'[t] = run[t]
    BY <1>1, <2>1
  <2> HIDE DEF r
  <2>4. /\ \A d \in Orgs \X Hosts : device[d] # Absent => device'[d] # Absent
        /\ \A h \in run[s].added : device'[Key(s, h)] # Absent
    BY <2>1, StoredSafely DEF OrgOf, Exists
  <2>5. OrgOf(s) \in Orgs
    BY <1>1, <1>5, <2>1 DEF RunCoherent
  <2>6. ASSUME NEW h \in Hosts, run'[s].known[h] = "held"
        PROVE  device'[Key(s, h)'] # Absent
    <3>1. Key(s, h) \in Orgs \X Hosts /\ Key(s, h)' = Key(s, h)
      BY <2>1, <2>5 DEF Key, OrgOf
    <3>2. h \in run[s].added \/ device[Key(s, h)] # Absent
      BY <1>1, <2>2, <2>3, <2>6 DEF RunCoherent
    <3> QED BY <2>4, <3>1, <3>2
  <2>7. RunCoherent(s)'
    BY <1>5, <2>1, <2>2, <2>3, <2>5, <2>6 DEF RunCoherent, OrgOf
  <2> QED BY <1>11, <2>1, <2>3, <2>7 DEF OrgOf, Exists
<1>14. CASE FinishPcap(s)
  <2>1. /\ run' = [run EXCEPT ![s] = ClosedRun] /\ run[s].open
        /\ session' = [session EXCEPT ![s].status = "completed"]
    BY <1>14 DEF FinishPcap, Reading
  <2>2. run'[s] = ClosedRun /\ session'[s] = [session[s] EXCEPT !.status = "completed"]
    BY <1>1, <2>1
  <2>3. session'[s].org = session[s].org /\ session'[s].status = "completed"
    BY <1>1, <2>2 DEF Session
  <2>4. RunCoherent(s)'
    BY <1>3, <1>5, <2>1, <2>2, <2>3 DEF OrgOf
  <2>5. \A t \in Sessions \ {s} : run'[t] = run[t] /\ session'[t] = session[t]
    BY <1>1, <2>1
  <2> QED BY <1>11, <1>14, <2>3, <2>4, <2>5 DEF FinishPcap, OrgOf, Exists
<1>15. ASSUME NEW why, Fail(s, why)
       PROVE  Coherent' /\ NoDanglingRows'
  <2>1. /\ run' = [run EXCEPT ![s] = ClosedRun] /\ run[s].open
        /\ UNCHANGED <<device, evidence, findings, scans>>
    BY <1>15 DEF Fail
  <2>2. run'[s] = ClosedRun /\ \A t \in Sessions \ {s} : run'[t] = run[t]
    BY <1>1, <2>1
  <2>3. \/ session' = session
        \/ /\ session' = [session EXCEPT ![s].status = "error", ![s].error = why]
           /\ Exists(s)
    BY <1>15 DEF Fail
  <2>4. /\ \A t \in Sessions \ {s} : session'[t] = session[t]
        /\ session'[s].org = session[s].org
        /\ \/ session'[s].status = session[s].status
           \/ session'[s].status = "error"
    BY <1>1, <2>3 DEF Session
  <2>5. session'[s].status # "unused" /\ session[s].status # "unused"
    BY <1>5, <2>1, <2>4
  <2>6. RunCoherent(s)'
    BY <1>3, <2>2, <2>4, <2>5 DEF OrgOf
  <2>7. \A t \in Sessions : OrgOf(t)' = OrgOf(t) /\ (Exists(t) => Exists(t)')
    BY <2>4 DEF OrgOf, Exists
  <2>8. \A d \in Orgs \X Hosts : device'[d] = device[d]
    BY <2>1
  <2>9. NoDanglingRows'
    BY <2>1, <2>7, <2>8, OldRowsStay DEF NoDanglingRows
  <2>10. \A t \in Sessions \ {s} : RunCoherent(t)'
    BY <2>2, <2>4, <2>8, OthersCoherent
  <2> QED BY <2>1, <2>6, <2>9, <2>10 DEF Coherent, IInv
<1>16. ASSUME Abandon(s)
       PROVE  Coherent' /\ NoDanglingRows'
  <2>1. UNCHANGED <<database, scans>> /\ run' = [run EXCEPT ![s] = ClosedRun]
    BY <1>16 DEF Abandon
  <2>2. run'[s] = ClosedRun /\ \A t \in Sessions \ {s} : run'[t] = run[t]
    BY <1>1, <2>1
  <2>3. RunCoherent(s)'
    BY <1>1, <2>1, <2>2 DEF RunCoherent, ClosedRun, OrgOf
  <2>4. NoDanglingRows'
    BY <2>1, OldRowsStay DEF NoDanglingRows, OrgOf, Exists
  <2>5. \A t \in Sessions \ {s} : RunCoherent(t)'
    BY <2>1, <2>2, OthersCoherent
  <2> QED BY <2>1, <2>3, <2>4, <2>5 DEF Coherent, IInv
<1> QED
  BY <1>6, <1>7, <1>8, <1>9, <1>10, <1>12, <1>13, <1>14, <1>15, <1>16
  DEF Ingest, FailStale, FailUnique, FailDeadlock, FailItself, FinishPcapFails, PcapCutOff

\* So do requests and scans.
LEMMA ServeSafely ==
    ASSUME IInv, Serve
    PROVE  Coherent' /\ NoDanglingRows'
<1> USE DEF database
<1>1. /\ \A s \in Sessions : RunCoherent(s) /\ session[s] \in Session
      /\ session \in [Sessions -> Session]
  BY DEF IInv, Coherent, TypeOK
<1>2. ASSUME UNCHANGED <<device, evidence, run>>,
             \A t \in Sessions : OrgOf(t)' = OrgOf(t) /\ (Exists(t) => Exists(t)'),
             \A t \in Sessions : session'[t].status = "unused" <=> session[t].status = "unused",
             \A d \in findings' \cup scans' :
                d \in findings \cup scans \/ device[d] # Absent
      PROVE  Coherent' /\ NoDanglingRows'
  <2>1. \A d \in findings' \cup scans' : device'[d] # Absent
    BY <1>2 DEF IInv, Coherent, NoDanglingRows
  <2>2. ASSUME NEW t \in Sessions PROVE RunCoherent(t)'
    <3>1. /\ RunCoherent(t) /\ run'[t] = run[t] /\ device' = device
          /\ OrgOf(t)' = OrgOf(t)
          /\ session'[t].status = "unused" <=> session[t].status = "unused"
      BY <1>1, <1>2
    <3>2. \A h \in Hosts : Key(t, h)' = Key(t, h)
      BY <3>1 DEF Key
    <3> QED BY <3>1, <3>2 DEF RunCoherent
  <2>3. NoDanglingRows'
    BY <1>2, <2>1, OldRowsStay DEF NoDanglingRows
  <2> QED BY <2>1, <2>2, <2>3 DEF Coherent
<1>3. ASSUME UNCHANGED <<session, device, evidence, run>>,
             \A d \in findings' \cup scans' :
                d \in findings \cup scans \/ device[d] # Absent
      PROVE  Coherent' /\ NoDanglingRows'
  <2>1. \A t \in Sessions : /\ OrgOf(t)' = OrgOf(t) /\ (Exists(t) => Exists(t)')
                            /\ session'[t] = session[t]
    BY <1>3 DEF OrgOf, Exists
  <2> QED BY <1>2, <1>3, <2>1
<1>4. ASSUME NEW s \in Sessions, NEW o \in Orgs,
             StartLive(s, o) \/ StartLiveFails(s, o) \/ UploadPcap(s, o)
      PROVE  Coherent' /\ NoDanglingRows'
  <2>1. /\ session[s].status = "unused"
        /\ UNCHANGED <<device, evidence, findings, run, scans>>
    BY <1>4 DEF StartLive, StartLiveFails, UploadPcap, Begin
  <2>2. /\ session'[s].org = o
        /\ session'[s].status # "unused"
        /\ \A t \in Sessions \ {s} : session'[t] = session[t]
    <3>1. PICK r : /\ session' = [session EXCEPT ![s] = r]
                   /\ r.org = o /\ r.status # "unused"
      <4>1. PICK k, status, why :
               /\ session' = [session EXCEPT ![s] = [org |-> o, kind |-> k, status |-> status,
                                                     error |-> why]]
               /\ status \in {"running", "error"}
        BY <1>4 DEF StartLive, StartLiveFails, UploadPcap, Begin
      <4> DEFINE row == [org |-> o, kind |-> k, status |-> status, error |-> why]
      <4>2. row.org = o /\ row.status # "unused"
        BY <4>1
      <4> QED BY <4>1, <4>2
    <3> QED BY <1>1, <3>1
  <2>3. ~Exists(s) /\ \A t \in Sessions : Exists(t) => t # s
    BY <2>1 DEF Exists
  <2>4. \A t \in Sessions : Exists(t) => Exists(t)' /\ OrgOf(t)' = OrgOf(t)
    BY <2>2, <2>3 DEF Exists, OrgOf
  <2>5. NoDanglingRows'
    BY <2>1, <2>4, OldRowsStay DEF NoDanglingRows
  <2>6. \A t \in Sessions \ {s} : RunCoherent(t)'
    BY <2>1, <2>2, OthersCoherent
  <2>7. RunCoherent(s)'
    <3>1. RunCoherent(s) /\ \A h \in Hosts : run[s].known[h] = "no"
      BY <1>1, <2>1 DEF RunCoherent
    <3>2. run'[s] = run[s] /\ OrgOf(s)' \in Orgs
      BY <2>1, <2>2 DEF OrgOf
    <3> QED BY <2>2, <3>1, <3>2 DEF RunCoherent
  <2> QED BY <2>1, <2>5, <2>6, <2>7 DEF Coherent, IInv
<1>5. ASSUME NEW popped, NEW what, NEW on, Pop(popped, what, on)
      PROVE  Coherent' /\ NoDanglingRows'
  BY <1>5, <1>3 DEF Pop
<1>6. ASSUME NEW s \in Sessions, WriteStopped(s)
      PROVE  Coherent' /\ NoDanglingRows'
  <2>1. UNCHANGED <<device, evidence, findings, run, scans>>
    BY <1>6 DEF WriteStopped
  <2>2. \/ session' = session
        \/ session' = [session EXCEPT ![s].status = "stopped"] /\ Exists(s)
    BY <1>6 DEF WriteStopped
  <2>3. /\ \A t \in Sessions \ {s} : session'[t] = session[t]
        /\ session'[s].org = session[s].org
        /\ \/ session'[s].status = session[s].status
           \/ session'[s].status = "stopped" /\ Exists(s)
    <3>1. session[s] \in Session
      BY <1>1
    <3> QED BY <1>1, <2>2, <3>1 DEF Session
  <2>4. \A t \in Sessions :
           /\ OrgOf(t)' = OrgOf(t) /\ (Exists(t) => Exists(t)')
           /\ session'[t].status = "unused" <=> session[t].status = "unused"
    BY <2>3 DEF OrgOf, Exists
  <2> QED BY <1>2, <2>1, <2>4
<1>7. ASSUME NEW what, NEW on, RequestFails(what, on)
      PROVE  Coherent' /\ NoDanglingRows'
  BY <1>7, <1>3 DEF RequestFails
<1>8. ASSUME NEW d \in Orgs \X Hosts, BeginScan(d)
      PROVE  Coherent' /\ NoDanglingRows'
  BY <1>8, <1>3 DEF BeginScan
<1>9. ASSUME NEW d \in Orgs \X Hosts, EndScan(d)
      PROVE  Coherent' /\ NoDanglingRows'
  BY <1>9, <1>3 DEF EndScan
<1>10. ASSUME NEW popped, StopRaises(popped)
       PROVE  Coherent' /\ NoDanglingRows'
  BY <1>10, <1>3 DEF StopRaises
<1> QED
  BY <1>4, <1>5, <1>6, <1>7, <1>8, <1>9, <1>10, DeleteSafely, WipeSafely
  DEF Serve, PopForStop, PopForDelete, PopForWipe

\* And a restart, which forgets all runs and scans.
LEMMA RestartSafely ==
    ASSUME IInv, Restart
    PROVE  Coherent' /\ NoDanglingRows'
<1>1. UNCHANGED <<device, evidence, findings>> /\ scans' = {}
  BY DEF Restart
<1>2. ASSUME NEW t \in Sessions
      PROVE  /\ OrgOf(t)' = OrgOf(t)
             /\ Exists(t) => Exists(t)'
             /\ session'[t].status = "unused" <=> session[t].status = "unused"
  <2>1. session[t] \in Session
    BY DEF IInv, TypeOK
  <2> QED BY <2>1 DEF Restart, OrgOf, Exists, Session
<1>3. ASSUME NEW t \in Sessions PROVE RunCoherent(t)'
  <2>1. RunCoherent(t) /\ run'[t] = ClosedRun
    BY DEF IInv, Coherent, Restart
  <2> QED BY <1>2, <2>1 DEF RunCoherent, ClosedRun
<1>4. NoDanglingRows'
  BY <1>1, <1>2, OldRowsStay DEF NoDanglingRows
<1> QED BY <1>1, <1>3, <1>4 DEF Coherent

\* The strengthened invariant is inductive.
LEMMA NothingDanglesInductive == IInv /\ [Next]_vars => IInv'
<1> SUFFICES ASSUME IInv, [Next]_vars PROVE IInv'
  OBVIOUS
<1>1. TypeOK'
  BY TypeInductive DEF IInv
<1>2. CASE UNCHANGED vars
  BY <1>1, <1>2 DEF IInv, vars, database, Coherent, RunCoherent, NoDanglingRows,
                    Exists, OrgOf, Key
<1> QED BY <1>1, <1>2, IngestSafely, ServeSafely, RestartSafely DEF Next, IInv

-----------------------------------------------------------------------------
\* A step that takes nothing away.
Keeps ==
    /\ \A s \in Sessions : Exists(s) => session'[s].status # "deleted"
    /\ \A d \in Orgs \X Hosts : device[d] # Absent => device'[d] # Absent
    /\ findings \subseteq findings'
    /\ evidence \subseteq evidence'

\* An ingest run takes nothing away.
LEMMA IngestKeeps ==
    ASSUME TypeOK, NEW s \in Sessions, Ingest(s)
    PROVE  Keeps
<1> USE DEF database
<1>1. session \in [Sessions -> Session]
  BY DEF TypeOK
<1>2. ASSUME UNCHANGED <<device, evidence, findings>>, session' = session
      PROVE  Keeps
  BY <1>2 DEF Keeps, Exists
<1>3. ASSUME Stored(s), findings' = findings,
             \/ session' = session
             \/ session' = [session EXCEPT ![s].status = "completed"]
      PROVE  Keeps
  <2>1. s # Absent
    BY ConstantsAssumption
  <2>2. ASSUME NEW t \in Sessions, Exists(t) PROVE session'[t].status # "deleted"
    <3>1. session[t] \in Session
      BY <1>1
    <3> QED BY <1>1, <1>3, <2>2, <3>1 DEF Exists, Session
  <2> QED BY <1>3, <2>1, <2>2 DEF Keeps, Stored
<1>4. ASSUME NEW why, Fail(s, why) PROVE Keeps
  <2>1. \/ session' = session
        \/ session' = [session EXCEPT ![s].status = "error", ![s].error = why]
    BY <1>4 DEF Fail
  <2>2. ASSUME NEW t \in Sessions, Exists(t) PROVE session'[t].status # "deleted"
    <3>1. session[t] \in Session
      BY <1>1
    <3> QED BY <1>1, <2>1, <2>2, <3>1 DEF Exists, Session
  <2> QED BY <1>4, <2>2 DEF Keeps, Fail
<1> QED
  BY <1>2, <1>3, <1>4
  DEF Ingest, OpenRun, IngesterExits, FindDevice, InsertDevice, AddEvidence, CommitBatch,
      CommitProgress, FinishPcap, FailStale, FailUnique, FailDeadlock, FailItself,
      FinishPcapFails, PcapCutOff, Abandon

\* Nor does a request, except the transactions of a delete and a wipe.
LEMMA ServeKeeps ==
    ASSUME TypeOK, Serve,
           \A s \in Sessions : ~DeleteSession(s),
           \A o \in Orgs \cup {None} : ~WipeOrganization(o)
    PROVE  Keeps
<1> USE DEF database
<1>1. session \in [Sessions -> Session]
  BY DEF TypeOK
<1>2. ASSUME UNCHANGED <<device, evidence, session>>, findings \subseteq findings'
      PROVE  Keeps
  BY <1>2 DEF Keeps, Exists
<1>3. ASSUME NEW s \in Sessions, NEW o \in Orgs,
             StartLive(s, o) \/ StartLiveFails(s, o) \/ UploadPcap(s, o)
      PROVE  Keeps
  <2>1. \A t \in Sessions : Exists(t) => session'[t] = session[t]
    BY <1>1, <1>3 DEF StartLive, StartLiveFails, UploadPcap, Begin, Exists
  <2> QED BY <1>3, <2>1 DEF StartLive, StartLiveFails, UploadPcap, Keeps, Exists
<1>4. ASSUME NEW s \in Sessions, WriteStopped(s)
      PROVE  Keeps
  <2>1. \/ session' = session
        \/ session' = [session EXCEPT ![s].status = "stopped"]
    BY <1>4 DEF WriteStopped
  <2>2. ASSUME NEW t \in Sessions, Exists(t) PROVE session'[t].status # "deleted"
    <3>1. session[t] \in Session
      BY <1>1
    <3> QED BY <1>1, <2>1, <2>2, <3>1 DEF Exists, Session
  <2> QED BY <1>4, <2>2 DEF Keeps, WriteStopped
<1> QED
  BY <1>2, <1>3, <1>4
  DEF Serve, PopForStop, PopForDelete, PopForWipe, Pop, StopRaises, RequestFails, BeginScan,
      EndScan

\* Nor does a restart.
LEMMA RestartKeeps ==
    ASSUME TypeOK, Restart
    PROVE  Keeps
<1>1. ASSUME NEW t \in Sessions, Exists(t) PROVE session'[t].status # "deleted"
  <2>1. session[t] \in Session
    BY DEF TypeOK
  <2> QED BY <1>1, <2>1 DEF Restart, Exists, Session
<1> QED BY <1>1 DEF Restart, Keeps

\* What a delete takes away is of the session's organization, and a device
\* only if no other session has evidence of it.
LEMMA DeleteTakes ==
    ASSUME IInv, NEW s \in Sessions, DeleteSession(s)
    PROVE  /\ \A o \in Orgs : Loses(o) => o = OrgOf(s)
           /\ \A d \in Orgs \X Hosts :
                 device[d] # Absent /\ device'[d] = Absent
                    => \A row \in evidence : Evident(d, {row}) => row.by = s
           /\ session'[s].status = "deleted"
<1>1. /\ \A t \in Sessions \ {s} : session'[t] = session[t]
      /\ session'[s].status = "deleted"
  <2>1. session \in [Sessions -> Session] /\ session[s] \in Session
    BY DEF IInv, TypeOK
  <2> QED BY <2>1 DEF DeleteSession, Session
<1>2. \A d \in Orgs \X Hosts : device[d] # Absent /\ device'[d] = Absent => d \in Purged(s)
  BY ConstantsAssumption DEF DeleteSession
<1>3. \A d \in Purged(s) : d[1] = OrgOf(s)
  BY DEF Purged, Found, IInv, NoDanglingRows
<1>4. findings \ findings' \subseteq Purged(s)
  BY DEF DeleteSession, Forget
<1>5. \A row \in evidence \ evidence' : row.by = s
  BY DEF DeleteSession, Kept
<1>6. ASSUME NEW o \in Orgs, Loses(o) PROVE o = OrgOf(s)
  <2>1. CASE \E t \in Sessions : OrgOf(t) = o /\ Exists(t) /\ session'[t].status = "deleted"
    BY <1>1, <2>1 DEF Exists
  <2>2. CASE \E h \in Hosts : \/ device[<<o, h>>] # Absent /\ device'[<<o, h>>] = Absent
                              \/ <<o, h>> \in findings \ findings'
    <3>1. PICK h \in Hosts : <<o, h>> \in Purged(s)
      BY <1>2, <1>4, <2>2
    <3> QED BY <1>3, <3>1
  <2>3. CASE \E row \in evidence \ evidence' : OrgOf(row.by) = o
    BY <1>5, <2>3
  <2> QED BY <1>6, <2>1, <2>2, <2>3 DEF Loses
<1>7. ASSUME NEW d \in Purged(s), NEW row \in evidence, Evident(d, {row})
      PROVE  row.by = s
  BY <1>7 DEF Purged, Evident, Kept
<1> QED BY <1>1, <1>2, <1>6, <1>7

\* What a wipe takes away is the organization's.
LEMMA WipeTakes ==
    ASSUME IInv, NEW o \in Orgs \cup {None}, WipeOrganization(o)
    PROVE  /\ \A p \in Orgs : Loses(p) => p = o
           /\ \A d \in Orgs \X Hosts :
                 device[d] # Absent /\ device'[d] = Absent
                    => \A row \in evidence :
                          Evident(d, {row}) => session'[row.by].status = "deleted"
<1>1. ASSUME NEW t \in Sessions
      PROVE  session'[t].status = IF Exists(t) /\ OrgOf(t) = o THEN "deleted"
                                  ELSE session[t].status
  <2>1. session[t] \in Session
    BY DEF IInv, TypeOK
  <2> QED BY <2>1 DEF WipeOrganization, Session
<1>2. \A d \in Orgs \X Hosts : device[d] # Absent /\ device'[d] = Absent => d[1] = o
  BY DEF WipeOrganization
<1>3. \A d \in findings \ findings' : d[1] = o
  BY DEF WipeOrganization, Forget
<1>4. \A row \in evidence \ evidence' : OrgOf(row.by) = o
  BY DEF WipeOrganization
<1>5. ASSUME NEW p \in Orgs, Loses(p) PROVE p = o
  <2>1. CASE \E t \in Sessions : OrgOf(t) = p /\ Exists(t) /\ session'[t].status = "deleted"
    BY <1>1, <2>1 DEF Exists
  <2>2. CASE \E h \in Hosts : \/ device[<<p, h>>] # Absent /\ device'[<<p, h>>] = Absent
                              \/ <<p, h>> \in findings \ findings'
    <3>1. PICK h \in Hosts : <<p, h>>[1] = o
      BY <1>2, <1>3, <2>2
    <3> QED BY <3>1
  <2>3. CASE \E row \in evidence \ evidence' : OrgOf(row.by) = p
    BY <1>4, <2>3
  <2> QED BY <1>5, <2>1, <2>2, <2>3 DEF Loses
<1>6. ASSUME NEW d \in Orgs \X Hosts, d[1] = o, NEW row \in evidence, Evident(d, {row})
      PROVE  session'[row.by].status = "deleted"
  <2>1. row.by \in Sessions /\ Exists(row.by) /\ OrgOf(row.by) = o
    BY <1>6 DEF Evident, IInv, TypeOK, NoDanglingRows
  <2> QED BY <1>1, <2>1
<1> QED BY <1>2, <1>5, <1>6

\* A step is a delete, a wipe, or takes nothing away.
LEMMA StepTakes ==
    ASSUME IInv, [Next]_vars
    PROVE  \/ Keeps
           \/ \E s \in Sessions : DeleteSession(s)
           \/ \E o \in Orgs \cup {None} : WipeOrganization(o)
<1>1. CASE UNCHANGED vars
  BY <1>1 DEF vars, database, Keeps, Exists
<1> QED BY <1>1, IngestKeeps, ServeKeeps, RestartKeeps DEF IInv, Next

\* The invariant holds throughout.
LEMMA AlwaysCoherent == Spec => []IInv
<1>1. Init => IInv
  <2> SUFFICES ASSUME Init PROVE Coherent /\ NoDanglingRows
    BY InitTyped DEF IInv
  <2>1. Absent \notin Sessions
    BY ConstantsAssumption
  <2> QED BY <2>1 DEF Init, Coherent, RunCoherent, NoDanglingRows, ClosedRun
<1> QED BY <1>1, NothingDanglesInductive, PTL DEF Spec

\* Whatever captures ingest while sessions are deleted, organizations wiped,
\* devices scanned and the server restarted, no row refers to a missing one.
THEOREM NothingDangles == Spec => []NoDanglingRows
<1>1. IInv => NoDanglingRows
  BY DEF IInv
<1> QED BY <1>1, AlwaysCoherent, PTL

\* A step loses the data of one organization at most.
THEOREM OthersKeep == Spec => OthersKeepTheirData
<1>1. IInv /\ [Next]_vars => [\A o, p \in Orgs : Loses(o) /\ Loses(p) => o = p]_vars
  <2> SUFFICES ASSUME IInv, [Next]_vars, NEW o \in Orgs, NEW p \in Orgs, Loses(o), Loses(p)
               PROVE  o = p
    OBVIOUS
  <2>1. CASE Keeps
    <3>1. ~Loses(o)
      BY <2>1 DEF Keeps, Loses
    <3> QED BY <3>1
  <2> QED BY <2>1, StepTakes, DeleteTakes, WipeTakes
<1> QED BY <1>1, AlwaysCoherent, PTL DEF Spec, OthersKeepTheirData

\* No step deletes a device that a session still there has evidence of.
THEOREM EvidentStay == Spec => EvidentDevicesStay
<1>1. IInv /\ [Next]_vars
        => [\A d \in Orgs \X Hosts :
               device[d] # Absent /\ device'[d] = Absent
                  => \A row \in evidence :
                        Evident(d, {row}) => session'[row.by].status = "deleted"]_vars
  <2> SUFFICES ASSUME IInv, [Next]_vars, NEW d \in Orgs \X Hosts,
                      device[d] # Absent, device'[d] = Absent,
                      NEW row \in evidence, Evident(d, {row})
               PROVE  session'[row.by].status = "deleted"
    OBVIOUS
  <2>1. ~Keeps
    BY DEF Keeps
  <2> QED BY <2>1, StepTakes, DeleteTakes, WipeTakes
<1> QED BY <1>1, AlwaysCoherent, PTL DEF Spec, EvidentDevicesStay
=============================================================================
