---------------------------- MODULE EvidenceProofs ----------------------------
(***************************************************************************)
(* What TLAPS proves of Evidence, for any number of runs, services, host   *)
(* names, headers and claims.                                              *)
(***************************************************************************)
EXTENDS Evidence, TableProofs

-----------------------------------------------------------------------------
(***************************************************************************)
(* What a run does to its copy of the device.                              *)
(***************************************************************************)
Below(a, b) ==
    /\ a.confidence <= b.confidence
    /\ a.score <= b.score
    /\ a.ip => b.ip

Serves(copies) == \E s \in OtServices : copies[s] > 0

LEMMA BelowIsTransitive ==
    ASSUME NEW a \in Device, NEW b \in Device, NEW c \in Device, Below(a, b), Below(b, c)
    PROVE  Below(a, c)
  BY DEF Below, Device

LEMMA BelowItself ==
    ASSUME NEW a \in Device
    PROVE  Below(a, a)
  BY DEF Below, Device

\* A guess at the type only makes the device surer, and an industrial service
\* counts for six halves.
LEMMA TypeGuessGrows ==
    ASSUME NEW device \in Device, NEW copies \in [Services -> Nat]
    PROVE  /\ ApplyTypeGuess(device, copies) \in Device
           /\ Below(device, ApplyTypeGuess(device, copies))
           /\ Serves(copies) => ApplyTypeGuess(device, copies).score >= 6
  <1> DEFINE served == {s \in Services : copies[s] > 0}
             ot == served \cap OtServices # {}
             guess == Classify(Vendor, device.host, device.os, ot, Cardinality(served))
  <1>1. /\ guess.type \in Types
        /\ guess.score \in 0 .. 8
        /\ ot => guess.score >= 6
    BY ClassifyIsGuess
  <1>2. Serves(copies) => ot
    BY DEF Serves, Services, OtServices
  <1>3. ApplyTypeGuess(device, copies) =
           IF guess.score <= device.score THEN device
           ELSE [device EXCEPT !.type = guess.type, !.score = guess.score]
    BY DEF ApplyTypeGuess
  <1> HIDE DEF guess, ot
  <1>4. device.score \in 0 .. 8
    BY DEF Device
  <1>5. CASE guess.score <= device.score
    BY <1>1, <1>2, <1>3, <1>4, <1>5, BelowItself
  <1>6. CASE ~(guess.score <= device.score)
    <2>1. ApplyTypeGuess(device, copies) =
             [device EXCEPT !.type = guess.type, !.score = guess.score]
      BY <1>3, <1>6
    <2>2. ApplyTypeGuess(device, copies) \in Device
      BY <1>1, <2>1 DEF Device
    <2>3. Below(device, ApplyTypeGuess(device, copies))
      BY <1>1, <1>4, <1>6, <2>1 DEF Below, Device
    <2> QED
      BY <1>1, <1>2, <2>1, <2>2, <2>3 DEF Device
  <1> QED
    BY <1>5, <1>6

LEMMA OsGuessGrows ==
    ASSUME NEW device \in Device, NEW os \in Signature, NEW confidence \in 0 .. 12
    PROVE  /\ ApplyOsGuess(device, os, confidence) \in Device
           /\ Below(device, ApplyOsGuess(device, os, confidence))
  <1>1. CASE confidence <= device.confidence
    BY <1>1, BelowItself DEF ApplyOsGuess
  <1>2. CASE ~(confidence <= device.confidence)
    <2>1. ApplyOsGuess(device, os, confidence) =
             [device EXCEPT !.os = os, !.confidence = confidence]
      BY <1>2 DEF ApplyOsGuess
    <2>2. ApplyOsGuess(device, os, confidence) \in Device
      BY <2>1 DEF Device
    <2>3. Below(device, ApplyOsGuess(device, os, confidence))
      BY <1>2, <2>1 DEF Below, Device
    <2> QED
      BY <2>2, <2>3
  <1> QED
    BY <1>1, <1>2

LEMMA ClaimGrows ==
    ASSUME NEW device \in Device, NEW type \in Claims
    PROVE  /\ ApplyClaim(device, type) \in Device
           /\ Below(device, ApplyClaim(device, type))
  <1>1. type \in Types \cup {"none"} /\ 8 \in 0 .. 8
    BY EvidenceAssumption, SMT
  <1>2. ApplyClaim(device, type) \in Device
    BY <1>1 DEF ApplyClaim, Device
  <1>3. Below(device, ApplyClaim(device, type))
    BY DEF ApplyClaim, Device, Below
  <1> QED
    BY <1>2, <1>3

LEMMA AddressGrows ==
    ASSUME NEW device \in Device
    PROVE  /\ Addressed(device) \in Device
           /\ Below(device, Addressed(device))
  <1>1. Addressed(device) \in Device
    BY DEF Addressed, Device
  <1>2. Below(device, Addressed(device))
    BY DEF Addressed, Device, Below
  <1> QED
    BY <1>1, <1>2

\* On the row that the run has read, what it writes is what it holds; on any
\* row, an ip stays.
LEMMA WritingKeeps ==
    ASSUME NEW base \in Device, NEW held \in Device, NEW row \in Device, Below(base, held)
    PROVE  /\ Written(base, held, row) \in Device
           /\ row = base => Written(base, held, row) = held
           /\ row.ip => Written(base, held, row).ip
  BY DEF Written, Device, Below

-----------------------------------------------------------------------------
(***************************************************************************)
(* The inductive invariant.                                                *)
(***************************************************************************)
\* The transaction of nobody is what is committed; that of a run is an open
\* run's.
AtRest ==
    /\ writer = None => draft = db
    /\ writer # None => run[writer].pc # "closed"

\* The unique key, of the services that have a port; and an ip stays.
KeysHold ==
    /\ \A s \in Services : Unique(s) => db.copies[s] <= 1 /\ draft.copies[s] <= 1
    /\ db.device.ip => draft.device.ip

\* A run only adds to what it has read.
Growing(r) ==
    /\ run[r].pc # "closed" => Below(run[r].base, run[r].held)
    /\ run[r].pc = "adding" => run[r].service \in Services

\* As long as no other run has committed, a run has read what it would find now.
UpToDate(r) ==
    run[r].pc # "closed" /\ ~run[r].raced =>
        /\ run[r].base = Seen(r).device
        /\ Below(db.device, run[r].base)
        /\ run[r].pc = "adding" => Seen(r).copies[run[r].service] = 0
        /\ clean => \A s \in Services : Seen(r).copies[s] <= 1
        /\ clean /\ Serves(Seen(r).copies) => run[r].held.score >= 6

IInv ==
    /\ TypeOK
    /\ AtRest
    /\ KeysHold
    /\ \A r \in Runs : Growing(r) /\ UpToDate(r)
    /\ ServicesHaveOneRow
    /\ OtServersAreKnown

LEMMA NobodyRuns == None \notin Runs /\ Profinet \in Services
  BY EvidenceAssumption DEF Services

LEMMA SeenIsTyped ==
    ASSUME TypeOK, NEW r \in Runs
    PROVE  /\ Seen(r) \in Rows
           /\ Seen(r).device \in Device
           /\ Seen(r).copies \in [Services -> Nat]
           /\ run[r].base \in Device
           /\ run[r].held \in Device
           /\ db.device \in Device
           /\ draft.device \in Device
           /\ draft.copies \in [Services -> Nat]
           /\ db.copies \in [Services -> Nat]
  BY DEF Seen, TypeOK, Rows, Run

-----------------------------------------------------------------------------
(***************************************************************************)
(* The steps of a run.                                                     *)
(***************************************************************************)
LEMMA InitHolds == Init => IInv
  <1> SUFFICES ASSUME Init
               PROVE  IInv
    OBVIOUS
  <1> USE DEF Init
  <1>1. NewDevice \in Device
    BY DEF NewDevice, Device, Signature, Types
  <1>2. Closed \in Run
    BY <1>1 DEF Closed, Run
  <1>3. \A s \in Services : db.copies[s] = 0 /\ draft.copies[s] = 0
    OBVIOUS
  <1>4. TypeOK
    BY <1>1, <1>2 DEF TypeOK, Rows
  <1>5. \A r \in Runs : run[r].pc = "closed"
    BY DEF Closed
  <1>6. AtRest /\ KeysHold
    BY <1>3 DEF AtRest, KeysHold
  <1>7. \A r \in Runs : Growing(r) /\ UpToDate(r)
    BY <1>5 DEF Growing, UpToDate
  <1>8. ServicesHaveOneRow
    BY <1>3 DEF ServicesHaveOneRow
  <1>9. OtServersAreKnown
    BY <1>3 DEF OtServersAreKnown, Services, OtServices
  <1> QED
    BY <1>4, <1>6, <1>7, <1>8, <1>9 DEF IInv

\* A run learns: its copy of the device gets surer, and nothing is written.
Learns(r) ==
    /\ run[r].pc # "closed"
    /\ \E held \in Device, pc \in {"ready", "adding"}, service \in Services \cup {None},
          known \in SUBSET Services :
          /\ run' = [run EXCEPT ![r] = [run[r] EXCEPT !.held = held, !.pc = pc,
                                            !.service = service, !.known = known]]
          /\ Below(run[r].held, held)
          /\ pc = "adding" => service \in Services /\ Seen(r).copies[service] = 0
    /\ UNCHANGED <<db, draft, writer, clean>>

LEMMA LearningKeeps ==
    ASSUME IInv, NEW r \in Runs, Learns(r)
    PROVE  IInv'
  <1> USE DEF IInv
  <1>1. PICK held \in Device, pc \in {"ready", "adding"}, service \in Services \cup {None},
             known \in SUBSET Services :
          /\ run' = [run EXCEPT ![r] = [run[r] EXCEPT !.held = held, !.pc = pc,
                                            !.service = service, !.known = known]]
          /\ Below(run[r].held, held)
          /\ pc = "adding" => service \in Services /\ Seen(r).copies[service] = 0
    BY DEF Learns
  <1>2. UNCHANGED <<db, draft, writer, clean>> /\ run[r].pc # "closed"
    BY DEF Learns
  <1>3. run \in [Runs -> Run] /\ run[r] \in Run
    BY DEF TypeOK
  <1>4. /\ run'[r].held = held /\ run'[r].pc = pc /\ run'[r].service = service
        /\ run'[r].base = run[r].base /\ run'[r].raced = run[r].raced
        /\ run'[r] \in Run
    BY <1>1, <1>3 DEF Run
  <1>5. \A q \in Runs : q # r => run'[q] = run[q]
    BY <1>1, <1>3
  <1>6. run' \in [Runs -> Run]
    BY <1>1, <1>3, <1>4
  <1>7. TypeOK'
    BY <1>2, <1>6 DEF TypeOK
  <1>8. AtRest'
    BY <1>2, <1>4, <1>5 DEF AtRest, TypeOK
  <1>9. KeysHold' /\ ServicesHaveOneRow' /\ OtServersAreKnown'
    BY <1>2 DEF KeysHold, ServicesHaveOneRow, OtServersAreKnown
  <1>10. \A q \in Runs : Seen(q)' = Seen(q)
    BY <1>2 DEF Seen
  <1>11. Below(run[r].base, held)
    BY <1>1, <1>2, <1>3, SeenIsTyped, BelowIsTransitive DEF Growing
  <1>12. Growing(r)'
    BY <1>1, <1>4, <1>11 DEF Growing
  <1>13. run[r].held.score >= 6 => held.score >= 6
    BY <1>1, SeenIsTyped DEF Below, Device
  <1>14. UpToDate(r)'
    BY <1>1, <1>2, <1>4, <1>10, <1>13 DEF UpToDate
  <1>15. \A q \in Runs : q # r => Growing(q)' /\ UpToDate(q)'
    BY <1>2, <1>5, <1>10 DEF Growing, UpToDate
  <1> QED
    BY <1>7, <1>8, <1>9, <1>12, <1>14, <1>15

\* A copy that is held, and no more.
LEMMA HoldingKeeps ==
    ASSUME IInv, NEW r \in Runs, run[r].pc = "ready",
           NEW device \in Device, Below(run[r].held, device), Hold(r, device)
    PROVE  IInv'
  <1>1. run \in [Runs -> Run] /\ run[r] \in Run
    BY DEF IInv, TypeOK
  <1>2. run' = [run EXCEPT ![r] = [run[r] EXCEPT !.held = device, !.pc = "ready",
                                       !.service = run[r].service, !.known = run[r].known]]
    BY <1>1 DEF Hold, Run
  <1>3. Learns(r)
    BY <1>1, <1>2 DEF Learns, Hold, Run
  <1> QED
    BY <1>3, LearningKeeps

LEMMA LoadKeeps ==
    ASSUME IInv, NEW r \in Runs, NEW ip \in BOOLEAN, Load(r, ip)
    PROVE  IInv'
  <1> USE DEF IInv
  <1> DEFINE held == [db.device EXCEPT !.ip = @ \/ ip]
  <1>1. /\ run' = [run EXCEPT ![r] = [Closed EXCEPT !.pc = "ready", !.base = db.device,
                                          !.held = held]]
        /\ UNCHANGED <<db, draft, writer, clean>>
        /\ run[r].pc = "closed"
    BY DEF Load
  <1>2. db.device \in Device
    BY SeenIsTyped
  <1>3. held \in Device
    BY <1>2 DEF Device
  <1>4. Below(db.device, held) /\ held.score = db.device.score
    BY <1>2 DEF Device, Below
  <1> HIDE DEF held
  <1>5. run \in [Runs -> Run]
    BY DEF TypeOK
  <1>6. /\ run'[r].held = held /\ run'[r].base = db.device /\ run'[r].pc = "ready"
        /\ run'[r] \in Run
    BY <1>1, <1>2, <1>3, <1>5 DEF Closed, Run
  <1>7. \A q \in Runs : q # r => run'[q] = run[q]
    BY <1>1, <1>5
  <1>8. run' \in [Runs -> Run]
    BY <1>1, <1>5, <1>6
  <1>9. TypeOK'
    BY <1>1, <1>8 DEF TypeOK
  <1>10. AtRest'
    BY <1>1, <1>6, <1>7 DEF AtRest, TypeOK
  <1>11. KeysHold' /\ ServicesHaveOneRow' /\ OtServersAreKnown'
    BY <1>1 DEF KeysHold, ServicesHaveOneRow, OtServersAreKnown
  <1>12. \A q \in Runs : Seen(q)' = Seen(q)
    BY <1>1 DEF Seen
  <1>13. writer # r /\ Seen(r) = db
    BY <1>1, NobodyRuns DEF AtRest, Seen
  <1>14. Growing(r)'
    BY <1>4, <1>6 DEF Growing
  <1>15. UpToDate(r)'
    <2>1. Below(db.device, db.device)
      BY <1>2, BelowItself
    <2>2. clean => \A s \in Services : db.copies[s] <= 1
      BY DEF ServicesHaveOneRow
    <2>3. clean /\ Serves(db.copies) => held.score >= 6
      BY <1>4 DEF OtServersAreKnown, Serves
    <2> QED
      BY <1>1, <1>6, <1>12, <1>13, <2>1, <2>2, <2>3 DEF UpToDate
  <1>16. \A q \in Runs : q # r => Growing(q)' /\ UpToDate(q)'
    BY <1>1, <1>7, <1>12 DEF Growing, UpToDate
  <1> QED
    BY <1>9, <1>10, <1>11, <1>14, <1>15, <1>16

LEMMA RollBackKeeps ==
    ASSUME IInv, NEW r \in Runs, RollBack(r)
    PROVE  IInv'
  <1> USE DEF IInv
  <1>1. /\ run' = [run EXCEPT ![r] = Closed]
        /\ draft' = IF writer = r THEN db ELSE draft
        /\ writer' = IF writer = r THEN None ELSE writer
        /\ UNCHANGED <<db, clean>>
    BY DEF RollBack
  <1>2. run \in [Runs -> Run]
    BY DEF TypeOK
  <1>3. run'[r].pc = "closed" /\ \A q \in Runs : q # r => run'[q] = run[q]
    BY <1>1, <1>2 DEF Closed
  <1>4. Closed \in Run
    BY DEF Closed, Run, NewDevice, Device, Signature, Types
  <1>5. run' \in [Runs -> Run]
    BY <1>1, <1>2, <1>4
  <1>6. TypeOK'
    BY <1>1, <1>5 DEF TypeOK
  <1>7. AtRest'
    BY <1>1, <1>3, NobodyRuns DEF AtRest, TypeOK
  <1>8. KeysHold'
    BY <1>1 DEF KeysHold
  <1>9. ServicesHaveOneRow' /\ OtServersAreKnown'
    BY <1>1 DEF ServicesHaveOneRow, OtServersAreKnown
  <1>10. \A q \in Runs : q # r => Seen(q)' = Seen(q)
    BY <1>1, NobodyRuns DEF Seen
  <1>11. Growing(r)' /\ UpToDate(r)'
    BY <1>3 DEF Growing, UpToDate
  <1>12. \A q \in Runs : q # r => Growing(q)' /\ UpToDate(q)'
    BY <1>1, <1>3, <1>10 DEF Growing, UpToDate
  <1> QED
    BY <1>6, <1>7, <1>8, <1>9, <1>11, <1>12

LEMMA LookUpKeeps ==
    ASSUME IInv, NEW r \in Runs, NEW s \in Services, LookUp(r, s)
    PROVE  IInv'
  <1> DEFINE held == IF s = Profinet THEN run[r].held ELSE Addressed(run[r].held)
  <1>1. run \in [Runs -> Run] /\ run[r] \in Run
    BY DEF IInv, TypeOK
  <1>2. /\ Seen(r).copies \in [Services -> Nat]
        /\ run[r].held \in Device
    BY SeenIsTyped DEF IInv
  <1>3. held \in Device /\ Below(run[r].held, held)
    BY <1>2, AddressGrows, BelowItself
  <1>4. run[r].pc = "ready"
    BY DEF LookUp, FoundByMac, FoundByIp
  <1>5. \/ /\ s \in run[r].known \/ Seen(r).copies[s] = 1
           /\ run' = [run EXCEPT ![r].held = ApplyTypeGuess(held, Seen(r).copies),
                                 ![r].known = @ \cup {s}]
           /\ UNCHANGED <<db, draft, writer, clean>>
        \/ /\ s \notin run[r].known /\ Seen(r).copies[s] = 0
           /\ run' = [run EXCEPT ![r].held = held, ![r].pc = "adding", ![r].service = s]
           /\ UNCHANGED <<db, draft, writer, clean>>
        \/ RollBack(r)
    BY DEF LookUp
  <1> HIDE DEF held
  <1>6. CASE /\ run' = [run EXCEPT ![r].held = ApplyTypeGuess(held, Seen(r).copies),
                                   ![r].known = @ \cup {s}]
             /\ UNCHANGED <<db, draft, writer, clean>>
    <2> DEFINE guessed == ApplyTypeGuess(held, Seen(r).copies)
    <2>1. guessed \in Device /\ Below(held, guessed)
      BY <1>2, <1>3, TypeGuessGrows
    <2>2. Below(run[r].held, guessed)
      BY <1>2, <1>3, <2>1, BelowIsTransitive
    <2> HIDE DEF guessed
    <2>3. run' = [run EXCEPT ![r] = [run[r] EXCEPT !.held = guessed, !.pc = "ready",
                                         !.service = run[r].service,
                                         !.known = run[r].known \cup {s}]]
      BY <1>1, <1>4, <1>6 DEF Run, guessed
    <2>4. run[r].known \cup {s} \in SUBSET Services /\ run[r].service \in Services \cup {None}
      BY <1>1 DEF Run
    <2>5. Learns(r)
      BY <1>4, <1>6, <2>1, <2>2, <2>3, <2>4 DEF Learns
    <2> QED
      BY <2>5, LearningKeeps
  <1>7. CASE /\ Seen(r).copies[s] = 0
             /\ run' = [run EXCEPT ![r].held = held, ![r].pc = "adding", ![r].service = s]
             /\ UNCHANGED <<db, draft, writer, clean>>
    <2>1. run' = [run EXCEPT ![r] = [run[r] EXCEPT !.held = held, !.pc = "adding",
                                         !.service = s, !.known = run[r].known]]
      BY <1>1, <1>7 DEF Run
    <2>2. run[r].known \in SUBSET Services
      BY <1>1 DEF Run
    <2>3. Learns(r)
      BY <1>3, <1>4, <1>7, <2>1, <2>2 DEF Learns
    <2> QED
      BY <2>3, LearningKeeps
  <1>8. CASE RollBack(r)
    BY <1>8, RollBackKeeps
  <1> QED
    BY <1>5, <1>6, <1>7, <1>8

LEMMA InsertKeeps ==
    ASSUME IInv, NEW r \in Runs, Insert(r)
    PROVE  IInv'
  <1> USE DEF IInv
  <1> DEFINE s == run[r].service
             copies == [draft.copies EXCEPT ![s] = @ + 1]
             row == Written(run[r].base, run[r].held, draft.device)
             guessed == ApplyTypeGuess(run[r].held, copies)
  <1>1. run \in [Runs -> Run] /\ run[r] \in Run
    BY DEF TypeOK
  <1>2. /\ draft.copies \in [Services -> Nat] /\ db.copies \in [Services -> Nat]
        /\ draft.device \in Device /\ db.device \in Device
        /\ run[r].held \in Device /\ run[r].base \in Device
    BY SeenIsTyped
  <1>3. run[r].pc = "adding" /\ MayWrite(r)
    BY DEF Insert
  <1>4. s \in Services /\ Below(run[r].base, run[r].held)
    BY <1>3 DEF Growing
  <1>5. CASE RollBack(r)
    BY <1>5, RollBackKeeps
  <1>6. CASE /\ Unique(s) => ~(draft.copies[s] > 0)
             /\ draft' = [device |-> row, copies |-> copies]
             /\ writer' = r
             /\ run' = [run EXCEPT ![r] = [run[r] EXCEPT !.pc = "ready", !.service = None,
                            !.base = run[r].held, !.held = guessed,
                            !.known = run[r].known \cup {s}]]
             /\ UNCHANGED <<db, clean>>
    <2>1. copies \in [Services -> Nat]
      BY <1>2, <1>4
    <2>2. /\ row \in Device
          /\ draft.device = run[r].base => row = run[r].held
          /\ draft.device.ip => row.ip
      BY <1>2, <1>4, WritingKeeps
    <2>3. /\ guessed \in Device /\ Below(run[r].held, guessed)
          /\ Serves(copies) => guessed.score >= 6
      BY <1>2, <2>1, TypeGuessGrows
    <2>4. copies[s] = draft.copies[s] + 1
          /\ \A t \in Services : t # s => copies[t] = draft.copies[t]
      BY <1>2, <1>4
    <2> HIDE DEF copies, row, guessed
    <2>5. /\ run'[r].pc = "ready" /\ run'[r].base = run[r].held /\ run'[r].held = guessed
          /\ run'[r].raced = run[r].raced
          /\ run'[r] \in Run
      <3> DEFINE new == [run[r] EXCEPT !.pc = "ready", !.service = None,
                            !.base = run[r].held, !.held = guessed,
                            !.known = run[r].known \cup {s}]
      <3>1. run'[r] = new
        <4>1. run' = [run EXCEPT ![r] = new]
          BY <1>6
        <4> HIDE DEF new
        <4> QED
          BY <1>1, <4>1
      <3>2. /\ new.pc = "ready" /\ new.base = run[r].held /\ new.held = guessed
            /\ new.raced = run[r].raced
        BY <1>1 DEF Run
      <3>3. run[r].known \cup {s} \in SUBSET Services
        BY <1>1, <1>4 DEF Run
      <3>4. new \in Run
        BY <1>1, <1>2, <2>3, <3>3 DEF Run
      <3> HIDE DEF new
      <3> QED
        BY <3>1, <3>2, <3>4
    <2>6. \A q \in Runs : q # r => run'[q] = run[q]
      BY <1>1, <1>6
    <2>7. run' \in [Runs -> Run]
      BY <1>1, <1>6, <2>5
    <2>8. draft' \in Rows /\ draft'.device = row /\ draft'.copies = copies
      BY <1>6, <2>1, <2>2 DEF Rows
    <2>9. TypeOK'
      BY <1>6, <2>7, <2>8 DEF TypeOK
    <2>10. AtRest'
      BY <1>6, <2>5, NobodyRuns DEF AtRest
    <2>11. KeysHold'
      <3>1. \A t \in Services : Unique(t) => copies[t] <= 1
        BY <1>2, <1>4, <1>6, <2>4 DEF KeysHold
      <3>2. db.device.ip => row.ip
        BY <2>2 DEF KeysHold
      <3> QED
        BY <1>6, <2>8, <3>1, <3>2 DEF KeysHold, Unique
    <2>12. ServicesHaveOneRow' /\ OtServersAreKnown'
      BY <1>6 DEF ServicesHaveOneRow, OtServersAreKnown
    <2>13. \A q \in Runs : q # r => Seen(q) = db /\ Seen(q)' = db
      BY <1>3, <1>6, NobodyRuns DEF MayWrite, Seen
    <2>14. \A q \in Runs : q # r => Growing(q)' /\ UpToDate(q)'
      BY <1>6, <2>6, <2>13 DEF Growing, UpToDate
    <2>15. Growing(r)'
      BY <2>3, <2>5 DEF Growing
    <2>16. Seen(r) = draft /\ Seen(r)' = draft'
      BY <1>3, <1>6 DEF MayWrite, Seen, AtRest
    <2>17. UpToDate(r)'
      <3> SUFFICES ASSUME ~run[r].raced
                   PROVE  UpToDate(r)'
        BY <2>5 DEF UpToDate
      <3>1. /\ run[r].base = draft.device
            /\ Below(db.device, run[r].base)
            /\ draft.copies[s] = 0
            /\ clean => \A t \in Services : draft.copies[t] <= 1
        BY <1>3, <2>16 DEF UpToDate
      <3>2. row = run[r].held
        BY <2>2, <3>1
      <3>3. Below(db.device, run[r].held)
        BY <1>2, <1>4, <3>1, BelowIsTransitive
      <3>4. clean => \A t \in Services : copies[t] <= 1
        BY <2>1, <2>4, <3>1
      <3> QED
        BY <1>6, <2>3, <2>5, <2>8, <2>16, <3>2, <3>3, <3>4 DEF UpToDate
    <2> QED
      BY <2>9, <2>10, <2>11, <2>12, <2>14, <2>15, <2>17
  <1> QED
    BY <1>5, <1>6 DEF Insert

\* What a commit makes of the rows.
LEMMA CommitWrites ==
    ASSUME IInv, NEW r \in Runs, NEW ends \in BOOLEAN, Commit(r, ends)
    PROVE  /\ db' \in Rows /\ draft' = db' /\ writer' = None
           /\ db'.copies = draft.copies
           /\ db.device.ip => db'.device.ip
           /\ clean' => clean /\ ~run[r].raced
           /\ Seen(r) = draft
           /\ ~run[r].raced =>
                 /\ db'.device = run[r].held
                 /\ Below(db.device, db'.device)
  <1> USE DEF IInv
  <1>1. /\ db' = [draft EXCEPT !.device = Written(run[r].base, run[r].held, @)]
        /\ draft' = db'
        /\ writer' = None
        /\ clean' = (clean /\ ~run[r].raced)
        /\ run[r].pc = "ready" /\ MayWrite(r)
    BY DEF Commit
  <1>2. /\ draft.copies \in [Services -> Nat]
        /\ draft.device \in Device /\ db.device \in Device
        /\ run[r].held \in Device /\ run[r].base \in Device
        /\ draft \in Rows /\ clean \in BOOLEAN /\ run[r].raced \in BOOLEAN
    BY SeenIsTyped DEF TypeOK, Run
  <1>3. Below(run[r].base, run[r].held)
    BY <1>1 DEF Growing
  <1>4. /\ Written(run[r].base, run[r].held, draft.device) \in Device
        /\ draft.device = run[r].base =>
              Written(run[r].base, run[r].held, draft.device) = run[r].held
        /\ draft.device.ip => Written(run[r].base, run[r].held, draft.device).ip
    BY <1>2, <1>3, WritingKeeps
  <1>5. /\ db'.device = Written(run[r].base, run[r].held, draft.device)
        /\ db'.copies = draft.copies
        /\ db' \in Rows
    BY <1>1, <1>2, <1>4 DEF Rows
  <1>6. db.device.ip => db'.device.ip
    BY <1>4, <1>5 DEF KeysHold
  <1>7. Seen(r) = draft
    BY <1>1 DEF MayWrite, Seen, AtRest
  <1>8. ~run[r].raced => draft.device = run[r].base /\ Below(db.device, run[r].base)
    BY <1>1, <1>7 DEF UpToDate
  <1>9. ~run[r].raced => db'.device = run[r].held /\ Below(db.device, run[r].held)
    BY <1>2, <1>3, <1>4, <1>5, <1>8, BelowIsTransitive
  <1> QED
    BY <1>1, <1>2, <1>5, <1>6, <1>7, <1>9

LEMMA CommitKeeps ==
    ASSUME IInv, NEW r \in Runs, NEW ends \in BOOLEAN, Commit(r, ends)
    PROVE  IInv'
  <1> USE DEF IInv
  <1>1. /\ db' \in Rows /\ draft' = db' /\ writer' = None
        /\ db'.copies = draft.copies
        /\ db.device.ip => db'.device.ip
        /\ clean' => clean /\ ~run[r].raced
        /\ Seen(r) = draft
        /\ ~run[r].raced => db'.device = run[r].held
    BY CommitWrites
  <1>2. /\ run' = [q \in Runs |->
                  IF q = r THEN IF ends THEN Closed ELSE [run[r] EXCEPT !.base = run[r].held]
                  ELSE IF run[q].pc = "closed" THEN run[q] ELSE [run[q] EXCEPT !.raced = TRUE]]
        /\ clean' = (clean /\ ~run[r].raced)
        /\ run[r].pc = "ready"
    BY DEF Commit
  <1>3. run \in [Runs -> Run]
    BY DEF TypeOK
  <1>4. Closed \in Run /\ Closed.pc = "closed"
    BY DEF Closed, Run, NewDevice, Device, Signature, Types
  <1>5. \A q \in Runs : q # r =>
           /\ run'[q] \in Run /\ run'[q].pc = run[q].pc /\ run'[q].service = run[q].service
           /\ run'[q].base = run[q].base /\ run'[q].held = run[q].held
           /\ run[q].pc # "closed" => run'[q].raced
    BY <1>2, <1>3 DEF Run
  <1>6. /\ run'[r] \in Run
        /\ \/ run'[r].pc = "closed"
           \/ /\ run'[r].pc = "ready" /\ run'[r].base = run[r].held
              /\ run'[r].held = run[r].held /\ run'[r].raced = run[r].raced
    <2>1. CASE ends
      BY <1>2, <1>4, <2>1
    <2>2. CASE ~ends
      BY <1>2, <1>3, <2>2 DEF Run
    <2> QED
      BY <2>1, <2>2
  <1>7. run' \in [Runs -> Run]
    BY <1>2, <1>5, <1>6
  <1>8. clean' \in BOOLEAN
    BY <1>2
  <1>9. TypeOK'
    BY <1>1, <1>7, <1>8 DEF TypeOK
  <1>10. AtRest'
    BY <1>1 DEF AtRest
  <1>11. KeysHold'
    BY <1>1 DEF KeysHold
  <1>12. clean' => /\ \A s \in Services : draft.copies[s] <= 1
                   /\ Serves(draft.copies) => run[r].held.score >= 6
    BY <1>1, <1>2 DEF UpToDate
  <1>13. ServicesHaveOneRow'
    BY <1>1, <1>12 DEF ServicesHaveOneRow, KeysHold
  <1>14. OtServersAreKnown'
    BY <1>1, <1>12 DEF OtServersAreKnown, Serves
  <1>15. \A q \in Runs : q # r => Growing(q)' /\ UpToDate(q)'
    BY <1>5 DEF Growing, UpToDate
  <1>16. Seen(r)' = db'
    BY <1>1 DEF Seen
  <1>17. run[r].held \in Device
    BY SeenIsTyped
  <1>18. Below(run[r].held, run[r].held)
    BY <1>17, BelowItself
  <1>19. Growing(r)'
    BY <1>6, <1>18 DEF Growing
  <1>20. UpToDate(r)'
    BY <1>1, <1>6, <1>12, <1>16, <1>18 DEF UpToDate
  <1> QED
    BY <1>9, <1>10, <1>11, <1>13, <1>14, <1>15, <1>19, <1>20

LEMMA NextKeeps == IInv /\ [Next]_vars => IInv'
  <1> SUFFICES ASSUME IInv, [Next]_vars
               PROVE  IInv'
    OBVIOUS
  <1>1. ASSUME NEW r \in Runs
        PROVE  run[r].held \in Device /\ Seen(r).copies \in [Services -> Nat]
    BY SeenIsTyped DEF IInv
  <1>2. ASSUME NEW r \in Runs, NEW ip \in BOOLEAN, Load(r, ip)
        PROVE  IInv'
    BY <1>2, LoadKeeps
  <1>3. ASSUME NEW r \in Runs, NEW syn \in Headers, Fingerprinted(r, syn)
        PROVE  IInv'
    <2> DEFINE guess == Fingerprint(syn)
               addressed == Addressed(run[r].held)
               held == ApplyOsGuess(addressed, guess.os, guess.confidence)
               typed == ApplyTypeGuess(held, Seen(r).copies)
    <2>1. syn \in Syn
      BY EvidenceAssumption
    <2>2. guess.os \in Signature /\ guess.confidence \in 0 .. 12
      BY <2>1, FingerprintIsGuess DEF Signature
    <2>3. addressed \in Device /\ Below(run[r].held, addressed)
      BY <1>1, AddressGrows
    <2>4. run[r].pc = "ready" /\ Hold(r, typed)
      BY <1>3 DEF Fingerprinted, FoundByIp
    <2> HIDE DEF guess, addressed
    <2>5. held \in Device /\ Below(addressed, held)
      BY <2>2, <2>3, OsGuessGrows
    <2> HIDE DEF held
    <2>6. typed \in Device /\ Below(held, typed)
      BY <1>1, <2>5, TypeGuessGrows
    <2> HIDE DEF typed
    <2>7. Below(run[r].held, typed)
      BY <1>1, <2>3, <2>5, <2>6, BelowIsTransitive
    <2> QED
      BY <2>4, <2>6, <2>7, HoldingKeeps
  <1>4. ASSUME NEW r \in Runs, Announced(r)
        PROVE  IInv'
    <2> DEFINE held == ApplyOsGuess(run[r].held, "cdp_lldp_announcement", 12)
               typed == ApplyTypeGuess(held, Seen(r).copies)
    <2>1. run[r].pc = "ready" /\ Hold(r, typed)
      BY <1>4 DEF Announced, FoundByMac
    <2>2. "cdp_lldp_announcement" \in Signature /\ 12 \in 0 .. 12
      BY DEF Signature
    <2>3. held \in Device /\ Below(run[r].held, held)
      BY <1>1, <2>2, OsGuessGrows
    <2> HIDE DEF held
    <2>4. typed \in Device /\ Below(held, typed)
      BY <1>1, <2>3, TypeGuessGrows
    <2> HIDE DEF typed
    <2>5. Below(run[r].held, typed)
      BY <1>1, <2>3, <2>4, BelowIsTransitive
    <2> QED
      BY <2>1, <2>4, <2>5, HoldingKeeps
  <1>5. ASSUME NEW r \in Runs, NEW type \in Claims, Identified(r, type)
        PROVE  IInv'
    <2> DEFINE addressed == Addressed(run[r].held)
               typed == ApplyClaim(addressed, type)
    <2>1. run[r].pc = "ready" /\ Hold(r, typed)
      BY <1>5 DEF Identified, FoundByIp
    <2>2. addressed \in Device /\ Below(run[r].held, addressed)
      BY <1>1, AddressGrows
    <2> HIDE DEF addressed
    <2>3. typed \in Device /\ Below(addressed, typed)
      BY <2>2, ClaimGrows
    <2> HIDE DEF typed
    <2>4. Below(run[r].held, typed)
      BY <1>1, <2>2, <2>3, BelowIsTransitive
    <2> QED
      BY <2>1, <2>3, <2>4, HoldingKeeps
  <1>6. ASSUME NEW r \in Runs, NEW host \in Names, Named(r, host)
        PROVE  IInv'
    <2> DEFINE addressed == Addressed(run[r].held)
               named == [addressed EXCEPT !.host = host]
               typed == ApplyTypeGuess(named, Seen(r).copies)
    <2>1. run[r].pc = "ready" /\ (Hold(r, typed) \/ Hold(r, addressed))
      BY <1>6 DEF Named, FoundByIp
    <2>2. addressed \in Device /\ Below(run[r].held, addressed)
      BY <1>1, AddressGrows
    <2> HIDE DEF addressed
    <2>3. named \in Device /\ Below(addressed, named)
      BY <2>2, EvidenceAssumption DEF Device, Below
    <2> HIDE DEF named
    <2>4. typed \in Device /\ Below(named, typed)
      BY <1>1, <2>3, TypeGuessGrows
    <2> HIDE DEF typed
    <2>5. Below(run[r].held, typed)
      BY <1>1, <2>2, <2>3, <2>4, BelowIsTransitive
    <2> QED
      BY <2>1, <2>2, <2>4, <2>5, HoldingKeeps
  <1>7. ASSUME NEW r \in Runs, NEW s \in Services, LookUp(r, s)
        PROVE  IInv'
    BY <1>7, LookUpKeeps
  <1>8. ASSUME NEW r \in Runs, Insert(r)
        PROVE  IInv'
    BY <1>8, InsertKeeps
  <1>9. ASSUME NEW r \in Runs, NEW ends \in BOOLEAN, Commit(r, ends)
        PROVE  IInv'
    BY <1>9, CommitKeeps
  <1>10. ASSUME NEW r \in Runs, Abort(r)
         PROVE  IInv'
    BY <1>10, RollBackKeeps DEF Abort
  <1>11. CASE UNCHANGED vars
    BY <1>11 DEF IInv, vars, TypeOK, AtRest, KeysHold, Growing, UpToDate, Seen,
        ServicesHaveOneRow, OtServersAreKnown
  <1> QED
    BY <1>2, <1>3, <1>4, <1>5, <1>6, <1>7, <1>8, <1>9, <1>10, <1>11 DEF Next

LEMMA Invariance == Spec => []IInv
  <1> QED
    BY InitHolds, NextKeeps, PTL DEF Spec

-----------------------------------------------------------------------------
(***************************************************************************)
(* The theorems.                                                           *)
(***************************************************************************)
\* The types of the rows and of what the runs hold: no guess is surer than
\* certain.
THEOREM TypeCorrect == Spec => []TypeOK
  <1>1. IInv => TypeOK
    BY DEF IInv
  <1> QED
    BY <1>1, Invariance, PTL

\* The unique key keeps every service that has a port at one row, whoever runs;
\* PROFINET is kept at one by upsert_protocol's query alone, unless two runs
\* have met it at once.
THEOREM OneRowEach == Spec => []ServicesHaveOneRow
  <1>1. IInv => ServicesHaveOneRow
    BY DEF IInv
  <1> QED
    BY <1>1, Invariance, PTL

\* A device that is known to serve an industrial protocol is classified by at
\* least the weight of that, unless two runs have written over each other.
THEOREM OtServersStay == Spec => []OtServersAreKnown
  <1>1. IInv => OtServersAreKnown
    BY DEF IInv
  <1> QED
    BY <1>1, Invariance, PTL

\* No step that is written makes a device less certain, or takes its ip away.
THEOREM CertaintyOnlyGrows == Spec => CertaintyGrows
  <1>1. IInv /\ [Next]_vars =>
           [/\ clean' => /\ db.device.confidence <= db'.device.confidence
                         /\ db.device.score <= db'.device.score
            /\ db.device.ip => db'.device.ip]_vars
    <2> SUFFICES ASSUME IInv, [Next]_vars
                 PROVE  /\ clean' => Below(db.device, db'.device)
                        /\ db.device.ip => db'.device.ip
      BY DEF Below
    <2>1. ASSUME NEW r \in Runs, NEW ends \in BOOLEAN, Commit(r, ends)
          PROVE  /\ clean' => Below(db.device, db'.device)
                 /\ db.device.ip => db'.device.ip
      BY <2>1, CommitWrites
    <2>2. CASE UNCHANGED db
      <3>1. db.device \in Device
        BY DEF IInv, TypeOK, Rows
      <3> QED
        BY <2>2, <3>1, BelowItself
    <2>3. Next => \/ \E r \in Runs, ends \in BOOLEAN : Commit(r, ends)
                  \/ UNCHANGED db
      BY DEF Next, Load, Fingerprinted, Announced, Identified, Named, Hold, LookUp,
          Insert, Abort, RollBack
    <2> QED
      BY <2>1, <2>2, <2>3 DEF vars
  <1> QED
    BY <1>1, Invariance, PTL DEF Spec, CertaintyGrows

=============================================================================
