------------------------- MODULE CaptureWorkerProofs -------------------------
(***************************************************************************)
(* Proofs about CaptureWorker for every queue and batch size, any set of   *)
(* stop and delete requests, any number of packets and failures.           *)
(***************************************************************************)
EXTENDS CaptureWorker, TLAPS

\* Every step keeps every field in its range.
LEMMA TypeInductive ==
    /\ Init => TypeOK
    /\ TypeOK /\ [Next]_vars => TypeOK'
<1> USE CapacityAssumption DEF CapacityAssumption, TypeOK, Row, Sniffers, SnifferAlive,
        ConsumerPlaces, Ended, StarterPlaces, StoppingPlaces, RequestPlaces, vars, workerVars, consumerVars, routeVars
<1>1. Init => TypeOK
  <2> SUFFICES ASSUME Init PROVE TypeOK
    OBVIOUS
  <2>1. request \in [Requests -> [at : RequestPlaces, kind : {"stop", "delete"}]]
    BY DEF Init
  <2>2. row \in Row
    BY DEF Init
  <2>3. stopEvent \in BOOLEAN /\ registered \in BOOLEAN
    BY DEF Init
  <2> QED
    BY <2>1, <2>2, <2>3 DEF Init
<1>2. TypeOK /\ [Next]_vars => TypeOK'
  <2> SUFFICES ASSUME TypeOK, [Next]_vars PROVE TypeOK'
    OBVIOUS
  <2>1. CASE Start
    <3>1. CASE StartConsumer \/ SnifferStarts \/ JoinFailedStart
      BY <3>1 DEF StartConsumer, SnifferStarts, JoinFailedStart
    <3>2. CASE SnifferFails
      BY <3>2 DEF SnifferFails
    <3>3. CASE WriteStartError
      BY <3>3 DEF WriteStartError, EndRow
    <3>4. CASE Register
      BY <3>4 DEF Register
    <3> QED
      BY <2>1, <3>1, <3>2, <3>3, <3>4 DEF Start
  <2>2. ASSUME NEW r \in Requests, NEW kind \in {"stop", "delete"}, Arrive(r, kind)
        PROVE TypeOK'
    BY <2>2 DEF Arrive
  <2>3. ASSUME NEW r \in Requests, Serve(r)
        PROVE TypeOK'
    <3>1. CASE PopWorker(r)
      <4>1. request' \in [Requests -> [at : RequestPlaces, kind : {"stop", "delete"}]]
        BY <3>1 DEF PopWorker, Goto
      <4>2. /\ UNCHANGED <<workerVars, consumerVars, starter, row, captured, failures>>
            /\ registered' \in BOOLEAN
        BY <3>1 DEF PopWorker
      <4> QED
        BY <4>1, <4>2
    <3>2. CASE StopSniffer(r)
      <4>1. request' \in [Requests -> [at : RequestPlaces, kind : {"stop", "delete"}]]
        BY <3>2 DEF StopSniffer, Goto
      <4> QED
        BY <3>2, <4>1 DEF StopSniffer
    <3>6. CASE StopFails(r)
      BY <3>6 DEF StopFails, Goto
    <3>3. CASE SetStopEvent(r)
      BY <3>3 DEF SetStopEvent, Goto
    <3>4. CASE JoinConsumer(r)
      BY <3>4 DEF JoinConsumer, Goto
    <3>5. CASE WriteRow(r)
      BY <3>5 DEF WriteRow, Goto, EndRow
    <3> QED
      BY <2>3, <3>1, <3>2, <3>3, <3>4, <3>5, <3>6 DEF Serve
  <2>4. CASE Sniff
    BY <2>4 DEF Sniff, SnifferOpens, SnifferDies, Enqueue, QueueFull, CountDrop
  <2>5. CASE Consume
    <3>1. CASE BeginDrain
      BY <3>1 DEF BeginDrain
    <3>2. CASE TakeRecord
      BY <3>2 DEF TakeRecord
    <3>3. CASE DeadlinePasses \/ FinalFlushEnds
      BY <3>3 DEF DeadlinePasses, FinalFlushEnds
    <3>4. CASE CheckStop
      BY <3>4 DEF CheckStop
    <3>5. CASE SwapDropped
      BY <3>5 DEF SwapDropped
    <3>6. CASE SkipBatch \/ ReadSession
      BY <3>6 DEF SkipBatch, ReadSession
    <3>7. CASE CommitBatch
      <4>1. row' \in Row
        <5>1. /\ row.packet_count + batch \in Nat
              /\ row.dropped_count + taken \in Nat
          OBVIOUS
        <5>2. row' = [row EXCEPT !.packet_count = row.packet_count + batch,
                                 !.dropped_count = row.dropped_count + taken]
          BY <3>7 DEF CommitBatch
        <5> QED
          BY <5>1, <5>2
      <4>2. /\ consumer' = "loop" /\ batch' = 0 /\ taken' = 0
            /\ UNCHANGED <<sniffer, hand, queued, dropped, stopEvent, registered,
                           starter, request, captured, failures>>
        BY <3>7 DEF CommitBatch
      <4> QED
        BY <4>1, <4>2
    <3>8. CASE FailBatch
      BY <3>8 DEF FailBatch
    <3>9. CASE CountFailedBatch
      BY <3>9 DEF CountFailedBatch
    <3> QED
      BY <2>5, <3>1, <3>2, <3>3, <3>4, <3>5, <3>6, <3>7, <3>8, <3>9 DEF Consume
  <2>6. CASE UNCHANGED vars
    BY <2>6
  <2> QED
    BY <2>1, <2>2, <2>3, <2>4, <2>5, <2>6 DEF Next
<1> QED
  BY <1>1, <1>2

\* Every field of the state keeps its range; the queue and the batch keep
\* their capacities (QUEUE_MAXSIZE, BATCH_MAX_RECORDS), whatever races.
THEOREM TypeCorrect == Spec => []TypeOK
  BY TypeInductive, PTL DEF Spec

-----------------------------------------------------------------------------
(***************************************************************************)
(* The ledger.  The strengthening it needs is that the drops a batch has   *)
(* taken over are given up or booked before the next swap, and that the    *)
(* consumer thread is started once.                                        *)
(***************************************************************************)
LedgerInv ==
    /\ NothingLostWhileHealthy
    /\ consumer \notin {"read", "commit"} => taken = 0
    /\ starter = "threads" => consumer = "new"

LEMMA LedgerInductive ==
    TypeOK /\ LedgerInv /\ [Next]_vars => LedgerInv'
<1> SUFFICES ASSUME TypeOK, LedgerInv, [Next]_vars PROVE LedgerInv'
  OBVIOUS
<1> USE DEF LedgerInv, NothingLostWhileHealthy, Accounted, vars, workerVars,
        consumerVars, routeVars
<1>0. /\ hand \in Nat /\ queued \in Nat /\ dropped \in Nat /\ batch \in Nat
      /\ taken \in Nat /\ captured \in Nat /\ failures \in Nat
      /\ row.packet_count \in Nat /\ row.dropped_count \in Nat
  BY CapacityAssumption DEF CapacityAssumption, TypeOK, Row
<1>1. ASSUME UNCHANGED <<hand, queued, dropped, batch, taken, captured, failures>>,
             \/ row' = row
             \/ \E status \in {"ended", "deleted"} : row' = [row EXCEPT !.status = status],
             consumer' = consumer \/ consumer' \in {"read", "commit"} \/ taken = 0,
             starter' # "threads" \/ UNCHANGED <<starter, consumer>>
      PROVE  LedgerInv'
  <2>1. /\ row'.packet_count = row.packet_count
        /\ row'.dropped_count = row.dropped_count
        /\ row'.status = "running" => row.status = "running"
    BY <1>1 DEF TypeOK, Row
  <2> QED
    BY <1>0, <1>1, <2>1
<1>2. CASE Start
  <2>1. CASE WriteStartError
    BY <1>1, <2>1 DEF WriteStartError, EndRow
  <2>2. CASE StartConsumer \/ SnifferStarts \/ SnifferFails \/ JoinFailedStart
             \/ Register
    BY <1>0, <2>2 DEF StartConsumer, SnifferStarts, SnifferFails, JoinFailedStart,
                      Register
  <2> QED
    BY <1>2, <2>1, <2>2 DEF Start
<1>3. ASSUME NEW r \in Requests, NEW kind \in {"stop", "delete"}, Arrive(r, kind)
      PROVE  LedgerInv'
  BY <1>1, <1>3 DEF Arrive
<1>4. ASSUME NEW r \in Requests, Serve(r)
      PROVE  LedgerInv'
  <2>1. CASE WriteRow(r)
    BY <1>1, <2>1 DEF WriteRow, EndRow
  <2> QED
    BY <1>1, <1>4, <2>1 DEF Serve, PopWorker, StopSniffer, StopFails, SetStopEvent,
                            JoinConsumer
<1>5. CASE Sniff
  <2>1. CASE Enqueue
    BY <1>0, <2>1 DEF Enqueue
  <2>2. CASE QueueFull
    BY <1>0, <2>2 DEF QueueFull
  <2>3. CASE CountDrop
    BY <1>0, <2>3 DEF CountDrop
  <2>4. CASE SnifferOpens \/ SnifferDies
    BY <1>1, <2>4 DEF SnifferOpens, SnifferDies
  <2> QED
    BY <1>5, <2>1, <2>2, <2>3, <2>4 DEF Sniff
<1>6. CASE Consume
  <2>1. CASE BeginDrain \/ DeadlinePasses \/ FinalFlushEnds \/ CheckStop \/ ReadSession
    BY <1>0, <2>1 DEF BeginDrain, DeadlinePasses, FinalFlushEnds, CheckStop,
                      ReadSession
  <2>2. CASE TakeRecord
    BY <1>0, <2>2 DEF TakeRecord
  <2>3. CASE SwapDropped
    BY <1>0, <2>3 DEF SwapDropped
  <2>4. CASE SkipBatch
    BY <1>0, <2>4 DEF SkipBatch
  <2>5. CASE CommitBatch
    <3>1. /\ row'.packet_count = row.packet_count + batch
          /\ row'.dropped_count = row.dropped_count + taken
          /\ row'.status = row.status
      BY <2>5 DEF CommitBatch, TypeOK, Row
    <3> QED
      BY <1>0, <2>5, <3>1 DEF CommitBatch
  <2>6. CASE FailBatch
    BY <1>0, <2>6 DEF FailBatch
  <2>7. CASE CountFailedBatch
    BY <1>0, <2>7 DEF CountFailedBatch
  <2> QED
    BY <1>6, <2>1, <2>2, <2>3, <2>4, <2>5, <2>6, <2>7 DEF Consume
<1>7. CASE UNCHANGED vars
  BY <1>7
<1> QED
  BY <1>2, <1>3, <1>4, <1>5, <1>6, <1>7 DEF Next

\* No interleaving of the sniffer, the consumer and the requests counts a
\* record twice, or loses one while the session runs and no ingest has failed.
THEOREM LedgerCorrect == Spec => []NothingLostWhileHealthy
<1>1. Init => LedgerInv
  BY DEF Init, LedgerInv, NothingLostWhileHealthy, Accounted
<1>2. LedgerInv => NothingLostWhileHealthy
  BY DEF LedgerInv
<1> QED
  BY <1>1, <1>2, TypeInductive, LedgerInductive, PTL DEF Spec

-----------------------------------------------------------------------------
(***************************************************************************)
(* Who controls the threads.  The start request does until it registers    *)
(* the worker, the manager's entry says that nobody does, and whoever pops *)
(* the entry does until its join: each hand-over leaves the threads in a   *)
(* known state.                                                            *)
(***************************************************************************)
Stopping(r) == request[r].at \in StoppingPlaces

NobodyStopping == \A r \in Requests : ~Stopping(r)

\* A sniffer thread that no stop has ended: it may have ended of itself.
Spawned == {"starting", "running", "dead"}

StarterControls ==
    starter # "done" =>
        /\ ~registered
        /\ NobodyStopping
        /\ starter = "register" => sniffer \in Spawned
        /\ starter # "register" => sniffer = "off"
        /\ starter \notin {"failing", "error"} => ~stopEvent

ManagerControls ==
    registered => NobodyStopping /\ sniffer \in Spawned /\ ~stopEvent

RequestControls ==
    \A r \in Requests :
        Stopping(r) =>
            /\ \A s \in Requests : Stopping(s) => s = r
            /\ request[r].at = "sniffer" => sniffer \in Spawned
            /\ request[r].at # "sniffer" => sniffer = "stopped"
            /\ request[r].at # "join" => ~stopEvent

ThreadsFollow ==
    /\ stopEvent => sniffer \in {"off", "stopped"}
    /\ hand = 1 => sniffer = "running"
    /\ consumer \in {"final"} \cup Ended => stopEvent
    /\ consumer = "new" <=> starter = "threads"

ControlInv ==
    /\ StarterControls
    /\ ManagerControls
    /\ RequestControls
    /\ ThreadsFollow

LEMMA ControlInductive ==
    TypeOK /\ ControlInv /\ [Next]_vars => ControlInv'
<1> SUFFICES ASSUME TypeOK, ControlInv, [Next]_vars PROVE ControlInv'
  OBVIOUS
<1> USE DEF ControlInv, StarterControls, ManagerControls, RequestControls,
        ThreadsFollow, NobodyStopping, Stopping, StoppingPlaces, Spawned, Ended, vars,
        workerVars, consumerVars, routeVars
<1>0. /\ \A r \in Requests : request[r] \in [at : RequestPlaces, kind : {"stop", "delete"}]
      /\ hand \in {0, 1}
  BY DEF TypeOK
<1>1. CASE Start
  BY <1>1 DEF Start, StartConsumer, SnifferStarts, SnifferFails, JoinFailedStart,
              WriteStartError, Register
<1>2. ASSUME NEW r \in Requests, NEW kind \in {"stop", "delete"}, Arrive(r, kind)
      PROVE  ControlInv'
  <2>1. \A s \in Requests : Stopping(s)' <=> Stopping(s) /\ s # r
    BY <1>0, <1>2 DEF Arrive, TypeOK
  <2>2. \A s \in Requests : s # r => request'[s] = request[s]
    BY <1>2 DEF Arrive, TypeOK
  <2> QED
    BY <1>2, <2>1, <2>2 DEF Arrive
<1>3. ASSUME NEW r \in Requests, Serve(r)
      PROVE  ControlInv'
  <2>0. ASSUME NEW place \in RequestPlaces, Goto(r, place)
        PROVE  /\ request'[r].at = place
               /\ \A s \in Requests : s # r => request'[s] = request[s]
    BY <2>0 DEF Goto, TypeOK
  <2>1. CASE PopWorker(r)
    <3>1. CASE registered
      BY <2>0, <2>1, <3>1 DEF PopWorker, RequestPlaces
    <3>2. CASE ~registered
      BY <2>0, <2>1, <3>2 DEF PopWorker, RequestPlaces
    <3> QED
      BY <3>1, <3>2
  <2>2. CASE StopSniffer(r)
    BY <1>0, <2>0, <2>2 DEF StopSniffer, RequestPlaces
  <2>6. CASE StopFails(r)
    BY <2>0, <2>6 DEF StopFails, RequestPlaces
  <2>3. CASE SetStopEvent(r)
    BY <2>0, <2>3 DEF SetStopEvent, RequestPlaces
  <2>4. CASE JoinConsumer(r)
    BY <2>0, <2>4 DEF JoinConsumer, RequestPlaces
  <2>5. CASE WriteRow(r)
    BY <2>0, <2>5 DEF WriteRow, RequestPlaces
  <2> QED
    BY <1>3, <2>1, <2>2, <2>3, <2>4, <2>5, <2>6 DEF Serve
<1>4. CASE Sniff
  BY <1>4 DEF Sniff, SnifferOpens, SnifferDies, SnifferAlive, Enqueue, QueueFull, CountDrop
<1>5. CASE Consume
  BY <1>5 DEF Consume, BeginDrain, TakeRecord, DeadlinePasses, FinalFlushEnds,
              CheckStop, SwapDropped, SkipBatch, ReadSession, CommitBatch, FailBatch,
              CountFailedBatch
<1>6. CASE UNCHANGED vars
  BY <1>6
<1> QED
  BY <1>1, <1>2, <1>3, <1>4, <1>5, <1>6 DEF Next

LEMMA ControlInitially == Init => ControlInv
  BY DEF Init, ControlInv, StarterControls, ManagerControls, RequestControls,
         ThreadsFollow, NobodyStopping, Stopping, StoppingPlaces, Spawned, Ended

THEOREM ControlHolds == Spec => []ControlInv
  BY TypeInductive, ControlInitially, ControlInductive, PTL DEF Spec

\* The manager never lists a worker that is being stopped, or has been.
THEOREM RegisteredWorkersAreUnstopped == Spec => []RegisteredIsUnstopped
<1>1. ControlInv => RegisteredIsUnstopped
  BY DEF ControlInv, StarterControls, ManagerControls, ThreadsFollow, Spawned, Ended,
         RegisteredIsUnstopped
<1> QED
  BY <1>1, ControlHolds, PTL

\* Any number of stop and delete requests race for the worker; one stops it.
THEOREM WorkerStoppedOnce == Spec => []OneStopper
<1>1. ControlInv => OneStopper
  BY DEF ControlInv, RequestControls, Stopping, OneStopper
<1> QED
  BY <1>1, ControlHolds, PTL

\* Nothing is enqueued once the final flush has begun.
THEOREM FlushFindsAll == Spec => []FlushIsFinal
<1>1. TypeOK /\ ControlInv => FlushIsFinal
  BY DEF TypeOK, ControlInv, ThreadsFollow, SnifferAlive, FlushIsFinal
<1> QED
  BY <1>1, ControlHolds, TypeCorrect, PTL

\* The consumer thread is alive as long as the sniffer is.
THEOREM ConsumerSurvives == Spec => []ConsumerOutlivesSniffer
<1>1. ControlInv => ConsumerOutlivesSniffer
  BY DEF ControlInv, StarterControls, ThreadsFollow, SnifferAlive, Ended,
         ConsumerOutlivesSniffer
<1> QED
  BY <1>1, ControlHolds, PTL

\* Sniffer and consumer live, flush and end in order, by one of any requests.
THEOREM ThreadsEndInOrder == Spec => []ThreadsAreOrderly
<1> QED
  BY RegisteredWorkersAreUnstopped, WorkerStoppedOnce, FlushFindsAll, ConsumerSurvives, PTL
     DEF ThreadsAreOrderly

-----------------------------------------------------------------------------
(***************************************************************************)
(* What the consumer leaves behind.  A record is only refused while others *)
(* are queued, and whoever takes those goes on to take the counter.  So at *)
(* most one drop is without a batch that will book it.                     *)
(***************************************************************************)
DropsHaveABatch ==
    \/ dropped + hand <= 1
    \/ queued > 0
    \/ batch > 0 /\ consumer \in {"timed", "final", "swap"}

DrainInv ==
    /\ consumer \in {"check"} \cup Ended => batch = 0
    /\ consumer = "flushed" => queued = 0
    /\ sniffer = "off" => captured = 0
    /\ failures = 0 /\ row.status = "running" => DropsHaveABatch /\ consumer # "rollback"

LEMMA DrainInductive ==
    TypeOK /\ ControlInv /\ DrainInv /\ [Next]_vars => DrainInv'
<1> SUFFICES ASSUME TypeOK, ControlInv, DrainInv, [Next]_vars PROVE DrainInv'
  OBVIOUS
<1> USE DEF DrainInv, DropsHaveABatch, Ended, vars, workerVars, consumerVars, routeVars
<1>0. /\ hand \in {0, 1} /\ queued \in 0 .. QueueMax /\ dropped \in Nat /\ batch \in 0 .. BatchMax
      /\ QueueMax \in Nat \ {0} /\ BatchMax \in Nat \ {0} /\ failures \in Nat
      /\ captured \in Nat
  BY CapacityAssumption DEF CapacityAssumption, TypeOK
<1>1. ASSUME UNCHANGED <<hand, queued, dropped, consumer, batch, captured, failures>>,
             row'.status = "running" => row.status = "running",
             sniffer' = "off" => sniffer = "off"
      PROVE  DrainInv'
  BY <1>1
<1>2. CASE Start
  <2>1. CASE WriteStartError
    <3>1. row'.status = "running" => row.status = "running"
      BY <2>1 DEF WriteStartError, EndRow, TypeOK, Row
    <3> QED
      BY <1>1, <2>1, <3>1 DEF WriteStartError
  <2>2. CASE StartConsumer
    BY <1>0, <2>2 DEF StartConsumer, ControlInv, ThreadsFollow
  <2> QED
    BY <1>1, <1>2, <2>1, <2>2 DEF Start, SnifferStarts, SnifferFails, JoinFailedStart,
                                  Register
<1>3. ASSUME NEW r \in Requests, NEW kind \in {"stop", "delete"}, Arrive(r, kind)
      PROVE  DrainInv'
  BY <1>1, <1>3 DEF Arrive
<1>4. ASSUME NEW r \in Requests, Serve(r)
      PROVE  DrainInv'
  <2>1. CASE WriteRow(r)
    <3>1. row'.status = "running" => row.status = "running"
      BY <2>1 DEF WriteRow, EndRow, TypeOK, Row
    <3> QED
      BY <1>1, <2>1, <3>1 DEF WriteRow
  <2> QED
    BY <1>1, <1>4, <2>1 DEF Serve, PopWorker, StopSniffer, StopFails, SetStopEvent,
                            JoinConsumer
<1>5. CASE Sniff
  <2>1. CASE SnifferOpens \/ SnifferDies
    BY <1>1, <2>1 DEF SnifferOpens, SnifferDies
  <2>2. CASE Enqueue
    BY <1>0, <2>2 DEF Enqueue, ControlInv, ThreadsFollow
  <2>3. CASE QueueFull
    BY <1>0, <2>3 DEF QueueFull
  <2>4. CASE CountDrop
    BY <1>0, <2>4 DEF CountDrop
  <2> QED
    BY <1>5, <2>1, <2>2, <2>3, <2>4 DEF Sniff
<1>6. CASE Consume
  <2>1. CASE BeginDrain \/ CheckStop \/ ReadSession
    BY <1>0, <2>1 DEF BeginDrain, CheckStop, ReadSession
  <2>2. CASE TakeRecord
    BY <1>0, <2>2 DEF TakeRecord
  <2>3. CASE DeadlinePasses \/ FinalFlushEnds
    BY <1>0, <2>3 DEF DeadlinePasses, FinalFlushEnds
  <2>4. CASE SwapDropped
    BY <1>0, <2>4 DEF SwapDropped
  <2>5. CASE SkipBatch
    BY <1>0, <2>5 DEF SkipBatch
  <2>6. CASE CommitBatch
    <3>1. row'.status = row.status
      BY <2>6 DEF CommitBatch, TypeOK, Row
    <3> QED
      BY <1>0, <2>6, <3>1 DEF CommitBatch
  <2>7. CASE FailBatch
    BY <1>0, <2>7 DEF FailBatch
  <2>8. CASE CountFailedBatch
    BY <1>0, <2>8 DEF CountFailedBatch
  <2> QED
    BY <1>6, <2>1, <2>2, <2>3, <2>4, <2>5, <2>6, <2>7, <2>8 DEF Consume
<1>7. CASE UNCHANGED vars
  BY <1>7
<1> QED
  BY <1>2, <1>3, <1>4, <1>5, <1>6, <1>7 DEF Next

-----------------------------------------------------------------------------
(***************************************************************************)
(* A stop on its own.  From the request that stops the sniffer on, the row *)
(* must still be running when the consumer reads it: only that request     *)
(* could end it, and it waits for the consumer.                            *)
(***************************************************************************)
Stopped(r) == request[r].at \in {"event", "join", "write", "done"}

NothingForgotten == Accounted = captured /\ DropsHaveABatch

SoleInv ==
    /\ row.status # "running" =>
          \/ \E r \in Requests : request[r].at = "done"
          \/ starter = "done" /\ sniffer = "off"
    /\ sniffer = "stopped" => \E r \in Requests : Stopped(r)
    /\ sniffer = "stopped" /\ Sole =>
          /\ \A r \in Requests : request[r].at \in {"write", "done"} => consumer \in Ended
          /\ failures = 0 => NothingForgotten

LEMMA SoleInductive ==
    TypeOK /\ LedgerInv /\ ControlInv /\ DrainInv /\ DrainInv' /\ SoleInv /\ [Next]_vars
        => SoleInv'
<1> SUFFICES ASSUME TypeOK, LedgerInv, ControlInv, DrainInv, DrainInv', SoleInv,
                    [Next]_vars
             PROVE  SoleInv'
  OBVIOUS
<1> USE DEF vars, workerVars, consumerVars, routeVars
<1>0. /\ hand \in Nat /\ queued \in Nat /\ dropped \in Nat /\ batch \in Nat
      /\ taken \in Nat /\ captured \in Nat /\ failures \in Nat
      /\ row.packet_count \in Nat /\ row.dropped_count \in Nat
  BY CapacityAssumption DEF CapacityAssumption, TypeOK, Row
<1>1. \A r \in Requests : request[r] \in [at : RequestPlaces, kind : {"stop", "delete"}]
  BY DEF TypeOK
<1>2. CASE Start
  <2>1. UNCHANGED request /\ (Sole' <=> Sole) /\ \A r \in Requests : Stopped(r)' <=> Stopped(r)
    BY <1>2 DEF Start, StartConsumer, SnifferStarts, SnifferFails, JoinFailedStart,
                WriteStartError, Register, Sole, Stopped
  <2>2. /\ starter # "done" /\ sniffer # "stopped"
        /\ starter # "register" => sniffer = "off"
    BY <1>2 DEF Start, StartConsumer, SnifferStarts, SnifferFails, JoinFailedStart,
                WriteStartError, Register, ControlInv, StarterControls, Spawned
  <2>3. sniffer' # "stopped"
    BY <1>2, <2>2 DEF Start, StartConsumer, SnifferStarts, SnifferFails, JoinFailedStart,
                      WriteStartError, Register
  <2>5. row'.status # "running" =>
          \/ \E r \in Requests : request'[r].at = "done"
          \/ starter' = "done" /\ sniffer' = "off"
    <3>1. CASE WriteStartError
      BY <2>2, <3>1 DEF WriteStartError
    <3>2. CASE ~WriteStartError
      BY <1>2, <2>1, <2>2, <3>2 DEF SoleInv, Start, StartConsumer, SnifferStarts, SnifferFails,
                JoinFailedStart, Register
    <3> QED
      BY <3>1, <3>2
  <2> QED
    BY <2>3, <2>5 DEF SoleInv
<1>3. ASSUME NEW r \in Requests, NEW kind \in {"stop", "delete"}, Arrive(r, kind)
      PROVE  SoleInv'
  <2>1. /\ request[r].at = "idle" /\ request'[r].at = "pop"
        /\ \A s \in Requests : s # r => request'[s] = request[s]
    BY <1>1, <1>3 DEF Arrive, TypeOK
  <2>2. UNCHANGED <<sniffer, starter, row, consumer, failures, hand, queued, batch, dropped,
                    taken, captured>>
    BY <1>3 DEF Arrive
  <2>3. \A s \in Requests : Stopped(s)' <=> Stopped(s)
    BY <2>1 DEF Stopped
  <2>4. \A s \in Requests : request'[s].at = "done" <=> request[s].at = "done"
    BY <2>1
  <2>5. Sole' => ~ \E s \in Requests : Stopped(s)'
    BY <2>1 DEF Sole, Stopped
  <2> QED
    BY <2>2, <2>3, <2>4, <2>5 DEF SoleInv
<1>4. ASSUME NEW r \in Requests, Serve(r)
      PROVE  SoleInv'
  <2>0. ASSUME NEW place \in RequestPlaces, Goto(r, place)
        PROVE  /\ request'[r].at = place
               /\ \A s \in Requests : s # r => request'[s] = request[s]
    BY <2>0 DEF Goto, TypeOK
  <2>1. PICK place \in RequestPlaces \ {"idle"} : Goto(r, place) /\ request[r].at # "idle"
    BY <1>4 DEF Serve, PopWorker, StopSniffer, StopFails, SetStopEvent, JoinConsumer, WriteRow,
                RequestPlaces, StoppingPlaces
  <2>2. /\ request'[r].at # "idle"
        /\ \A s \in Requests : s # r => request'[s] = request[s]
    BY <2>0, <2>1
  <2>3. Sole' <=> Sole
    <3>1. \A s \in Requests : request'[s].at = "idle" <=> request[s].at = "idle"
      BY <2>1, <2>2
    <3>2. Impatient \subseteq Requests
      BY CapacityAssumption DEF CapacityAssumption
    <3> QED
      BY <3>1, <3>2 DEF Sole
  <2>4. Sole => r \notin Impatient /\ \A s \in Requests : s # r => request[s].at = "idle"
    BY <2>1 DEF Sole
  <2>5. CASE PopWorker(r)
    <3>1. /\ request[r].at = "pop" /\ request'[r].at \in {"sniffer", "write"}
          /\ UNCHANGED <<sniffer, starter, row, consumer, failures, hand, queued, batch,
                         dropped, taken, captured>>
      BY <2>0, <2>5 DEF PopWorker, RequestPlaces, StoppingPlaces
    <3>2. \A s \in Requests : Stopped(s) => Stopped(s)' /\ s # r
      BY <2>2, <3>1 DEF Stopped
    <3>3. \A s \in Requests : request[s].at = "done" => request'[s].at = "done"
      BY <2>2, <3>1
    <3>4. sniffer' = "stopped" => ~Sole'
      BY <2>3, <2>4, <3>1, <3>2 DEF SoleInv, Stopped
    <3> QED
      BY <3>1, <3>2, <3>3, <3>4 DEF SoleInv
  <2>6. CASE StopSniffer(r)
    <3>1. /\ request[r].at = "sniffer" /\ request'[r].at = "event"
          /\ UNCHANGED <<starter, row, consumer, failures, hand, queued, batch,
                         dropped, taken, captured>>
          /\ sniffer' = "stopped"
      BY <2>0, <2>6 DEF StopSniffer, RequestPlaces, StoppingPlaces
    <3>2. sniffer = "running" /\ starter = "done"
      BY <2>6, <3>1 DEF StopSniffer, ControlInv, StarterControls, NobodyStopping, Stopping,
                        StoppingPlaces
    <3>3. \A s \in Requests : request[s].at = "done" => request'[s].at = "done"
      BY <2>2, <3>1
    <3>4. Stopped(r)'
      BY <3>1 DEF Stopped
    <3>5. Sole => row.status = "running"
      BY <2>4, <3>1, <3>2 DEF SoleInv
    <3>6. Sole /\ failures = 0 => NothingForgotten
      BY <3>5 DEF LedgerInv, NothingLostWhileHealthy, DrainInv, NothingForgotten
    <3>7. NothingForgotten' <=> NothingForgotten
      BY <3>1 DEF NothingForgotten, Accounted, DropsHaveABatch
    <3>8. Sole => \A s \in Requests : request'[s].at \notin {"write", "done"}
      BY <2>2, <2>4, <3>1
    <3> QED
      BY <2>3, <3>1, <3>2, <3>3, <3>4, <3>6, <3>7, <3>8 DEF SoleInv
  <2>7. CASE SetStopEvent(r)
    <3>1. /\ request[r].at = "event" /\ request'[r].at = "join"
          /\ UNCHANGED <<sniffer, starter, row, consumer, failures, hand, queued, batch,
                         dropped, taken, captured>>
      BY <2>0, <2>7 DEF SetStopEvent, RequestPlaces, StoppingPlaces
    <3>2. \A s \in Requests : Stopped(s)' <=> Stopped(s)
      BY <2>2, <3>1 DEF Stopped
    <3>3. \A s \in Requests : request'[s].at \in {"write", "done"} => request'[s] = request[s]
      BY <2>2, <3>1
    <3>4. \A s \in Requests : request[s].at = "done" => request'[s].at = "done"
      BY <2>2, <3>1
    <3>5. NothingForgotten' <=> NothingForgotten
      BY <3>1 DEF NothingForgotten, Accounted, DropsHaveABatch
    <3> QED
      BY <2>3, <3>1, <3>2, <3>3, <3>4, <3>5 DEF SoleInv
  <2>8. CASE JoinConsumer(r)
    <3>1. /\ request[r].at = "join" /\ request'[r].at = "write" /\ Joined(r)
          /\ UNCHANGED <<sniffer, starter, row, consumer, failures, hand, queued, batch,
                         dropped, taken, captured>>
      BY <2>0, <2>8 DEF JoinConsumer, RequestPlaces, StoppingPlaces
    <3>2. \A s \in Requests : Stopped(s)' <=> Stopped(s)
      BY <2>2, <3>1 DEF Stopped
    <3>3. Sole => consumer' \in Ended
      BY <2>4, <3>1 DEF Joined
    <3>4. \A s \in Requests : request[s].at = "done" => request'[s].at = "done"
      BY <2>2, <3>1
    <3>5. NothingForgotten' <=> NothingForgotten
      BY <3>1 DEF NothingForgotten, Accounted, DropsHaveABatch
    <3> QED
      BY <2>3, <3>1, <3>2, <3>3, <3>4, <3>5 DEF SoleInv
  <2>9. CASE WriteRow(r)
    <3>1. /\ request[r].at = "write" /\ request'[r].at = "done"
          /\ UNCHANGED <<sniffer, starter, consumer, failures, hand, queued, batch,
                         dropped, taken, captured>>
      BY <2>0, <2>9 DEF WriteRow, RequestPlaces, StoppingPlaces
    <3>2. row'.packet_count = row.packet_count /\ row'.dropped_count = row.dropped_count
      BY <2>9 DEF WriteRow, EndRow, TypeOK, Row
    <3>3. \A s \in Requests : Stopped(s)' <=> Stopped(s)
      BY <2>2, <3>1 DEF Stopped
    <3>4. \A s \in Requests : request'[s].at \in {"write", "done"} =>
             request[s].at \in {"write", "done"}
      BY <2>2, <3>1
    <3>5. NothingForgotten' <=> NothingForgotten
      BY <3>1, <3>2 DEF NothingForgotten, Accounted, DropsHaveABatch
    <3> QED
      BY <2>3, <3>1, <3>3, <3>4, <3>5 DEF SoleInv
  <2>10. CASE StopFails(r)
    <3>1. /\ request[r].at = "sniffer" /\ request'[r].at = "done" /\ sniffer # "stopped"
          /\ UNCHANGED <<sniffer, starter, row>>
      BY <2>0, <2>10 DEF StopFails, RequestPlaces, StoppingPlaces, workerVars
    <3>2. \A s \in Requests : request[s].at = "done" => request'[s].at = "done"
      BY <2>2, <3>1
    <3> QED
      BY <3>1, <3>2 DEF SoleInv
  <2> QED
    BY <1>4, <2>5, <2>6, <2>7, <2>8, <2>9, <2>10 DEF Serve
<1>5. ASSUME UNCHANGED <<starter, request>>, row'.status = row.status,
             sniffer' = "stopped" <=> sniffer = "stopped", sniffer = "off" => sniffer' = "off",
             consumer \in Ended => consumer' \in Ended,
             sniffer = "stopped" /\ Sole /\ failures' = 0 =>
                failures = 0 /\ (NothingForgotten => NothingForgotten')
      PROVE  SoleInv'
  <2>1. (Sole' <=> Sole) /\ \A r \in Requests : Stopped(r)' <=> Stopped(r)
    BY <1>5 DEF Sole, Stopped
  <2> QED
    BY <1>5, <2>1 DEF SoleInv
<1>55. ASSUME row.status = "running", row'.status = "running", failures' = 0,
              Accounted' = Accounted, captured' = captured
       PROVE  NothingForgotten => NothingForgotten'
  BY <1>55 DEF NothingForgotten, DrainInv
<1>6. CASE Sniff
  <2>1. CASE Enqueue
    BY <1>0, <2>1, <1>5 DEF Enqueue
  <2>2. CASE QueueFull
    BY <1>0, <2>2, <1>5 DEF QueueFull
  <2>3. CASE CountDrop
    BY <2>3, <1>5 DEF CountDrop, ControlInv, ThreadsFollow
  <2>4. CASE SnifferOpens \/ SnifferDies
    BY <2>4, <1>5 DEF SnifferOpens, SnifferDies, SnifferAlive
  <2> QED
    BY <1>6, <2>1, <2>2, <2>3, <2>4 DEF Sniff
<1>7. CASE Consume
  <2>0. sniffer = "stopped" /\ Sole /\ consumer \notin Ended => row.status = "running"
    BY DEF SoleInv
  <2>1. consumer \notin Ended
    BY <1>7 DEF Consume, BeginDrain, TakeRecord, DeadlinePasses, FinalFlushEnds, CheckStop,
                SwapDropped, SkipBatch, ReadSession, CommitBatch, FailBatch, CountFailedBatch,
                Ended
  <2>2. ASSUME UNCHANGED <<starter, request, sniffer, captured>>, row'.status = row.status,
               sniffer = "stopped" /\ Sole /\ failures' = 0 =>
                  failures = 0 /\ Accounted' = Accounted
        PROVE  SoleInv'
    BY <1>5, <1>55, <2>0, <2>1, <2>2
  <2>3. CASE BeginDrain \/ DeadlinePasses \/ FinalFlushEnds \/ CheckStop \/ ReadSession
    <3>1. Accounted' = Accounted
      BY <2>3 DEF BeginDrain, DeadlinePasses, FinalFlushEnds, CheckStop, ReadSession, Accounted
    <3> QED
      BY <2>3, <3>1, <2>2 DEF BeginDrain, DeadlinePasses, FinalFlushEnds, CheckStop,
                              ReadSession
  <2>4. CASE TakeRecord
    <3>1. Accounted' = Accounted
      BY <1>0, <2>4 DEF TakeRecord, Accounted
    <3> QED
      BY <2>4, <3>1, <2>2 DEF TakeRecord
  <2>5. CASE SwapDropped
    <3>1. Accounted' = Accounted
      BY <1>0, <2>5 DEF SwapDropped, Accounted, LedgerInv
    <3> QED
      BY <2>5, <3>1, <2>2 DEF SwapDropped
  <2>6. CASE SkipBatch
    BY <2>0, <2>1, <2>6, <2>2 DEF SkipBatch
  <2>7. CASE CommitBatch
    <3>1. /\ row'.packet_count = row.packet_count + batch
          /\ row'.dropped_count = row.dropped_count + taken
          /\ row'.status = row.status
      BY <2>7 DEF CommitBatch, TypeOK, Row
    <3>2. Accounted' = Accounted
      BY <1>0, <2>7, <3>1 DEF CommitBatch, Accounted
    <3> QED
      BY <2>7, <3>1, <3>2, <2>2 DEF CommitBatch
  <2>8. CASE FailBatch
    <3>1. sniffer = "stopped" /\ Sole => failures' # 0
      BY <1>0, <2>0, <2>1, <2>8 DEF FailBatch
    <3> QED
      BY <2>8, <3>1, <2>2 DEF FailBatch
  <2>9. CASE CountFailedBatch
    <3>1. Accounted' = Accounted
      BY <1>0, <2>9 DEF CountFailedBatch, Accounted
    <3> QED
      BY <2>9, <3>1, <2>2 DEF CountFailedBatch
  <2> QED
    BY <1>7, <2>3, <2>4, <2>5, <2>6, <2>7, <2>8, <2>9 DEF Consume
<1>8. CASE UNCHANGED vars
  BY <1>8, <1>5 DEF NothingForgotten, Accounted, DropsHaveABatch
<1> QED
  BY <1>2, <1>3, <1>4, <1>6, <1>7, <1>8 DEF Next

\* One stop or delete request, that waits for the consumer: whatever the consumer
\* took is in the row, and if its final flush found the queue empty, so is all
\* but one drop of what the sniffer had seen.
THEOREM SoleStopBooks == Spec => []SoleStopBooksWhatItTook
<1>1. Init => LedgerInv /\ DrainInv /\ SoleInv
  BY DEF Init, LedgerInv, NothingLostWhileHealthy, Accounted, DrainInv, DropsHaveABatch,
         Ended, SoleInv
<1>2. TypeOK /\ LedgerInv /\ ControlInv /\ DrainInv /\ SoleInv => SoleStopBooksWhatItTook
  <2> SUFFICES ASSUME TypeOK, LedgerInv, ControlInv, DrainInv, SoleInv,
                      Sole, consumer \in Ended, failures = 0
               PROVE  /\ row.packet_count + row.dropped_count + queued + dropped = captured
                      /\ consumer = "flushed" => queued = 0 /\ dropped <= 1
    BY DEF SoleStopBooksWhatItTook
  <2>1. /\ queued \in Nat /\ dropped \in Nat /\ captured \in Nat
        /\ row.packet_count \in Nat /\ row.dropped_count \in Nat
    BY CapacityAssumption DEF CapacityAssumption, TypeOK, Row
  <2>2. hand = 0 /\ batch = 0 /\ taken = 0 /\ sniffer \in {"off", "stopped"}
    BY DEF TypeOK, ControlInv, ThreadsFollow, DrainInv, LedgerInv, Ended
  <2>3. Accounted = row.packet_count + row.dropped_count + queued + dropped
    BY <2>1, <2>2 DEF Accounted
  <2>4. CASE sniffer = "off"
    <3>1. captured = 0 /\ Accounted <= captured
      BY <2>4 DEF DrainInv, LedgerInv, NothingLostWhileHealthy
    <3> HIDE DEF Accounted
    <3> QED
      BY <2>1, <2>3, <3>1
  <2>5. CASE sniffer = "stopped"
    BY <2>1, <2>2, <2>3, <2>5 DEF SoleInv, NothingForgotten, DropsHaveABatch, DrainInv
  <2> QED
    BY <2>2, <2>4, <2>5
<1> QED
  BY <1>1, <1>2, TypeInductive, LedgerInductive, ControlInitially, ControlInductive,
     DrainInductive, SoleInductive, PTL DEF Spec

-----------------------------------------------------------------------------
(***************************************************************************)
(* The worker implements the ledger: each step sees one record, books one  *)
(* batch with the drops taken, forgets what a failed or skipped batch held *)
(* once the ledger is tainted, or leaves the ledger alone.                 *)
(***************************************************************************)
Pending == hand + queued + batch + dropped + taken

Tainted == row.status # "running" \/ failures > 0

LEMMA LedgerStep ==
    TypeOK /\ LedgerInv /\ [Next]_vars => [Ledger!LedgerNext]_Ledger!ledgerVars
<1> SUFFICES ASSUME TypeOK, LedgerInv, [Next]_vars
             PROVE  [Ledger!LedgerNext]_Ledger!ledgerVars
  OBVIOUS
<1> USE DEF vars, workerVars, consumerVars, routeVars, LedgerInv
<1>0. /\ hand \in Nat /\ queued \in Nat /\ dropped \in Nat /\ batch \in Nat
      /\ taken \in Nat /\ captured \in Nat /\ failures \in Nat
      /\ row.packet_count \in Nat /\ row.dropped_count \in Nat
      /\ Pending \in Nat
  BY CapacityAssumption DEF CapacityAssumption, TypeOK, Row, Pending
<1>stutter. ASSUME Pending' = Pending, captured' = captured,
                   row'.packet_count = row.packet_count,
                   row'.dropped_count = row.dropped_count, Tainted' = Tainted
            PROVE  [Ledger!LedgerNext]_Ledger!ledgerVars
  BY <1>stutter DEF Ledger!ledgerVars, Pending, Tainted
<1>see. ASSUME Pending' = Pending + 1, captured' = captured + 1, UNCHANGED <<row, failures>>
        PROVE  [Ledger!LedgerNext]_Ledger!ledgerVars
  BY <1>see DEF Ledger!LedgerNext, Ledger!See, Pending
<1>book. ASSUME NEW n \in Nat, NEW d \in Nat, n + d <= Pending,
                Pending' = Pending - (n + d), UNCHANGED captured, Tainted' = Tainted,
                row'.packet_count = row.packet_count + n,
                row'.dropped_count = row.dropped_count + d
         PROVE  [Ledger!LedgerNext]_Ledger!ledgerVars
  <2>1. n \in 0 .. Pending /\ d \in 0 .. Pending
    BY <1>0, <1>book
  <2>2. Ledger!Book(n, d)
    BY <1>book DEF Ledger!Book, Pending, Tainted
  <2> QED
    BY <2>1, <2>2 DEF Ledger!LedgerNext, Pending
<1>forget. ASSUME NEW n \in Nat, n <= Pending, Pending' = Pending - n,
                  UNCHANGED captured, Tainted',
                  row'.packet_count = row.packet_count,
                  row'.dropped_count = row.dropped_count
           PROVE  [Ledger!LedgerNext]_Ledger!ledgerVars
  <2>1. n \in 0 .. Pending
    BY <1>0, <1>forget
  <2>2. Ledger!Forget(n)
    BY <1>forget DEF Ledger!Forget, Pending, Tainted
  <2> QED
    BY <2>1, <2>2 DEF Ledger!LedgerNext, Pending
<1>row. ASSUME UNCHANGED <<hand, queued, dropped, batch, taken, captured, failures>>,
               row' = row \/ row' = [row EXCEPT !.status = "ended"]
                         \/ row' = [row EXCEPT !.status = "deleted"]
        PROVE  [Ledger!LedgerNext]_Ledger!ledgerVars
  <2>1. /\ row'.packet_count = row.packet_count
        /\ row'.dropped_count = row.dropped_count
    BY <1>row DEF TypeOK, Row
  <2>2. Pending' = Pending
    BY <1>row DEF Pending
  <2>3. CASE row' = row
    BY <1>row, <1>stutter, <2>1, <2>2, <2>3 DEF Tainted
  <2>4. CASE row' # row
    <3>1. Tainted'
      BY <1>row, <2>4 DEF TypeOK, Row, Tainted
    <3> QED
      BY <1>0, <1>row, <1>forget, <2>1, <2>2, <3>1
  <2> QED
    BY <2>3, <2>4
<1>1. CASE Start
  BY <1>1, <1>row DEF Start, StartConsumer, SnifferStarts, SnifferFails, JoinFailedStart,
                      WriteStartError, Register, EndRow
<1>2. ASSUME NEW r \in Requests, NEW kind \in {"stop", "delete"}, Arrive(r, kind)
      PROVE  [Ledger!LedgerNext]_Ledger!ledgerVars
  BY <1>2, <1>row DEF Arrive
<1>3. ASSUME NEW r \in Requests, Serve(r)
      PROVE  [Ledger!LedgerNext]_Ledger!ledgerVars
  BY <1>3, <1>row DEF Serve, PopWorker, StopSniffer, StopFails, SetStopEvent, JoinConsumer, WriteRow,
                      EndRow
<1>4. CASE Enqueue \/ QueueFull
  BY <1>0, <1>4, <1>see DEF Enqueue, QueueFull, Pending
<1>5. CASE CountDrop
  BY <1>0, <1>5, <1>stutter DEF CountDrop, Pending, Tainted
<1>55. CASE SnifferOpens \/ SnifferDies
  BY <1>55, <1>row DEF SnifferOpens, SnifferDies
<1>6. CASE Consume
  <2>1. CASE BeginDrain \/ DeadlinePasses \/ FinalFlushEnds \/ CheckStop \/ ReadSession
    BY <2>1, <1>row DEF BeginDrain, DeadlinePasses, FinalFlushEnds, CheckStop,
                        ReadSession
  <2>2. CASE TakeRecord
    BY <1>0, <1>stutter, <2>2 DEF TakeRecord, Pending, Tainted
  <2>3. CASE SwapDropped
    BY <1>0, <1>stutter, <2>3 DEF SwapDropped, Pending, Tainted
  <2>4. CASE SkipBatch
    <3>1. /\ batch + taken \in Nat
          /\ batch + taken <= Pending
          /\ Pending' = Pending - (batch + taken)
          /\ Tainted'
          /\ UNCHANGED <<row, captured>>
      BY <1>0, <2>4 DEF SkipBatch, Pending, Tainted
    <3> QED
      BY <1>forget, <3>1
  <2>5. CASE CommitBatch
    <3>1. /\ row'.packet_count = row.packet_count + batch
          /\ row'.dropped_count = row.dropped_count + taken
          /\ row'.status = row.status
      BY <2>5 DEF CommitBatch, TypeOK, Row
    <3>2. /\ batch + taken <= Pending
          /\ Pending' = Pending - (batch + taken)
          /\ Tainted' = Tainted
          /\ UNCHANGED captured
      BY <1>0, <2>5, <3>1 DEF CommitBatch, Pending, Tainted
    <3> QED
      BY <1>0, <1>book, <3>1, <3>2
  <2>6. CASE FailBatch
    <3>1. /\ taken <= Pending
          /\ Pending' = Pending - taken
          /\ Tainted'
          /\ UNCHANGED <<row, captured>>
      BY <1>0, <2>6 DEF FailBatch, Pending, Tainted
    <3> QED
      BY <1>0, <1>forget, <3>1
  <2>7. CASE CountFailedBatch
    BY <1>0, <1>stutter, <2>7 DEF CountFailedBatch, Pending, Tainted
  <2> QED
    BY <1>6, <2>1, <2>2, <2>3, <2>4, <2>5, <2>6, <2>7 DEF Consume
<1>7. CASE UNCHANGED vars
  BY <1>7, <1>row
<1> QED
  BY <1>1, <1>2, <1>3, <1>4, <1>5, <1>55, <1>6, <1>7 DEF Next, Sniff

\* The ledger's promise holds of the worker, for every size and interleaving.
THEOREM WorkerKeepsLedger == Spec => KeepsLedger
<1>1. Init => Ledger!LedgerInit /\ LedgerInv
  BY DEF Init, Ledger!LedgerInit, LedgerInv, NothingLostWhileHealthy, Accounted
<1> QED
  BY <1>1, TypeInductive, LedgerInductive, LedgerStep, PTL
     DEF Spec, KeepsLedger, Ledger!LedgerSpec
=============================================================================
