---------------------------- MODULE CaptureWorker ----------------------------
(***************************************************************************)
(* One live capture: the threads of _CaptureWorker (capture/live_capture.  *)
(* py), its entry in LiveCaptureManager, its capture_sessions row, and the *)
(* HTTP requests that start, stop and delete it (api/routes_capture.py).   *)
(*                                                                         *)
(*   sniffer thread --queue--> consumer thread --1 transaction--> row      *)
(*                                                                         *)
(* Records are counted, not told apart.  Each step is what one thread does *)
(* between two points where another can run: a lock, a queue operation, a  *)
(* thread call or a commit.                                                *)
(***************************************************************************)
EXTENDS Naturals

CONSTANTS
    QueueMax,      \* QUEUE_MAXSIZE
    BatchMax,      \* BATCH_MAX_RECORDS
    Requests,      \* the stop and delete requests that may arrive
    Impatient,     \* the requests whose join(timeout=5) may give up on the consumer
    MaxPackets,    \* bound: records dissected in one behaviour
    MaxFailures    \* bound: ingest transactions that fail on their own

ASSUME CapacityAssumption ==
    /\ QueueMax \in Nat \ {0}
    /\ BatchMax \in Nat \ {0}
    /\ MaxPackets \in Nat
    /\ MaxFailures \in Nat
    /\ Impatient \subseteq Requests

VARIABLES
    sniffer,     \* the thread of AsyncSniffer, see Sniffers
    hand,        \* records refused by the full queue, not yet counted (0 or 1)
    queued,      \* length of _queue
    dropped,     \* _dropped_since_last_batch
    stopEvent,   \* _stop_event
    consumer,    \* where _consume_loop is
    batch,       \* length of its local batch
    taken,       \* _ingest_batch's local dropped
    registered,  \* is the worker in LiveCaptureManager._workers?
    starter,     \* where the start request is
    request,     \* where each stop or delete request is, and which it is
    row,         \* the capture_sessions row
    captured,    \* history: records dissected
    failures     \* history: ingest transactions that failed on their own

workerVars == <<sniffer, hand, queued, dropped, stopEvent>>
consumerVars == <<consumer, batch, taken>>
routeVars == <<registered, starter, request>>
vars == <<workerVars, consumerVars, routeVars, row, captured, failures>>

(***************************************************************************)
(* A row is "running", "ended" (the code's "stopped" and "error", which no *)
(* step here tells apart) or "deleted".                                    *)
(***************************************************************************)
Row == [status : {"running", "ended", "deleted"},
        packet_count : Nat, dropped_count : Nat]

(***************************************************************************)
(* AsyncSniffer.start() only spawns a thread, "starting" until it has      *)
(* opened the interface.  A thread that ends of itself is "dead", one that *)
(* stop() has ended is "stopped".                                          *)
(***************************************************************************)
Sniffers == {"off", "starting", "running", "dead", "stopped"}

SnifferAlive == sniffer \in {"starting", "running"}

\* The consumer returns when its final flush finds nothing ("flushed"), or
\* when the event is set after a timed drain that found nothing ("quit").
Ended == {"flushed", "quit"}
ConsumerPlaces ==
    {"new", "loop", "timed", "final", "check", "swap", "read", "commit",
     "rollback"} \cup Ended
StarterPlaces == {"threads", "sniffing", "register", "failing", "error", "done"}
StoppingPlaces == {"sniffer", "event", "join"}
RequestPlaces == {"idle", "pop", "write", "done"} \cup StoppingPlaces

TypeOK ==
    /\ sniffer \in Sniffers
    /\ hand \in {0, 1}
    /\ queued \in 0 .. QueueMax
    /\ dropped \in Nat
    /\ stopEvent \in BOOLEAN
    /\ consumer \in ConsumerPlaces
    /\ batch \in 0 .. BatchMax
    /\ taken \in Nat
    /\ registered \in BOOLEAN
    /\ starter \in StarterPlaces
    /\ request \in [Requests -> [at : RequestPlaces, kind : {"stop", "delete"}]]
    /\ row \in Row
    /\ captured \in 0 .. MaxPackets
    /\ failures \in 0 .. MaxFailures

(***************************************************************************)
(* start_live_capture has committed the row as "running"; its worker is    *)
(* built, no thread runs yet, and any client can already see the row.      *)
(***************************************************************************)
Init ==
    /\ sniffer = "off"
    /\ hand = 0
    /\ queued = 0
    /\ dropped = 0
    /\ stopEvent = FALSE
    /\ consumer = "new"
    /\ batch = 0
    /\ taken = 0
    /\ registered = FALSE
    /\ starter = "threads"
    /\ request = [r \in Requests |-> [at |-> "idle", kind |-> "stop"]]
    /\ row = [status |-> "running", packet_count |-> 0, dropped_count |-> 0]
    /\ captured = 0
    /\ failures = 0

-----------------------------------------------------------------------------
\* The start request.

StartConsumer ==
    /\ starter = "threads"
    /\ starter' = "sniffing"
    /\ consumer' = "loop"
    /\ UNCHANGED <<workerVars, batch, taken, registered, request, row, captured,
                   failures>>

SnifferStarts ==
    /\ starter = "sniffing"
    /\ starter' = "register"
    /\ sniffer' = "starting"
    /\ UNCHANGED <<hand, queued, dropped, stopEvent, consumerVars, registered,
                   request, row, captured, failures>>

\* The thread cannot be spawned: the consumer is told to stop.  An interface
\* that is missing or forbidden is met by the thread itself (SnifferDies).
SnifferFails ==
    /\ starter = "sniffing"
    /\ starter' = "failing"
    /\ stopEvent' = TRUE
    /\ UNCHANGED <<sniffer, hand, queued, dropped, consumerVars, registered,
                   request, row, captured, failures>>

\* This join may time out as well.
JoinFailedStart ==
    /\ starter = "failing"
    /\ starter' = "error"
    /\ UNCHANGED <<workerVars, consumerVars, registered, request, row, captured,
                   failures>>

\* An UPDATE of a row that is gone matches nothing and the request fails.
EndRow == IF row.status = "running" THEN [row EXCEPT !.status = "ended"] ELSE row

WriteStartError ==
    /\ starter = "error"
    /\ starter' = "done"
    /\ row' = EndRow
    /\ UNCHANGED <<workerVars, consumerVars, registered, request, captured,
                   failures>>

Register ==
    /\ starter = "register"
    /\ starter' = "done"
    /\ registered' = TRUE
    /\ UNCHANGED <<workerVars, consumerVars, request, row, captured, failures>>

-----------------------------------------------------------------------------
\* stop_live_capture and delete_session.

Goto(r, place) == request' = [request EXCEPT ![r].at = place]

\* _get_own_session answers 404 once the row is gone.
Arrive(r, kind) ==
    /\ request[r].at = "idle"
    /\ row.status # "deleted"
    /\ request' = [request EXCEPT ![r] = [at |-> "pop", kind |-> kind]]
    /\ UNCHANGED <<workerVars, consumerVars, registered, starter, row, captured,
                   failures>>

PopWorker(r) ==
    /\ request[r].at = "pop"
    /\ Goto(r, IF registered THEN "sniffer" ELSE "write")
    /\ registered' = FALSE
    /\ UNCHANGED <<workerVars, consumerVars, starter, row, captured, failures>>

\* Mutant: stop(join=False).
StopSnifferNoJoin(r) ==
    /\ request[r].at = "sniffer"
    /\ sniffer = "running"
    /\ Goto(r, "event")
    /\ sniffer' = "stopped"
    /\ UNCHANGED <<hand, queued, dropped, stopEvent, consumerVars, registered,
                   starter, row, captured, failures>>

\* AsyncSniffer.stop() waits for the sniffer thread, which may be in _on_packet.
StopSniffer(r) ==
    /\ request[r].at = "sniffer"
    /\ sniffer = "running"
    /\ hand = 0
    /\ Goto(r, "event")
    /\ sniffer' = "stopped"
    /\ UNCHANGED <<hand, queued, dropped, stopEvent, consumerVars, registered,
                   starter, row, captured, failures>>

\* stop() of a sniffer that does not run yet, or no longer, raises: the event
\* is not set, and the request fails before it has written anything.
StopFails(r) ==
    /\ request[r].at = "sniffer"
    /\ sniffer \in {"starting", "dead"}
    /\ Goto(r, "done")
    /\ UNCHANGED <<workerVars, consumerVars, registered, starter, row, captured,
                   failures>>

SetStopEvent(r) ==
    /\ request[r].at = "event"
    /\ Goto(r, "join")
    /\ stopEvent' = TRUE
    /\ UNCHANGED <<sniffer, hand, queued, dropped, consumerVars, registered,
                   starter, row, captured, failures>>

Joined(r) == r \in Impatient \/ consumer \in Ended

JoinConsumer(r) ==
    /\ request[r].at = "join"
    /\ Joined(r)
    /\ Goto(r, "write")
    /\ UNCHANGED <<workerVars, consumerVars, registered, starter, row, captured,
                   failures>>

WriteRow(r) ==
    /\ request[r].at = "write"
    /\ Goto(r, "done")
    /\ row' = IF request[r].kind = "stop" THEN EndRow
              ELSE [row EXCEPT !.status = "deleted"]
    /\ UNCHANGED <<workerVars, consumerVars, registered, starter, captured,
                   failures>>

-----------------------------------------------------------------------------
\* The sniffer thread, and its callback _on_packet.

SnifferOpens ==
    /\ sniffer = "starting"
    /\ sniffer' = "running"
    /\ UNCHANGED <<hand, queued, dropped, stopEvent, consumerVars, routeVars, row,
                   captured, failures>>

\* No such interface, no privileges, a socket that fails, an exception of
\* process_packet: nobody is told.
SnifferDies ==
    /\ SnifferAlive
    /\ hand = 0
    /\ sniffer' = "dead"
    /\ UNCHANGED <<hand, queued, dropped, stopEvent, consumerVars, routeVars, row,
                   captured, failures>>

\* Mutant: the queue is made without a maxsize.
EnqueueUnbounded ==
    /\ sniffer = "running"
    /\ hand = 0
    /\ captured < MaxPackets
    /\ captured' = captured + 1
    /\ queued' = queued + 1
    /\ UNCHANGED <<sniffer, hand, dropped, stopEvent, consumerVars, routeVars,
                   row, failures>>

Enqueue ==
    /\ sniffer = "running"
    /\ hand = 0
    /\ captured < MaxPackets
    /\ queued < QueueMax
    /\ captured' = captured + 1
    /\ queued' = queued + 1
    /\ UNCHANGED <<sniffer, hand, dropped, stopEvent, consumerVars, routeVars,
                   row, failures>>

QueueFull ==
    /\ sniffer = "running"
    /\ hand = 0
    /\ captured < MaxPackets
    /\ queued = QueueMax
    /\ captured' = captured + 1
    /\ hand' = 1
    /\ UNCHANGED <<sniffer, queued, dropped, stopEvent, consumerVars, routeVars,
                   row, failures>>

CountDrop ==
    /\ hand = 1
    /\ hand' = 0
    /\ dropped' = dropped + 1
    /\ UNCHANGED <<sniffer, queued, stopEvent, consumerVars, routeVars, row,
                   captured, failures>>

-----------------------------------------------------------------------------
\* The consumer thread: _consume_loop, _drain_batch, _ingest_batch.

BeginDrain ==
    /\ consumer = "loop"
    /\ consumer' = IF stopEvent THEN "final" ELSE "timed"
    /\ UNCHANGED <<workerVars, batch, taken, routeVars, row, captured, failures>>

TakeRecord ==
    /\ consumer \in {"timed", "final"}
    /\ queued > 0
    /\ batch < BatchMax
    /\ queued' = queued - 1
    /\ batch' = batch + 1
    /\ UNCHANGED <<sniffer, hand, dropped, stopEvent, consumer, taken, routeVars,
                   row, captured, failures>>

\* The deadline may pass before the first get(), whatever is queued.
DeadlinePasses ==
    /\ consumer = "timed"
    /\ consumer' = IF batch > 0 THEN "swap" ELSE "check"
    /\ UNCHANGED <<workerVars, batch, taken, routeVars, row, captured, failures>>

\* Mutant: only a timed drain is followed by a look at the event.
FinalFlushGoesOn ==
    /\ consumer = "final"
    /\ batch = BatchMax \/ queued = 0
    /\ consumer' = IF batch > 0 THEN "swap" ELSE "loop"
    /\ UNCHANGED <<workerVars, batch, taken, routeVars, row, captured, failures>>

\* After an empty flush the event is read once more, and is still set.
FinalFlushEnds ==
    /\ consumer = "final"
    /\ batch = BatchMax \/ queued = 0
    /\ consumer' = IF batch > 0 THEN "swap" ELSE "flushed"
    /\ UNCHANGED <<workerVars, batch, taken, routeVars, row, captured, failures>>

CheckStop ==
    /\ consumer = "check"
    /\ consumer' = IF stopEvent THEN "quit" ELSE "loop"
    /\ UNCHANGED <<workerVars, batch, taken, routeVars, row, captured, failures>>

\* Mutant: the counter is read and not reset.
SwapDroppedKeepsIt ==
    /\ consumer = "swap"
    /\ consumer' = "read"
    /\ taken' = dropped
    /\ UNCHANGED <<workerVars, batch, routeVars, row, captured, failures>>

SwapDropped ==
    /\ consumer = "swap"
    /\ consumer' = "read"
    /\ taken' = dropped
    /\ dropped' = 0
    /\ UNCHANGED <<sniffer, hand, queued, stopEvent, batch, routeVars, row,
                   captured, failures>>

\* The row is gone or no longer running: the batch is let go, and no
\* exception tells the loop so.
SkipBatch ==
    /\ consumer = "read"
    /\ row.status # "running"
    /\ consumer' = "loop"
    /\ batch' = 0
    /\ taken' = 0
    /\ UNCHANGED <<workerVars, routeVars, row, captured, failures>>

ReadSession ==
    /\ consumer = "read"
    /\ row.status = "running"
    /\ consumer' = "commit"
    /\ UNCHANGED <<workerVars, batch, taken, routeVars, row, captured, failures>>

\* Mutant: the drops taken are not added to the row.
CommitBatchForgetsDrops ==
    /\ consumer = "commit"
    /\ row.status # "deleted"
    /\ row' = [row EXCEPT !.packet_count = @ + batch]
    /\ consumer' = "loop"
    /\ batch' = 0
    /\ taken' = 0
    /\ UNCHANGED <<workerVars, routeVars, captured, failures>>

CommitBatch ==
    /\ consumer = "commit"
    /\ row.status # "deleted"
    /\ row' = [row EXCEPT !.packet_count = @ + batch, !.dropped_count = @ + taken]
    /\ consumer' = "loop"
    /\ batch' = 0
    /\ taken' = 0
    /\ UNCHANGED <<workerVars, routeVars, captured, failures>>

\* Mutant: no try around _ingest_batch, so the thread dies with the batch.
FailBatchKillsThread ==
    /\ consumer \in {"read", "commit"}
    /\ failures < MaxFailures
    /\ failures' = failures + 1
    /\ consumer' = "quit"
    /\ taken' = 0
    /\ UNCHANGED <<workerVars, batch, routeVars, row, captured>>

\* Any exception rolls the transaction back: one of the database's own, or
\* the stale UPDATE of a row deleted since it was read.
FailBatch ==
    /\ \/ /\ consumer \in {"read", "commit"}
          /\ failures < MaxFailures
          /\ failures' = failures + 1
       \/ /\ consumer = "commit"
          /\ row.status = "deleted"
          /\ UNCHANGED failures
    /\ consumer' = "rollback"
    /\ taken' = 0
    /\ UNCHANGED <<workerVars, batch, routeVars, row, captured>>

CountFailedBatch ==
    /\ consumer = "rollback"
    /\ consumer' = "loop"
    /\ dropped' = dropped + batch
    /\ batch' = 0
    /\ UNCHANGED <<sniffer, hand, queued, stopEvent, taken, routeVars, row,
                   captured, failures>>

-----------------------------------------------------------------------------
Start ==
    \/ StartConsumer
    \/ SnifferStarts
    \/ SnifferFails
    \/ JoinFailedStart
    \/ WriteStartError
    \/ Register

Serve(r) ==
    \/ PopWorker(r)
    \/ StopSniffer(r)
    \/ StopFails(r)
    \/ SetStopEvent(r)
    \/ JoinConsumer(r)
    \/ WriteRow(r)

Sniff ==
    \/ SnifferOpens
    \/ SnifferDies
    \/ Enqueue
    \/ QueueFull
    \/ CountDrop

Consume ==
    \/ BeginDrain
    \/ TakeRecord
    \/ DeadlinePasses
    \/ FinalFlushEnds
    \/ CheckStop
    \/ SwapDropped
    \/ SkipBatch
    \/ ReadSession
    \/ CommitBatch
    \/ FailBatch
    \/ CountFailedBatch

Next ==
    \/ Start
    \/ \E r \in Requests, kind \in {"stop", "delete"} : Arrive(r, kind)
    \/ \E r \in Requests : Serve(r)
    \/ Sniff
    \/ Consume

Spec == Init /\ [][Next]_vars

(***************************************************************************)
(* The threads of the process are scheduled: the consumer, the sniffer's   *)
(* callback once it is in it, and the requests once they have arrived; and *)
(* not each and every drain loses its BATCH_MAX_SECONDS before its first   *)
(* get().  No packet, request or failure has to happen.                    *)
(***************************************************************************)
Fairness ==
    /\ WF_vars(Consume)
    /\ SF_vars(TakeRecord)
    /\ WF_vars(CountDrop)
    /\ WF_vars(Start)
    /\ \A r \in Requests : WF_vars(Serve(r))

FairSpec == Spec /\ Fairness

-----------------------------------------------------------------------------
(***************************************************************************)
(* Properties.                                                             *)
(***************************************************************************)

\* Every record that is still somewhere: in a thread's hands, in the queue,
\* in a batch, in one of the two drop counters, or in the row.
Accounted ==
    hand + queued + batch + dropped + taken + row.packet_count + row.dropped_count

\* No record is ever counted twice, whichever threads race; and while the
\* session is running and no ingest has failed, none is missing either: it is
\* on its way to packet_count or to dropped_count.
NothingLostWhileHealthy ==
    /\ Accounted <= captured
    /\ row.status = "running" /\ failures = 0 => Accounted = captured

\* What the manager lists has threads that a stop has yet to end: a consumer
\* that has not been told to, and a sniffer thread that was spawned.
RegisteredIsUnstopped ==
    registered => /\ sniffer \notin {"off", "stopped"}
                  /\ consumer \notin {"new"} \cup Ended
                  /\ ~stopEvent

\* However many stop and delete requests arrive, one of them at most stops
\* the worker's threads (a second AsyncSniffer.stop() would raise).
OneStopper ==
    \A r, s \in Requests :
        request[r].at \in StoppingPlaces /\ request[s].at \in StoppingPlaces => r = s

\* The stop event is only set once no record can be enqueued any more, so
\* the final flush really is final.
FlushIsFinal == stopEvent => ~SnifferAlive /\ hand = 0

\* "a daemon thread dying silently, with the sniffer left running and no
\* consumer left to drain its queue" (live_capture.py:112-114) cannot happen.
ConsumerOutlivesSniffer == SnifferAlive => consumer \notin {"new"} \cup Ended

\* The threads start and end in an order that leaves no sniffer on its own,
\* and it is one request that ends them.  (A consumer may be left: see
\* NoThreadIsLeaked.)
ThreadsAreOrderly ==
    RegisteredIsUnstopped /\ OneStopper /\ FlushIsFinal /\ ConsumerOutlivesSniffer

\* Only one request has come, and its join does not give up.
Sole ==
    /\ \A r, s \in Requests : request[r].at # "idle" /\ request[s].at # "idle" => r = s
    /\ \A r \in Impatient : request[r].at = "idle"

\* One stop on its own, and no batch has failed: of the records dissected, the
\* row has all but those that the consumer left in the queue and the drops it
\* had no batch for.  If it left by its final flush, the queue is empty, and
\* at most one drop is not in the row.
SoleStopBooksWhatItTook ==
    Sole /\ consumer \in Ended /\ failures = 0 =>
        /\ row.packet_count + row.dropped_count + queued + dropped = captured
        /\ consumer = "flushed" => queued = 0 /\ dropped <= 1

\* Every stop or delete request is answered, whatever the consumer is doing.
StopReturns ==
    \A r \in Requests : request[r].at = "pop" ~> request[r].at = "done"

\* A full queue is drained again, however many batches fail.
QueueRecovers ==
    queued = QueueMax /\ ~stopEvent ~> queued < QueueMax \/ stopEvent

\* The abstract ledger, as this worker keeps it.
Ledger == INSTANCE CaptureLedger WITH
    seen <- captured,
    pending <- hand + queued + batch + dropped + taken,
    stored <- row.packet_count,
    counted <- row.dropped_count,
    tainted <- row.status # "running" \/ failures > 0

\* The worker implements the ledger: its counters only grow, by records it
\* had pending, and it forgets none before the session ends or a batch fails.
KeepsLedger == Ledger!LedgerSpec

-----------------------------------------------------------------------------
(***************************************************************************)
(* What the project says of the worker, and the code does not do.          *)
(***************************************************************************)

\* README.md:266-267: the packets dropped "se descartan mientras se cuentan
\* -- nunca en silencio -- en dropped_count" of the session.
NeverDroppedSilently == row.status = "running" => Accounted = captured

\* tests/test_live_capture.py:97: "Stopping mid-flight must still ingest
\* everything already queued": the consumer leaves no record in the queue.
SoleStopDrainsQueue == Sole /\ consumer \in Ended => queued = 0

\* The same promise when two requests stop one session: no batch the
\* consumer took from the queue is thrown away.
StopIngestsBatches == consumer \in Ended => Accounted = captured

\* live_capture.py:76-79: if the sniffer does not come up ("bad interface, no
\* capture privileges"), the consumer is stopped "rather than leaking a thread
\* that busy-polls an empty queue for the rest of the process's life": once
\* nobody knows the worker any more, its consumer has been told to end.
NoThreadIsLeaked ==
    ( /\ starter = "done" /\ ~registered /\ ~SnifferAlive
      /\ \A r \in Requests : request[r].at \notin StoppingPlaces )
        => stopEvent

\* routes_capture.py:174-175: a stop request that finds no worker may write
\* "stopped", for "there's no real sniffer left to stop anyway".
EndedHasNoSniffer ==
    row.status # "running" /\ (\A r \in Requests : request[r].at \in {"idle", "done"})
        => ~SnifferAlive
=============================================================================
