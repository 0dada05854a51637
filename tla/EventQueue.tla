----------------------------- MODULE EventQueue -----------------------------
(***************************************************************************)
(* The in-memory event queue of the ad server                              *)
(* (src/services/eventQueue.ts), the requests that push to it and flush it *)
(* (serveService.ts, eventService.ts, routes/admin.ts) and the shutdown of *)
(* the process (src/server.ts).                                            *)
(*                                                                         *)
(* The process is single-threaded: an action is the code between two       *)
(* awaits.  The transaction of writeBatch is two steps, its commit in the  *)
(* database and its answer, for the answer may be lost after the commit.   *)
(***************************************************************************)
EXTENDS Naturals, Sequences, FiniteSets

CONSTANTS
  MaxQueue,     \* EVENT_MAX_QUEUE
  MaxBatch,     \* EVENT_FLUSH_MAX_BATCH
  Admins,       \* requests of POST /admin/events/flush
  Nobody,       \* drainer of a flush that does not drain
  Shutdown,     \* drainer of the flush of the shutdown
  MaxPushes,    \* bound on the calls of push
  MaxFailures,  \* bound on the transactions that fail
  MaxLostAcks   \* bound on those of them that had committed

ASSUME QueueAssumption == MaxQueue \in Nat \ {0} /\ MaxBatch \in Nat \ {0}
ASSUME DrainerAssumption ==
  Nobody \notin Admins /\ Shutdown \notin Admins /\ Nobody # Shutdown
ASSUME BoundAssumption ==
  MaxPushes \in Nat /\ MaxFailures \in Nat /\ MaxLostAcks \in Nat

VARIABLES
  queue,      \* accepted events, numbered in the order of acceptance
  flushing,
  batch,      \* the events flushEvents has spliced off the queue
  drainer,    \* who awaits the flush in flight: Nobody unless it drains
  committed,  \* has the transaction of the batch committed
  recorded,   \* DB: the events counted, in order
  totalQueued, totalDropped, totalFlushed, totalFlushFailures,
  caller,     \* per admin request, where it is and what it asked to flush
  phase,      \* of the process: see Phases
  pushes,     \* number of calls of push
  lost,       \* history: accepted events dropped after a failed flush
  lostAcks    \* number of commits whose answer was lost

flushVars == <<queue, flushing, batch, drainer, committed>>
counters == <<totalQueued, totalDropped, totalFlushed, totalFlushFailures>>
vars == <<flushVars, recorded, counters, caller, phase, pushes, lost, lostAcks>>

(* closing: awaits server.close; draining: awaits the last flush;           *)
(* disconnecting: awaits prisma.$disconnect; exited: process.exit(0);       *)
(* killed: process.exit(1), forced.                                         *)
Phases == {"running", "closing", "draining", "disconnecting", "exited", "killed"}
Alive == phase \notin {"exited", "killed"}

(* Requests are answered, and the flush timer is set, until server.close has *)
(* called back.                                                              *)
Serving == phase \in {"running", "closing"}

Events == 1 .. MaxPushes
Elements(s) == {s[i] : i \in DOMAIN s}

(* The flush in flight: there is one exactly while it holds a batch. *)
FlushType ==
  /\ queue \in Seq(Events)
  /\ flushing \in BOOLEAN
  /\ batch \in Seq(Events) /\ (flushing <=> batch # <<>>)
  /\ drainer \in Admins \cup {Nobody, Shutdown}
  /\ ~flushing => drainer = Nobody
  /\ committed \in BOOLEAN /\ (committed => flushing)

TypeOK ==
  /\ FlushType
  /\ Len(queue) <= MaxQueue
  /\ recorded \in Seq(Events)
  /\ totalQueued \in 0 .. MaxPushes /\ totalDropped \in 0 .. MaxPushes
  /\ totalFlushed \in Nat /\ totalFlushFailures \in 0 .. MaxFailures
  /\ caller \in [Admins -> [pc : {"idle", "waiting", "ok", "error"},
                            asked : SUBSET Events]]
  /\ phase \in Phases
  /\ pushes \in 0 .. MaxPushes
  /\ lost \in SUBSET Events
  /\ lostAcks \in 0 .. MaxLostAcks

Init ==
  /\ queue = <<>> /\ batch = <<>>
  /\ flushing = FALSE /\ drainer = Nobody /\ committed = FALSE
  /\ recorded = <<>>
  /\ totalQueued = 0 /\ totalDropped = 0
  /\ totalFlushed = 0 /\ totalFlushFailures = 0
  /\ caller = [a \in Admins |-> [pc |-> "idle", asked |-> {}]]
  /\ phase = "running"
  /\ pushes = 0 /\ lostAcks = 0
  /\ lost = {}

-----------------------------------------------------------------------------
(* flushEvents *)

Least(m, n) == IF m < n THEN m ELSE n

(* Mutant: slice for splice, the batch stays queued. *)
RestUnspliced(q, n) == q

Rest(q, n) == SubSeq(q, n + 1, Len(q))

(* flushEvents splices a batch off q, all of it if somebody drains. *)
Start(q, who) ==
  LET n == IF who = Nobody THEN Least(MaxBatch, Len(q)) ELSE Len(q)
  IN /\ flushing' = TRUE
     /\ batch' = SubSeq(q, 1, n)
     /\ queue' = Rest(q, n)
     /\ drainer' = who
     /\ committed' = FALSE

(* What flushEvents returns at once for: a flush in flight, nothing queued. *)
NothingToDo(q) == flushing \/ q = <<>>

FlushEvents(q, who) ==
  IF NothingToDo(q)
    THEN queue' = q /\ UNCHANGED <<flushing, batch, drainer, committed>>
    ELSE Start(q, who)

(* The flush in flight ends, leaving q queued, and whoever awaits it goes on. *)
Finish(q, result) ==
  /\ queue' = q
  /\ flushing' = FALSE /\ batch' = <<>> /\ drainer' = Nobody /\ committed' = FALSE
  /\ caller' = [a \in Admins |->
                  IF a = drainer THEN [caller[a] EXCEPT !.pc = result]
                                 ELSE caller[a]]
  /\ phase' = IF drainer = Shutdown THEN "disconnecting" ELSE phase

Commit ==
  /\ Alive /\ flushing /\ ~committed
  /\ committed' = TRUE
  /\ recorded' = recorded \o batch
  /\ UNCHANGED <<queue, flushing, batch, drainer, counters, caller, phase,
                 pushes, lost, lostAcks>>

(* Mutant: the size of the batch asked for is counted. *)
BatchSizeAsked == IF drainer = Nobody THEN MaxBatch ELSE Len(batch)

BatchSize == Len(batch)

(* writeBatch has succeeded; a flush that drains starts over until the queue *)
(* is empty.                                                                 *)
Flushed ==
  /\ Alive /\ committed
  /\ totalFlushed' = totalFlushed + BatchSize
  /\ IF drainer # Nobody /\ queue # <<>>
       THEN Start(queue, drainer) /\ UNCHANGED <<caller, phase>>
       ELSE Finish(queue, "ok")
  /\ UNCHANGED <<recorded, totalQueued, totalDropped, totalFlushFailures,
                 pushes, lost, lostAcks>>

(* Mutants: the failed batch goes behind the events pushed meanwhile; the    *)
(* room is not computed, the whole batch goes back.                          *)
RequeuedBehind(kept) == queue \o kept
RoomUnchecked == MaxQueue

(* How many events of a failed batch go back. *)
Room == IF MaxQueue > Len(queue) THEN MaxQueue - Len(queue) ELSE 0

(* queue.unshift: they go back in front. *)
Requeued(kept) == kept \o queue

(* writeBatch has failed: what there is room for is requeued, the rest is    *)
(* dropped, and the error ends a drain.                                      *)
Failed ==
  /\ Alive /\ flushing
  /\ totalFlushFailures < MaxFailures
  /\ committed => lostAcks < MaxLostAcks
  /\ lostAcks' = lostAcks + (IF committed THEN 1 ELSE 0)
  /\ LET n == Least(Room, Len(batch))
     IN /\ Finish(Requeued(SubSeq(batch, 1, n)), "error")
        /\ lost' = lost \cup Elements(SubSeq(batch, n + 1, Len(batch)))
        /\ totalDropped' = totalDropped + (Len(batch) - n)
  /\ totalFlushFailures' = totalFlushFailures + 1
  /\ UNCHANGED <<recorded, totalQueued, totalFlushed, pushes>>

-----------------------------------------------------------------------------
(* push, the timer and POST /admin/events/flush *)

(* Mutant: the batch in flight counts against the limit. *)
FullWithBatch == Len(queue) + Len(batch) >= MaxQueue

Full == Len(queue) >= MaxQueue

Refuse ==
  /\ Serving
  /\ pushes < MaxPushes
  /\ Full
  /\ pushes' = pushes + 1
  /\ totalDropped' = totalDropped + 1
  /\ UNCHANGED <<flushVars, recorded, totalQueued, totalFlushed,
                 totalFlushFailures, caller, phase, lost, lostAcks>>

(* A push that fills a batch starts a flush before it returns. *)
Accept ==
  /\ Serving
  /\ pushes < MaxPushes
  /\ ~Full
  /\ pushes' = pushes + 1
  /\ totalQueued' = totalQueued + 1
  /\ LET q == Append(queue, totalQueued + 1)
     IN IF Len(q) >= MaxBatch
          THEN FlushEvents(q, Nobody)
          ELSE queue' = q /\ UNCHANGED <<flushing, batch, drainer, committed>>
  /\ UNCHANGED <<recorded, totalDropped, totalFlushed, totalFlushFailures,
                 caller, phase, lost, lostAcks>>

(* Mutant: the timer waits for a full batch. *)
TimerForFullBatch ==
  /\ Serving
  /\ ~NothingToDo(queue) /\ Len(queue) >= MaxBatch
  /\ FlushEvents(queue, Nobody)
  /\ UNCHANGED <<recorded, counters, caller, phase, pushes, lost, lostAcks>>

(* Until eventQueue.stop() clears it. *)
Timer ==
  /\ Serving
  /\ ~NothingToDo(queue)
  /\ FlushEvents(queue, Nobody)
  /\ UNCHANGED <<recorded, counters, caller, phase, pushes, lost, lostAcks>>

Pending == Elements(IF committed THEN queue ELSE batch \o queue)

AdminFlush(a) ==
  /\ Serving
  /\ caller[a].pc # "waiting"
  /\ FlushEvents(queue, a)
  /\ caller' = [caller EXCEPT
       ![a] = [pc |-> IF NothingToDo(queue) THEN "ok" ELSE "waiting",
               asked |-> Pending]]
  /\ UNCHANGED <<recorded, counters, phase, pushes, lost, lostAcks>>

-----------------------------------------------------------------------------
(* Shutdown of the process *)

(* A signal, an uncaught exception or an unhandled rejection. *)
Terminate ==
  /\ phase = "running"
  /\ phase' = "closing"
  /\ UNCHANGED <<flushVars, recorded, counters, caller, pushes, lost, lostAcks>>

(* server.close has called back: the timer is stopped, the queue is flushed. *)
Closed ==
  /\ phase = "closing"
  /\ phase' = IF NothingToDo(queue) THEN "disconnecting" ELSE "draining"
  /\ FlushEvents(queue, Shutdown)
  /\ UNCHANGED <<recorded, counters, caller, pushes, lost, lostAcks>>

Exit ==
  /\ phase = "disconnecting"
  /\ phase' = "exited"
  /\ UNCHANGED <<flushVars, recorded, counters, caller, pushes, lost, lostAcks>>

(* SHUTDOWN_TIMEOUT_MS has passed. *)
ForceExit ==
  /\ phase \in {"closing", "draining", "disconnecting"}
  /\ phase' = "killed"
  /\ UNCHANGED <<flushVars, recorded, counters, caller, pushes, lost, lostAcks>>

Next ==
  \/ Accept \/ Refuse \/ Timer
  \/ Commit \/ Flushed \/ Failed
  \/ \E a \in Admins : AdminFlush(a)
  \/ Terminate \/ Closed \/ Exit \/ ForceExit

Spec == Init /\ [][Next]_vars

(* The database answers, the flush timer fires, and so does the timer of the *)
(* forced exit.                                                              *)
Fairness ==
  /\ WF_vars(Commit) /\ WF_vars(Flushed)
  /\ WF_vars(Timer) /\ WF_vars(ForceExit)

FairSpec == Spec /\ Fairness

-----------------------------------------------------------------------------
(* Properties *)

(* status() accounts for every push: it is flushed, dropped, queued or in    *)
(* the batch in flight, and never two of these, whatever fails               *)
(* (eventQueue.ts:42-47, 87-104).                                            *)
StatusAccounts ==
  pushes = totalFlushed + totalDropped + Len(queue) + Len(batch)

(* "Max queued events before drops": a step that drops an event leaves the   *)
(* queue full, be it a push or a failed flush (README.md:145).               *)
DropsOnlyWhenFull ==
  [][totalDropped' > totalDropped => Len(queue') = MaxQueue]_vars

(* However flushes fail and requeue around new pushes, an event is recorded  *)
(* once, in the order of acceptance, or lost, and no other way out: until an *)
(* answer of a commit is lost, the queue implements the ledger               *)
(* (eventQueue.ts:82-111).                                                   *)
Ledger == INSTANCE EventLedger WITH
  MaxEvents <- MaxPushes,
  accepted <- totalQueued,
  pending <- IF committed THEN queue ELSE batch \o queue,
  ended <- ~Alive
ImplementsLedger ==
  Ledger!Init /\ [][lostAcks' = 0 => Ledger!Next]_(Ledger!vars)

(* An event is counted again only when the answer of a commit was lost: once *)
(* per lost answer at most, and none is counted that was not accepted.       *)
RecountsAreLostAcks ==
  \A e \in Events :
    LET count == Cardinality({i \in DOMAIN recorded : recorded[i] = e})
    IN /\ count <= 1 + lostAcks
       /\ count > 0 => e <= totalQueued

(* An accepted event does not stay in memory for ever: it is recorded or     *)
(* dropped, or the process ends.                                             *)
EventsSettle ==
  \A e \in Events :
    e <= totalQueued ~> e \in Elements(recorded) \cup lost \/ ~Alive

(* The shutdown is "flushing events": a process that exits by itself, and    *)
(* had no flush fail, leaves no accepted event behind (server.ts:63, 76).    *)
ShutdownFlushes ==
  phase = "exited" /\ totalFlushFailures = 0 => queue = <<>>
=============================================================================
