-------------------------- MODULE EventQueueProofs --------------------------
(* Proofs about EventQueue, for every value of its constants. *)
EXTENDS EventQueue, SequenceTheorems, FiniteSetTheorems, TLAPS

(* The inductive invariant: events are numbered below the pushes. *)
AccountInv == TypeOK /\ StatusAccounts /\ totalQueued <= pushes

(* Cutting a sequence of events in two. *)
LEMMA Cut ==
  ASSUME NEW q \in Seq(Events), NEW n \in 0 .. Len(q)
  PROVE  /\ SubSeq(q, 1, n) \in Seq(Events) /\ Len(SubSeq(q, 1, n)) = n
         /\ SubSeq(q, n + 1, Len(q)) \in Seq(Events)
         /\ Len(SubSeq(q, n + 1, Len(q))) = Len(q) - n
<1>1. Len(q) \in Nat /\ n \in Int /\ n + 1 \in Int /\ n <= Len(q) /\ n >= 0
  BY LenProperties
<1>2. \A i \in 1 .. n : q[i] \in Events
  BY <1>1, ElementOfSeq
<1>3. \A i \in n + 1 .. Len(q) : q[i] \in Events
  BY <1>1, ElementOfSeq
<1>4. /\ SubSeq(q, 1, n) \in Seq(Events)
      /\ Len(SubSeq(q, 1, n)) = IF 1 <= n THEN n - 1 + 1 ELSE 0
  BY <1>1, <1>2, SubSeqProperties
<1>5. /\ SubSeq(q, n + 1, Len(q)) \in Seq(Events)
      /\ Len(SubSeq(q, n + 1, Len(q))) =
           IF n + 1 <= Len(q) THEN Len(q) - (n + 1) + 1 ELSE 0
  BY <1>1, <1>3, SubSeqProperties
<1> QED BY <1>1, <1>4, <1>5

(* Starting a flush loses nothing: what it splices off is in the batch. *)
LEMMA StartFlush ==
  ASSUME NEW q \in Seq(Events), q # <<>>,
         NEW who \in Admins \cup {Nobody, Shutdown}, Start(q, who)
  PROVE  FlushType' /\ Len(queue') + Len(batch') = Len(q) /\ Len(queue') <= Len(q)
<1>1. Len(q) \in Nat \ {0}
  BY EmptySeq
<1>2. PICK n \in 1 .. Len(q) :
        /\ batch' = SubSeq(q, 1, n) /\ queue' = SubSeq(q, n + 1, Len(q))
  <2> DEFINE n == IF who = Nobody THEN Least(MaxBatch, Len(q)) ELSE Len(q)
  <2>1. n \in 1 .. Len(q)
    BY <1>1, QueueAssumption DEF Least
  <2>2. batch' = SubSeq(q, 1, n) /\ queue' = SubSeq(q, n + 1, Len(q))
    BY DEF Start, Rest
  <2> HIDE DEF n
  <2> QED BY <2>1, <2>2
<1>3. /\ batch' \in Seq(Events) /\ Len(batch') = n
      /\ queue' \in Seq(Events) /\ Len(queue') = Len(q) - n
  BY <1>1, <1>2, Cut
<1>4. batch' # <<>>
  BY <1>1, <1>3, EmptySeq
<1>5. flushing' = TRUE /\ drainer' = who /\ committed' = FALSE
  BY DEF Start
<1>6. FlushType'
  BY <1>3, <1>4, <1>5 DEF FlushType
<1> QED BY <1>1, <1>3, <1>6

(* flushEvents moves events from the queue to the batch and loses none. *)
LEMMA FlushEventsKeeps ==
  ASSUME FlushType, NEW q \in Seq(Events),
         NEW who \in Admins \cup {Nobody, Shutdown}, FlushEvents(q, who)
  PROVE  /\ FlushType' /\ Len(queue') <= Len(q)
         /\ Len(queue') + Len(batch') = Len(q) + Len(batch)
<1>1. CASE NothingToDo(q)
  BY <1>1, LenProperties DEF FlushEvents, FlushType
<1>2. CASE ~NothingToDo(q)
  <2>1. q # <<>> /\ batch = <<>> /\ Start(q, who)
    BY <1>2 DEF FlushEvents, NothingToDo, FlushType
  <2>2. Len(batch) = 0
    BY <2>1
  <2> QED BY <2>1, <2>2, StartFlush, LenProperties
<1> QED BY <1>1, <1>2

(* Nothing has been pushed and nothing counted. *)
LEMMA AccountInit == Init => AccountInv
<1> SUFFICES ASSUME Init PROVE AccountInv
  OBVIOUS
<1>1. <<>> \in Seq(Events) /\ Len(<<>>) = 0
  BY EmptySeq
<1>2. FlushType
  BY <1>1 DEF Init, FlushType
<1>3. {} \in SUBSET Events
  OBVIOUS
<1>4. caller \in [Admins -> [pc : {"idle", "waiting", "ok", "error"},
                             asked : SUBSET Events]]
  BY <1>3 DEF Init
<1>5. TypeOK
  BY <1>1, <1>2, <1>3, <1>4, QueueAssumption, BoundAssumption
  DEF Init, TypeOK, Phases
<1> QED BY <1>1, <1>5 DEF AccountInv, StatusAccounts, Init

(* Every step keeps the account: one step of the proof per action. *)
LEMMA AccountNext == AccountInv /\ [Next]_vars => AccountInv'
<1> SUFFICES ASSUME AccountInv, [Next]_vars PROVE AccountInv'
  OBVIOUS
<1> USE QueueAssumption, BoundAssumption, DrainerAssumption
<1>1. /\ TypeOK /\ FlushType
      /\ pushes = totalFlushed + totalDropped + Len(queue) + Len(batch)
      /\ totalQueued <= pushes
      /\ queue \in Seq(Events) /\ batch \in Seq(Events)
      /\ Len(queue) \in Nat /\ Len(batch) \in Nat
      /\ totalFlushed \in Nat /\ totalDropped \in Nat /\ totalQueued \in Nat
      /\ pushes \in Nat /\ drainer \in Admins \cup {Nobody, Shutdown}
  BY LenProperties DEF AccountInv, StatusAccounts, TypeOK, FlushType
<1>0. UNCHANGED flushVars => FlushType'
  BY <1>1 DEF flushVars, FlushType
<1>2. CASE Accept
  <2> DEFINE q == Append(queue, totalQueued + 1)
  <2>1. /\ totalQueued + 1 \in Events /\ pushes + 1 \in 0 .. MaxPushes
        /\ Len(queue) < MaxQueue
    BY <1>1, <1>2 DEF Accept, TypeOK, Events, Full
  <2>2. q \in Seq(Events) /\ Len(q) = Len(queue) + 1
    BY <1>1, <2>1 DEF TypeOK
  <2>3. /\ FlushType' /\ Len(queue') <= Len(q)
        /\ Len(queue') + Len(batch') = Len(q) + Len(batch)
    <3>1. CASE Len(q) >= MaxBatch
      <4>1. FlushEvents(q, Nobody)
        BY <1>2, <3>1 DEF Accept
      <4> HIDE DEF q
      <4> QED BY <1>1, <2>2, <4>1, FlushEventsKeeps
    <3>2. CASE ~(Len(q) >= MaxBatch)
      <4>1. queue' = q /\ UNCHANGED <<flushing, batch, drainer, committed>>
        BY <1>2, <3>2 DEF Accept
      <4>2. FlushType'
        BY <1>1, <2>2, <4>1 DEF FlushType
      <4> HIDE DEF q
      <4>3. Len(queue') = Len(q) /\ Len(batch') = Len(batch)
        BY <4>1
      <4>4. Len(q) \in Nat
        BY <2>2, LenProperties
      <4> QED BY <4>2, <4>3, <4>4
    <3> QED BY <3>1, <3>2
  <2>4. Len(queue') \in Nat /\ Len(batch') \in Nat
    BY <2>3, LenProperties DEF FlushType
  <2>5. /\ pushes' = pushes + 1 /\ totalQueued' = totalQueued + 1
        /\ UNCHANGED <<recorded, totalDropped, totalFlushed, totalFlushFailures,
                       caller, phase, lost, lostAcks>>
    BY <1>2 DEF Accept
  <2> HIDE DEF q
  <2>6. Len(queue') <= MaxQueue
    <3>1. /\ Len(q) = Len(queue) + 1 /\ Len(queue) < MaxQueue
          /\ Len(queue') <= Len(q) /\ Len(queue) \in Nat /\ Len(queue') \in Nat
      BY <1>1, <2>1, <2>2, <2>3, <2>4
    <3> QED BY <3>1, QueueAssumption
  <2>7. totalQueued' \in 0 .. MaxPushes /\ pushes' \in 0 .. MaxPushes
    BY <1>1, <2>1, <2>5 DEF Events
  <2>8. TypeOK'
    BY <1>1, <2>3, <2>5, <2>6, <2>7 DEF TypeOK
  <2>9. StatusAccounts'
    <3>1. /\ pushes = totalFlushed + totalDropped + Len(queue) + Len(batch)
          /\ pushes \in Nat /\ totalFlushed \in Nat /\ totalDropped \in Nat
          /\ Len(queue) \in Nat /\ Len(batch) \in Nat
      BY <1>1
    <3>2. /\ Len(queue') + Len(batch') = Len(queue) + 1 + Len(batch)
          /\ Len(queue') \in Nat /\ Len(batch') \in Nat
      BY <2>2, <2>3, <2>4
    <3>3. /\ pushes' = pushes + 1 /\ totalFlushed' = totalFlushed
          /\ totalDropped' = totalDropped
      BY <2>5
    <3> QED BY <3>1, <3>2, <3>3 DEF StatusAccounts
  <2>10. totalQueued' <= pushes'
    BY <1>1, <2>5
  <2> QED BY <2>8, <2>9, <2>10 DEF AccountInv
<1>3. CASE Refuse
  <2>0. UNCHANGED flushVars /\ queue' = queue
    BY <1>3 DEF Refuse, flushVars
  <2>1. TypeOK'
    BY <1>0, <1>1, <1>3, <2>0 DEF Refuse, TypeOK
  <2> QED BY <1>1, <1>3, <2>1
          DEF Refuse, flushVars, AccountInv, StatusAccounts, TypeOK
(* The steps that only start a flush of the queue. *)
<1>4. ASSUME NEW who \in Admins \cup {Nobody, Shutdown}, FlushEvents(queue, who),
             phase' \in Phases,
             caller' \in [Admins -> [pc : {"idle", "waiting", "ok", "error"},
                                     asked : SUBSET Events]],
             UNCHANGED <<recorded, counters, pushes, lost, lostAcks>>
      PROVE  AccountInv'
  <2>1. /\ FlushType' /\ Len(queue') <= Len(queue)
        /\ Len(queue') + Len(batch') = Len(queue) + Len(batch)
    BY <1>1, <1>4, FlushEventsKeeps DEF FlushType
  <2>2. Len(queue') \in Nat /\ Len(batch') \in Nat
    BY <2>1, LenProperties DEF FlushType
  <2>3. TypeOK'
    BY <1>1, <1>4, <2>1, <2>2 DEF TypeOK, counters
  <2>4. /\ totalFlushed' = totalFlushed /\ totalDropped' = totalDropped
        /\ totalQueued' = totalQueued /\ pushes' = pushes
    BY <1>4 DEF counters
  <2>5. StatusAccounts' /\ totalQueued' <= pushes'
    BY <1>1, <2>1, <2>2, <2>4 DEF StatusAccounts
  <2> QED BY <2>3, <2>5 DEF AccountInv
<1>5. CASE Timer
  BY <1>1, <1>4, <1>5 DEF Timer, TypeOK
<1>6. ASSUME NEW a \in Admins, AdminFlush(a) PROVE AccountInv'
  <2>1. Pending \in SUBSET Events
    <3>1. batch \o queue \in Seq(Events)
      BY <1>1, ConcatProperties DEF TypeOK
    <3>2. \A s \in Seq(Events) : Elements(s) \in SUBSET Events
      BY LenProperties, ElementOfSeq DEF Elements
    <3> QED BY <1>1, <3>1, <3>2 DEF Pending, TypeOK
  <2>2. caller' \in [Admins -> [pc : {"idle", "waiting", "ok", "error"},
                                asked : SUBSET Events]]
    BY <1>1, <1>6, <2>1 DEF AdminFlush, TypeOK
  <2> QED BY <1>1, <1>4, <1>6, <2>2 DEF AdminFlush, TypeOK
<1>7. CASE Closed
  BY <1>1, <1>4, <1>7 DEF Closed, TypeOK, Phases
<1>8. CASE Commit
  <2>1. recorded' \in Seq(Events)
    BY <1>1, <1>8, ConcatProperties DEF Commit, TypeOK
  <2>2. FlushType'
    BY <1>1, <1>8 DEF Commit, FlushType
  <2>3. TypeOK'
    BY <1>1, <1>8, <2>1, <2>2 DEF Commit, TypeOK, counters
  <2> QED BY <1>1, <1>8, <2>3 DEF Commit, AccountInv, StatusAccounts, counters
(* The end of the flush in flight. *)
<1>9. ASSUME NEW q, NEW result \in {"ok", "error"}, Finish(q, result)
      PROVE  /\ phase' \in Phases
             /\ caller' \in [Admins -> [pc : {"idle", "waiting", "ok", "error"},
                                        asked : SUBSET Events]]
             /\ batch' = <<>> /\ batch' \in Seq(Events) /\ Len(batch') = 0
             /\ q \in Seq(Events) => FlushType'
  BY <1>1, <1>9, EmptySeq DEF Finish, TypeOK, Phases, FlushType
<1>10. CASE Flushed
  <2>1. /\ totalFlushed' = totalFlushed + Len(batch)
        /\ UNCHANGED <<recorded, totalQueued, totalDropped, totalFlushFailures,
                       pushes, lost, lostAcks>>
    BY <1>10 DEF Flushed, BatchSize
  <2>2. /\ FlushType' /\ phase' \in Phases
        /\ caller' \in [Admins -> [pc : {"idle", "waiting", "ok", "error"},
                                   asked : SUBSET Events]]
        /\ Len(queue') + Len(batch') = Len(queue) /\ Len(queue') <= Len(queue)
    <3>1. CASE drainer # Nobody /\ queue # <<>>
      <4>1. Start(queue, drainer) /\ UNCHANGED <<caller, phase>>
        BY <1>10, <3>1 DEF Flushed
      <4>2. /\ FlushType' /\ Len(queue') + Len(batch') = Len(queue)
            /\ Len(queue') <= Len(queue)
        BY <1>1, <3>1, <4>1, StartFlush
      <4> QED BY <1>1, <4>1, <4>2 DEF TypeOK
    <3>2. CASE ~(drainer # Nobody /\ queue # <<>>)
      <4>1. Finish(queue, "ok")
        BY <1>10, <3>2 DEF Flushed
      <4>2. queue' = queue
        BY <4>1 DEF Finish
      <4> QED BY <1>1, <1>9, <4>1, <4>2 DEF TypeOK
    <3> QED BY <3>1, <3>2
  <2>3. Len(queue') \in Nat /\ Len(batch') \in Nat
    BY <2>2, LenProperties DEF FlushType
  <2>4. TypeOK'
    BY <1>1, <2>1, <2>2, <2>3 DEF TypeOK
  <2>5. StatusAccounts'
    <3>1. /\ pushes = totalFlushed + totalDropped + Len(queue) + Len(batch)
          /\ pushes \in Nat /\ totalFlushed \in Nat /\ totalDropped \in Nat
          /\ Len(queue) \in Nat /\ Len(batch) \in Nat
      BY <1>1
    <3>2. /\ pushes' = pushes /\ totalFlushed' = totalFlushed + Len(batch)
          /\ totalDropped' = totalDropped
      BY <2>1
    <3>3. Len(queue') + Len(batch') = Len(queue)
      BY <2>2
    <3> QED BY <2>3, <3>1, <3>2, <3>3 DEF StatusAccounts
  <2>6. totalQueued' <= pushes'
    BY <1>1, <2>1
  <2> QED BY <2>4, <2>5, <2>6 DEF AccountInv
<1>11. CASE Failed
  <2> DEFINE n == Least(Room, Len(batch))
             kept == SubSeq(batch, 1, n)
             gone == SubSeq(batch, n + 1, Len(batch))
  <2>1. n \in 0 .. Len(batch) /\ (n = 0 \/ Len(queue) + n <= MaxQueue)
    BY <1>1 DEF Least, Room
  <2>2. /\ Finish(Requeued(kept), "error")
        /\ lost' = lost \cup Elements(gone)
        /\ totalDropped' = totalDropped + (Len(batch) - n)
        /\ totalFlushFailures' = totalFlushFailures + 1
        /\ totalFlushFailures < MaxFailures
        /\ committed => lostAcks < MaxLostAcks
        /\ lostAcks' = lostAcks + (IF committed THEN 1 ELSE 0)
        /\ UNCHANGED <<recorded, totalQueued, totalFlushed, pushes>>
    BY <1>11 DEF Failed
  <2> HIDE DEF n
  <2>3. /\ kept \in Seq(Events) /\ Len(kept) = n
        /\ gone \in Seq(Events) /\ Len(gone) = Len(batch) - n
    BY <1>1, <2>1, Cut DEF TypeOK
  <2>4. Elements(gone) \in SUBSET Events
    <3>1. \A i \in DOMAIN gone : gone[i] \in Events
      BY <2>3, LenProperties, ElementOfSeq
    <3> HIDE DEF gone
    <3> QED BY <3>1 DEF Elements
  <2> HIDE DEF kept, gone
  <2>5. /\ Requeued(kept) \in Seq(Events)
        /\ Len(Requeued(kept)) = n + Len(queue)
    BY <1>1, <2>3, ConcatProperties DEF Requeued, TypeOK
  <2>6. queue' = Requeued(kept)
    BY <2>2 DEF Finish
  <2>7. /\ FlushType' /\ phase' \in Phases /\ Len(batch') = 0
        /\ caller' \in [Admins -> [pc : {"idle", "waiting", "ok", "error"},
                                   asked : SUBSET Events]]
    BY <1>9, <2>2, <2>5
  <2>8. /\ Len(queue') = n + Len(queue) /\ Len(queue') <= MaxQueue
    BY <1>1, <2>1, <2>5, <2>6 DEF TypeOK
  <2>9. lostAcks' \in 0 .. MaxLostAcks /\ totalFlushFailures' \in 0 .. MaxFailures
    BY <1>1, <2>2 DEF TypeOK
  <2>10. totalDropped' \in 0 .. MaxPushes
    BY <1>1, <2>1, <2>2 DEF TypeOK
  <2>11. TypeOK'
    BY <1>1, <2>2, <2>4, <2>7, <2>8, <2>9, <2>10 DEF TypeOK
  <2>12. StatusAccounts'
    BY <1>1, <2>1, <2>2, <2>7, <2>8 DEF StatusAccounts, TypeOK
  <2> QED BY <1>1, <2>2, <2>11, <2>12 DEF AccountInv
<1>12. CASE Terminate
  <2>0. UNCHANGED flushVars /\ queue' = queue
    BY <1>12 DEF Terminate, flushVars
  <2>1. TypeOK'
    BY <1>0, <1>1, <1>12, <2>0 DEF Terminate, TypeOK, Phases, counters
  <2> QED BY <1>1, <1>12, <2>1
          DEF Terminate, AccountInv, StatusAccounts, flushVars, counters
<1>13. CASE Exit \/ ForceExit
  <2>0. UNCHANGED flushVars /\ queue' = queue
    BY <1>13 DEF Exit, ForceExit, flushVars
  <2>1. TypeOK'
    BY <1>0, <1>1, <1>13, <2>0 DEF Exit, ForceExit, TypeOK, Phases, counters
  <2> QED BY <1>1, <1>13, <2>1
          DEF Exit, ForceExit, AccountInv, StatusAccounts, flushVars, counters
<1>14. CASE UNCHANGED vars
  <2>0. UNCHANGED flushVars /\ queue' = queue
    BY <1>14 DEF vars, flushVars
  <2>1. TypeOK'
    BY <1>0, <1>1, <1>14, <2>0 DEF vars, TypeOK, counters
  <2> QED BY <1>1, <1>14, <2>1
          DEF vars, AccountInv, StatusAccounts, flushVars, counters
<1> QED
  BY <1>2, <1>3, <1>5, <1>6, <1>7, <1>8, <1>10, <1>11, <1>12, <1>13, <1>14
  DEF Next

(* In every reachable state the variables have their types; in particular    *)
(* the queue never exceeds EVENT_MAX_QUEUE, also when a failed batch is      *)
(* requeued in front of events pushed meanwhile.                              *)
THEOREM QueueBounded == Spec => []TypeOK
<1>1. AccountInv => TypeOK
  BY DEF AccountInv
<1> QED BY AccountInit, AccountNext, <1>1, PTL DEF Spec

(* Every push is accounted for by the counters of status(), whatever fails:  *)
(* it is flushed, dropped, queued or in the batch in flight.                 *)
THEOREM StatusIsExact == Spec => []StatusAccounts
<1>1. AccountInv => StatusAccounts
  BY DEF AccountInv
<1> QED BY AccountInit, AccountNext, <1>1, PTL DEF Spec

-----------------------------------------------------------------------------
(* The queue implements the ledger *)

(* A push appends to what is waiting, batch and queue together. *)
LEMMA ConcatAppend ==
  ASSUME NEW S, NEW s \in Seq(S), NEW t \in Seq(S), NEW x \in S
  PROVE  s \o Append(t, x) = Append(s \o t, x)
<1>1. Append(t, x) = t \o <<x>> /\ <<x>> \in Seq(S)
  OBVIOUS
<1>2. s \o t \in Seq(S)
  BY ConcatProperties
<1>3. Append(s \o t, x) = (s \o t) \o <<x>>
  BY <1>2
<1> QED BY <1>1, <1>3, ConcatAssociative

(* The parts of a concatenation. *)
LEMMA ConcatParts ==
  ASSUME NEW s \in Seq(Events), NEW t \in Seq(Events), NEW n \in 0 .. Len(s)
  PROVE  /\ SubSeq(s \o t, 1, n) = SubSeq(s, 1, n)
         /\ SubSeq(s \o t, Len(s) + 1, Len(s \o t)) = t
<1>1. /\ s \o t \in Seq(Events) /\ Len(s \o t) = Len(s) + Len(t)
      /\ Len(s) \in Nat /\ Len(t) \in Nat
      /\ \A i \in 1 .. Len(s) + Len(t) :
           (s \o t)[i] = IF i <= Len(s) THEN s[i] ELSE t[i - Len(s)]
  BY ConcatProperties, LenProperties
<1>2. SubSeq(s \o t, 1, n) = SubSeq(s, 1, n)
  <2>1. n \in 0 .. Len(s \o t)
    BY <1>1
  <2>2. /\ SubSeq(s \o t, 1, n) \in Seq(Events) /\ Len(SubSeq(s \o t, 1, n)) = n
        /\ SubSeq(s, 1, n) \in Seq(Events) /\ Len(SubSeq(s, 1, n)) = n
    BY <1>1, <2>1, Cut
  <2>3. ASSUME NEW i \in 1 .. n
        PROVE  SubSeq(s \o t, 1, n)[i] = SubSeq(s, 1, n)[i]
    BY <1>1, <2>3
  <2> QED BY <2>2, <2>3, SeqEqual
<1>3. SubSeq(s \o t, Len(s) + 1, Len(s \o t)) = t
  <2> DEFINE u == SubSeq(s \o t, Len(s) + 1, Len(s \o t))
  <2>1. Len(s) \in 0 .. Len(s \o t)
    BY <1>1
  <2>2. u \in Seq(Events) /\ Len(u) = Len(t)
    BY <1>1, <2>1, Cut
  <2>3. ASSUME NEW i \in 1 .. Len(t) PROVE u[i] = t[i]
    BY <1>1, <2>3
  <2> HIDE DEF u
  <2> QED BY <2>2, <2>3, SeqEqual
<1> QED BY <1>2, <1>3

(* A sequence is its first n elements and the others. *)
LEMMA CutWhole ==
  ASSUME NEW q \in Seq(Events), NEW n \in 0 .. Len(q)
  PROVE  SubSeq(q, 1, n) \o SubSeq(q, n + 1, Len(q)) = q
<1>1. Len(q) \in Nat /\ 1 \in 1 .. Len(q) + 1 /\ n \in 0 .. Len(q)
      /\ Len(q) \in n .. Len(q) /\ n \in 1 - 1 .. Len(q)
  BY LenProperties
<1>2. SubSeq(q, 1, n) \o SubSeq(q, n + 1, Len(q)) = SubSeq(q, 1, Len(q))
  BY <1>1, ConcatAdjacentSubSeq
<1> QED BY <1>2, SubSeqFull

(* A flush that starts splits what is queued, and leaves the rest behind it. *)
LEMMA StartSplits ==
  ASSUME NEW q \in Seq(Events), q # <<>>, NEW who, Start(q, who)
  PROVE  batch' \o queue' = q /\ committed' = FALSE
<1> DEFINE n == IF who = Nobody THEN Least(MaxBatch, Len(q)) ELSE Len(q)
<1>1. n \in 0 .. Len(q)
  BY LenProperties, QueueAssumption DEF Least
<1>2. batch' = SubSeq(q, 1, n) /\ queue' = SubSeq(q, n + 1, Len(q))
  BY DEF Start, Rest
<1> HIDE DEF n
<1> QED BY <1>1, <1>2, CutWhole DEF Start

(* The events pending in the ledger. *)
Waiting == IF committed THEN queue ELSE batch \o queue

(* Calling flushEvents with q, which is what is queued, lets nobody notice. *)
LEMMA FlushEventsSplits ==
  ASSUME FlushType, NEW q \in Seq(Events), NEW who, FlushEvents(q, who)
  PROVE  Waiting' = IF committed THEN q ELSE batch \o q
<1>1. CASE NothingToDo(q)
  BY <1>1 DEF FlushEvents, Waiting
<1>2. CASE ~NothingToDo(q)
  <2>1. Start(q, who) /\ q # <<>> /\ batch = <<>> /\ committed = FALSE
    BY <1>2 DEF FlushEvents, NothingToDo, FlushType
  <2>2. Waiting' = q
    BY <2>1, StartSplits DEF Waiting
  <2>3. batch \o q = q
    BY <2>1, ConcatEmptySeq
  <2> QED BY <2>1, <2>2, <2>3
<1> QED BY <1>1, <1>2

(* Giving up a run of the waiting events. *)
LEMMA LedgerLose ==
  ASSUME NEW i, NEW j, Alive, Alive', UNCHANGED <<totalQueued, recorded>>,
         lost' = lost \cup {Waiting[k] : k \in i .. j},
         Waiting' = SubSeq(Waiting, 1, i - 1) \o SubSeq(Waiting, j + 1, Len(Waiting))
  PROVE  Ledger!Lose(i, j)
BY DEF Ledger!Lose, Waiting

(* The initial state of the queue is one of the ledger. *)
LEMMA LedgerInit == Init => Ledger!Init
<1> SUFFICES ASSUME Init PROVE Ledger!Init
  OBVIOUS
<1>1. <<>> \o <<>> = <<>>
  BY EmptySeq, ConcatEmptySeq
<1> QED BY <1>1 DEF Init, Ledger!Init, Alive

(* Every step of the queue is a step of the ledger or leaves it unchanged,
   until the answer of a commit is lost: one step of the proof per action. *)
LEMMA LedgerNext ==
  ASSUME lostAcks' = 0, AccountInv, [Next]_vars
  PROVE  [Ledger!Next]_Ledger!vars
<1>1. /\ TypeOK /\ FlushType
      /\ queue \in Seq(Events) /\ batch \in Seq(Events)
      /\ Len(queue) \in Nat /\ Len(batch) \in Nat
      /\ totalQueued \in Nat /\ pushes \in Nat /\ totalQueued <= pushes
  BY LenProperties DEF AccountInv, TypeOK, FlushType
<1>2. /\ batch \o queue \in Seq(Events)
      /\ Len(batch \o queue) = Len(batch) + Len(queue)
  BY <1>1, ConcatProperties
(* A stuttering step of the ledger. *)
<1>3. ASSUME Waiting' = Waiting, Alive' = Alive,
             UNCHANGED <<totalQueued, recorded, lost>>
      PROVE  UNCHANGED Ledger!vars
  BY <1>3 DEF Waiting, Ledger!vars
<1>4. ASSUME NEW who, FlushEvents(queue, who), Alive' = Alive,
             UNCHANGED <<totalQueued, recorded, lost>>
      PROVE  UNCHANGED Ledger!vars
  <2>1. Waiting' = Waiting
    BY <1>1, <1>4, FlushEventsSplits DEF Waiting
  <2> QED BY <1>3, <1>4, <2>1
<1>5. CASE Accept
  <2> DEFINE x == totalQueued + 1
             q == Append(queue, x)
  <2>1. /\ x \in Events /\ Alive /\ Alive' /\ totalQueued' = x
        /\ UNCHANGED <<recorded, lost>> /\ totalQueued < MaxPushes
    BY <1>1, <1>5, BoundAssumption DEF Accept, Alive, Serving, Events
  <2> HIDE DEF x
  <2>2. q \in Seq(Events)
    BY <1>1, <2>1
  <2>3. Waiting' = IF committed THEN q ELSE batch \o q
    <3>1. CASE FlushEvents(q, Nobody)
      <4> HIDE DEF q
      <4> QED BY <1>1, <2>2, <3>1, FlushEventsSplits
    <3>2. CASE queue' = q /\ UNCHANGED <<flushing, batch, drainer, committed>>
      BY <3>2 DEF Waiting
    <3> QED BY <1>5, <3>1, <3>2 DEF Accept, x
  <2>4. batch \o q = Append(batch \o queue, x)
    BY <1>1, <2>1, ConcatAppend
  <2>5. Waiting' = Append(Waiting, x)
    BY <2>3, <2>4 DEF Waiting
  <2>6. Ledger!Accept
    BY <2>1, <2>5 DEF Ledger!Accept, Waiting, x
  <2> QED BY <2>6 DEF Ledger!Next
<1>6. CASE Refuse
  BY <1>3, <1>6 DEF Refuse, flushVars, Waiting, Alive, Serving
<1>7. CASE Timer
  BY <1>4, <1>7 DEF Timer, counters, Alive, Serving
<1>8. ASSUME NEW a \in Admins, AdminFlush(a) PROVE UNCHANGED Ledger!vars
  BY <1>4, <1>8 DEF AdminFlush, counters, Alive, Serving
<1>9. CASE Closed
  BY <1>4, <1>9 DEF Closed, counters, Alive
<1>10. CASE Commit
  <2>1. /\ Alive /\ Alive' /\ ~committed /\ committed' /\ queue' = queue
        /\ recorded' = recorded \o batch /\ batch # <<>>
        /\ UNCHANGED <<totalQueued, lost>>
    BY <1>1, <1>10 DEF Commit, Alive, counters, FlushType
  <2>2. Len(batch) \in 1 .. Len(Waiting) /\ Len(batch) \in 0 .. Len(batch)
    BY <1>1, <1>2, <2>1, EmptySeq DEF Waiting
  <2>3. SubSeq(batch \o queue, 1, Len(batch)) = batch
    BY <1>1, <2>2, ConcatParts, SubSeqFull
  <2>4. SubSeq(batch \o queue, Len(batch) + 1, Len(batch \o queue)) = queue
    BY <1>1, <2>2, ConcatParts
  <2>5. Ledger!Record(Len(batch))
    BY <2>1, <2>3, <2>4 DEF Ledger!Record
  <2> QED BY <2>2, <2>5 DEF Ledger!Next, Waiting
<1>11. ASSUME NEW q, NEW result, q \in Seq(Events), Alive, Finish(q, result)
       PROVE  Waiting' = q /\ Alive'
  BY <1>11, ConcatEmptySeq DEF Finish, Waiting, Alive
<1>12. CASE Flushed
  <2>1. Alive /\ Waiting = queue /\ UNCHANGED <<totalQueued, recorded, lost>>
    BY <1>12 DEF Flushed, Waiting
  <2>2. Waiting' = queue /\ Alive'
    <3>1. CASE drainer # Nobody /\ queue # <<>>
      <4>1. Start(queue, drainer) /\ phase' = phase
        BY <1>12, <3>1 DEF Flushed
      <4>2. Waiting' = queue
        BY <1>1, <3>1, <4>1, StartSplits DEF Waiting
      <4> QED BY <2>1, <4>1, <4>2 DEF Alive
    <3>2. CASE ~(drainer # Nobody /\ queue # <<>>)
      BY <1>1, <1>11, <1>12, <2>1, <3>2 DEF Flushed
    <3> QED BY <3>1, <3>2
  <2> QED BY <1>3, <2>1, <2>2
<1>13. CASE Failed
  <2> DEFINE n == Least(Room, Len(batch))
             kept == SubSeq(batch, 1, n)
             gone == SubSeq(batch, n + 1, Len(batch))
  <2>1. n \in 0 .. Len(batch)
    BY <1>1, QueueAssumption DEF Least, Room
  <2>2. /\ Alive /\ ~committed
        /\ Finish(kept \o queue, "error")
        /\ lost' = lost \cup Elements(gone)
        /\ UNCHANGED <<recorded, totalQueued>>
    BY <1>1, <1>13 DEF Failed, TypeOK, Requeued
  <2> HIDE DEF n
  <2>3. /\ kept \in Seq(Events) /\ Len(kept) = n
        /\ gone \in Seq(Events) /\ Len(gone) = Len(batch) - n
    BY <1>1, <2>1, Cut
  <2>4. kept \o queue \in Seq(Events)
    BY <1>1, <2>3, ConcatProperties
  <2>5. Waiting' = kept \o queue /\ Alive'
    BY <1>11, <2>2, <2>4
  <2>6. CASE n = Len(batch)
    <3>1. kept = batch
      BY <1>1, <2>6, SubSeqFull
    <3>2. Elements(gone) = {}
      <4>1. DOMAIN gone = {}
        BY <1>1, <2>3, <2>6, LenProperties
      <4> HIDE DEF gone
      <4> QED BY <4>1 DEF Elements
    <3>3. Waiting' = Waiting /\ UNCHANGED <<totalQueued, recorded, lost>>
      BY <2>2, <2>5, <3>1, <3>2 DEF Waiting
    <3> QED BY <1>3, <2>2, <2>5, <3>3
  <2>7. CASE n # Len(batch)
    <3> DEFINE w == batch \o queue
    <3>0. PICK i : i = n + 1
      OBVIOUS
    <3>1. /\ i \in 1 .. Len(w) /\ Len(batch) \in i .. Len(w)
          /\ i - 1 = n /\ n \in Nat
      BY <1>1, <1>2, <2>1, <2>7, <3>0
    <3>2. SubSeq(w, 1, n) = kept /\ SubSeq(w, Len(batch) + 1, Len(w)) = queue
      BY <1>1, <2>1, ConcatParts
    <3>3. Elements(gone) = {w[k] : k \in i .. Len(batch)}
      <4>1. /\ DOMAIN gone = 1 .. Len(batch) - n
            /\ \A m \in 1 .. Len(batch) - n : gone[m] = batch[n + m]
        BY <1>1, <2>1, <2>3, LenProperties
      <4>2. \A k \in n + 1 .. Len(batch) : w[k] = batch[k]
        BY <1>1, <2>1, ConcatProperties
      <4>3. \A k \in n + 1 .. Len(batch) :
              k - n \in 1 .. Len(batch) - n /\ n + (k - n) = k
        BY <1>1, <2>1
      <4>4. \A m \in 1 .. Len(batch) - n : n + m \in n + 1 .. Len(batch)
        BY <1>1, <2>1
      <4> HIDE DEF gone, w
      <4> QED BY <3>0, <4>1, <4>2, <4>3, <4>4 DEF Elements
    <3>4. Waiting = w /\ Waiting' = SubSeq(w, 1, n) \o SubSeq(w, Len(batch) + 1, Len(w))
      BY <2>2, <2>5, <3>2 DEF Waiting
    <3> HIDE DEF w, gone, kept
    <3>5. lost' = lost \cup {Waiting[k] : k \in i .. Len(batch)}
      BY <2>2, <3>3, <3>4
    <3>6. Waiting' = SubSeq(Waiting, 1, i - 1)
                       \o SubSeq(Waiting, Len(batch) + 1, Len(Waiting))
      BY <3>1, <3>4
    <3>7. Alive /\ Alive' /\ UNCHANGED <<totalQueued, recorded>>
      BY <2>2, <2>5
    <3>8. Ledger!Lose(i, Len(batch))
      BY <3>5, <3>6, <3>7, LedgerLose
    <3> QED BY <3>1, <3>4, <3>8 DEF Ledger!Next, Waiting
  <2> QED BY <2>6, <2>7
<1>14. CASE Terminate
  BY <1>3, <1>14 DEF Terminate, flushVars, counters, Waiting, Alive
<1>15. CASE Exit \/ ForceExit
  <2>1. /\ Alive /\ ~Alive' /\ Waiting' = Waiting
        /\ UNCHANGED <<totalQueued, recorded, lost>>
    BY <1>15 DEF Exit, ForceExit, flushVars, counters, Waiting, Alive
  <2>2. Ledger!End
    BY <2>1 DEF Ledger!End, Waiting
  <2> QED BY <2>2 DEF Ledger!Next
<1>16. CASE UNCHANGED vars
  BY <1>3, <1>16 DEF vars, flushVars, counters, Waiting, Alive
<1> QED
  BY <1>5, <1>6, <1>7, <1>8, <1>9, <1>10, <1>12, <1>13, <1>14, <1>15, <1>16
  DEF Next

(* The queue implements the ledger until the answer of a commit is lost:     *)
(* each accepted event is recorded once, in order, or lost, or still pending. *)
THEOREM QueueImplementsLedger == Spec => ImplementsLedger
<1>1. AccountInv /\ [Next]_vars => [lostAcks' = 0 => Ledger!Next]_(Ledger!vars)
  <2>1. ASSUME AccountInv, [Next]_vars, lostAcks' = 0
        PROVE  [Ledger!Next]_(Ledger!vars)
    BY <2>1, LedgerNext
  <2> QED BY <2>1
<1> QED
  BY LedgerInit, AccountInit, AccountNext, <1>1, PTL
  DEF Spec, ImplementsLedger

-----------------------------------------------------------------------------
(* Drops, and recounts *)

(* Every dropped event leaves the queue full: a push is refused because it   *)
(* is, and of a failed batch what is dropped is what there is no room for.   *)
THEOREM QueueDropsOnlyWhenFull == Spec => DropsOnlyWhenFull
<1>1. AccountInv /\ [Next]_vars =>
        [totalDropped' > totalDropped => Len(queue') = MaxQueue]_vars
  <2> SUFFICES ASSUME AccountInv, Next, totalDropped' > totalDropped
               PROVE  Len(queue') = MaxQueue
    OBVIOUS
  <2>1. /\ queue \in Seq(Events) /\ batch \in Seq(Events)
        /\ Len(queue) \in 0 .. MaxQueue /\ Len(batch) \in Nat
        /\ totalDropped \in Nat /\ MaxQueue \in Nat
    BY QueueAssumption, LenProperties DEF AccountInv, TypeOK, FlushType
  <2>2. Refuse \/ Failed
    <3>1. UNCHANGED totalDropped => FALSE
      BY <2>1
    <3> QED
      BY <3>1 DEF Next, Accept, Timer, Commit, Flushed, AdminFlush, Terminate,
                  Closed, Exit, ForceExit, counters
  <2>3. CASE Refuse
    BY <2>1, <2>3 DEF Refuse, Full, flushVars
  <2>4. CASE Failed
    <3> DEFINE n == Least(Room, Len(batch))
               kept == SubSeq(batch, 1, n)
    <3>1. n \in 0 .. Len(batch) /\ (n = Len(batch) \/ n = MaxQueue - Len(queue))
      BY <2>1 DEF Least, Room
    <3>2. totalDropped' = totalDropped + (Len(batch) - n)
      BY <2>4 DEF Failed
    <3>4. queue' = kept \o queue
      BY <2>4 DEF Failed, Finish, Requeued
    <3> HIDE DEF n
    <3>3. n = MaxQueue - Len(queue)
      BY <2>1, <3>1, <3>2
    <3>5. kept \in Seq(Events) /\ Len(kept) = n
      BY <2>1, <3>1, Cut
    <3>6. Len(queue') = n + Len(queue)
      BY <2>1, <3>4, <3>5, ConcatProperties
    <3> QED BY <2>1, <3>1, <3>3, <3>6
  <2> QED BY <2>2, <2>3, <2>4
<1> QED
  BY AccountInit, AccountNext, <1>1, PTL DEF Spec, DropsOnlyWhenFull

(* Where e is in a sequence, and a sequence in which nothing is twice. *)
Positions(s, e) == {i \in DOMAIN s : s[i] = e}
NoRepeats(s) == \A i, j \in DOMAIN s : s[i] = s[j] => i = j

(* The batch and what is queued behind it: in memory. *)
Held == batch \o queue

(* An event is in memory once, under a number given out already; it has been *)
(* recorded once per lost answer, and once more only if it no longer waits.  *)
RecountInv ==
  /\ AccountInv
  /\ NoRepeats(Held)
  /\ \A e \in Elements(Held) \cup Elements(recorded) : e <= totalQueued
  /\ \A e \in Events :
       Cardinality(Positions(recorded, e))
         + (IF e \in Elements(Waiting) THEN 1 ELSE 0) <= 1 + lostAcks

(* In two sequences, the second without repeats, an event is as often as in  *)
(* the first, and once more when it is in the second.                        *)
LEMMA PositionsConcat ==
  ASSUME NEW r \in Seq(Events), NEW b \in Seq(Events), NoRepeats(b), NEW e
  PROVE  /\ Cardinality(Positions(r, e)) \in Nat
         /\ Cardinality(Positions(r \o b, e)) =
              Cardinality(Positions(r, e)) + (IF e \in Elements(b) THEN 1 ELSE 0)
<1>1. /\ r \o b \in Seq(Events) /\ Len(r \o b) = Len(r) + Len(b)
      /\ Len(r) \in Nat /\ Len(b) \in Nat
      /\ DOMAIN r = 1 .. Len(r) /\ DOMAIN b = 1 .. Len(b)
      /\ DOMAIN (r \o b) = 1 .. Len(r) + Len(b)
      /\ \A i \in 1 .. Len(r) + Len(b) :
           (r \o b)[i] = IF i <= Len(r) THEN r[i] ELSE b[i - Len(r)]
  BY ConcatProperties, LenProperties
<1>2. IsFiniteSet(Positions(r, e)) /\ Cardinality(Positions(r, e)) \in Nat
  <2> DEFINE n == Len(r)
  <2>1. IsFiniteSet(1 .. n)
    <3>1. n \in Int /\ 1 \in Int
      BY <1>1
    <3> HIDE DEF n
    <3> QED BY <3>1, FS_Interval
  <2>2. Positions(r, e) \in SUBSET (1 .. n)
    BY <1>1 DEF Positions
  <2> QED BY <2>1, <2>2, FS_Subset, FS_CardinalityType
<1>3. CASE e \in Elements(b)
  <2>1. PICK k \in 1 .. Len(b) : b[k] = e
    BY <1>1, <1>3 DEF Elements
  <2>2. \A j \in 1 .. Len(b) : b[j] = e => j = k
    BY <1>1, <2>1 DEF NoRepeats
  <2>3. Positions(r \o b, e) = Positions(r, e) \cup {Len(r) + k}
    <3>1. \A i \in 1 .. Len(r) + Len(b) :
            (r \o b)[i] = e <=> (i <= Len(r) /\ r[i] = e) \/ i = Len(r) + k
      <4> TAKE i \in 1 .. Len(r) + Len(b)
      <4>1. CASE i <= Len(r)
        BY <1>1, <2>1, <4>1
      <4>2. CASE ~(i <= Len(r))
        <5>1. i - Len(r) \in 1 .. Len(b) /\ (r \o b)[i] = b[i - Len(r)]
          BY <1>1, <4>2
        <5>2. b[i - Len(r)] = e <=> i - Len(r) = k
          BY <2>1, <2>2, <5>1
        <5> QED BY <1>1, <2>1, <4>2, <5>1, <5>2
      <4> QED BY <4>1, <4>2
    <3> QED BY <1>1, <2>1, <3>1 DEF Positions
  <2>4. Len(r) + k \notin Positions(r, e)
    BY <1>1, <2>1 DEF Positions
  <2> QED BY <1>2, <1>3, <2>3, <2>4, FS_AddElement
<1>4. CASE e \notin Elements(b)
  <2>1. \A j \in 1 .. Len(b) : b[j] # e
    BY <1>1, <1>4 DEF Elements
  <2>2. \A i \in 1 .. Len(r) + Len(b) :
          (r \o b)[i] = e <=> i <= Len(r) /\ r[i] = e
    <3> TAKE i \in 1 .. Len(r) + Len(b)
    <3>1. CASE ~(i <= Len(r))
      <4>1. i - Len(r) \in 1 .. Len(b)
        BY <1>1, <3>1
      <4> QED BY <1>1, <2>1, <3>1, <4>1
    <3> QED BY <1>1, <3>1
  <2>3. Positions(r \o b, e) = Positions(r, e)
    BY <1>1, <2>2 DEF Positions
  <2> QED BY <1>2, <1>4, <2>3
<1> QED BY <1>2, <1>3, <1>4

(* The parts of a concatenation without repeats. *)
LEMMA NoRepeatsParts ==
  ASSUME NEW s \in Seq(Events), NEW t \in Seq(Events)
  PROVE  /\ Elements(s \o t) = Elements(s) \cup Elements(t)
         /\ NoRepeats(s \o t) <=> /\ NoRepeats(s) /\ NoRepeats(t)
                                 /\ Elements(s) \cap Elements(t) = {}
<1>1. /\ Len(s) \in Nat /\ Len(t) \in Nat
      /\ DOMAIN s = 1 .. Len(s) /\ DOMAIN t = 1 .. Len(t)
      /\ s \o t \in Seq(Events) /\ DOMAIN (s \o t) = 1 .. Len(s) + Len(t)
      /\ \A i \in 1 .. Len(s) + Len(t) :
           (s \o t)[i] = IF i <= Len(s) THEN s[i] ELSE t[i - Len(s)]
  BY ConcatProperties, LenProperties
<1>2. \A i \in 1 .. Len(s) : i \in 1 .. Len(s) + Len(t) /\ (s \o t)[i] = s[i]
  BY <1>1
<1>3. \A i \in 1 .. Len(t) :
        Len(s) + i \in 1 .. Len(s) + Len(t) /\ (s \o t)[Len(s) + i] = t[i]
  BY <1>1
<1>4. \A i \in 1 .. Len(s) + Len(t) :
        i \in 1 .. Len(s) \/ \E j \in 1 .. Len(t) : i = Len(s) + j
  <2> SUFFICES ASSUME NEW i \in 1 .. Len(s) + Len(t), i \notin 1 .. Len(s)
               PROVE  \E j \in 1 .. Len(t) : i = Len(s) + j
    OBVIOUS
  <2>1. i - Len(s) \in 1 .. Len(t) /\ i = Len(s) + (i - Len(s))
    BY <1>1
  <2> QED BY <2>1
<1>5. Elements(s \o t) = Elements(s) \cup Elements(t)
  <2>1. ASSUME NEW i \in 1 .. Len(s) + Len(t)
        PROVE  (s \o t)[i] \in Elements(s) \cup Elements(t)
    <3>1. CASE i \in 1 .. Len(s)
      BY <1>1, <1>2, <3>1 DEF Elements
    <3>2. CASE \E j \in 1 .. Len(t) : i = Len(s) + j
      BY <1>1, <1>3, <3>2 DEF Elements
    <3> QED BY <1>4, <3>1, <3>2
  <2>2. ASSUME NEW i \in 1 .. Len(s) PROVE s[i] \in Elements(s \o t)
    <3>1. i \in DOMAIN (s \o t) /\ (s \o t)[i] = s[i]
      BY <1>1, <1>2
    <3> QED BY <3>1 DEF Elements
  <2>3. ASSUME NEW i \in 1 .. Len(t) PROVE t[i] \in Elements(s \o t)
    <3>1. Len(s) + i \in DOMAIN (s \o t) /\ (s \o t)[Len(s) + i] = t[i]
      BY <1>1, <1>3
    <3> QED BY <3>1 DEF Elements
  <2>4. Elements(s) \subseteq Elements(s \o t) /\ Elements(t) \subseteq Elements(s \o t)
    BY <1>1, <2>2, <2>3 DEF Elements
  <2>5. Elements(s \o t) \subseteq Elements(s) \cup Elements(t)
    BY <1>1, <2>1 DEF Elements
  <2> QED BY <2>4, <2>5
<1>6. ASSUME NoRepeats(s \o t)
      PROVE  NoRepeats(s) /\ NoRepeats(t) /\ Elements(s) \cap Elements(t) = {}
  <2>1. NoRepeats(s)
    BY <1>1, <1>2, <1>6 DEF NoRepeats
  <2>2. NoRepeats(t)
    <3> SUFFICES ASSUME NEW i \in 1 .. Len(t), NEW j \in 1 .. Len(t), t[i] = t[j]
                 PROVE  i = j
      BY <1>1 DEF NoRepeats
    <3>1. Len(s) + i = Len(s) + j
      BY <1>1, <1>3, <1>6 DEF NoRepeats
    <3> QED BY <1>1, <3>1
  <2>3. ASSUME NEW i \in 1 .. Len(s), NEW j \in 1 .. Len(t), s[i] = t[j]
        PROVE  FALSE
    <3>1. i = Len(s) + j
      BY <1>1, <1>2, <1>3, <1>6, <2>3 DEF NoRepeats
    <3> QED BY <1>1, <3>1
  <2> QED BY <1>1, <2>1, <2>2, <2>3 DEF Elements
<1>7. ASSUME NoRepeats(s), NoRepeats(t), Elements(s) \cap Elements(t) = {}
      PROVE  NoRepeats(s \o t)
  <2>1. \A i \in 1 .. Len(s), j \in 1 .. Len(t) : s[i] # t[j]
    BY <1>1, <1>7 DEF Elements
  <2> SUFFICES ASSUME NEW i \in 1 .. Len(s) + Len(t), NEW j \in 1 .. Len(s) + Len(t),
                      (s \o t)[i] = (s \o t)[j]
               PROVE  i = j
    BY <1>1 DEF NoRepeats
  <2>2. CASE i \in 1 .. Len(s) /\ j \in 1 .. Len(s)
    BY <1>1, <1>2, <1>7, <2>2 DEF NoRepeats
  <2>3. CASE i \in 1 .. Len(s) /\ j \notin 1 .. Len(s)
    BY <1>2, <1>3, <1>4, <2>1, <2>3
  <2>4. CASE i \notin 1 .. Len(s) /\ j \in 1 .. Len(s)
    BY <1>2, <1>3, <1>4, <2>1, <2>4
  <2>5. CASE i \notin 1 .. Len(s) /\ j \notin 1 .. Len(s)
    <3>1. PICK k \in 1 .. Len(t), m \in 1 .. Len(t) : i = Len(s) + k /\ j = Len(s) + m
      BY <1>4, <2>5
    <3>2. t[k] = t[m]
      BY <1>3, <3>1
    <3> QED BY <1>1, <1>7, <3>1, <3>2 DEF NoRepeats
  <2> QED BY <2>2, <2>3, <2>4, <2>5
<1> QED BY <1>5, <1>6, <1>7

(* A flush that starts moves nothing in or out of memory. *)
LEMMA FlushEventsHolds ==
  ASSUME FlushType, NEW q \in Seq(Events), NEW who, FlushEvents(q, who)
  PROVE  Held' = batch \o q
<1>1. CASE NothingToDo(q)
  BY <1>1 DEF FlushEvents, Held
<1>2. CASE ~NothingToDo(q)
  <2>1. Start(q, who) /\ q # <<>> /\ batch = <<>>
    BY <1>2 DEF FlushEvents, NothingToDo, FlushType
  <2> QED BY <2>1, StartSplits, ConcatEmptySeq DEF Held
<1> QED BY <1>1, <1>2

(* Nothing is in memory, nothing recorded. *)
LEMMA RecountInit == Init => RecountInv
<1> SUFFICES ASSUME Init PROVE RecountInv
  OBVIOUS
<1>1. Held = <<>> /\ Waiting = <<>> /\ recorded = <<>>
  BY EmptySeq, ConcatEmptySeq DEF Init, Held, Waiting
<1>2. DOMAIN <<>> = {}
  BY EmptySeq
<1>3. Elements(<<>>) = {} /\ NoRepeats(<<>>) /\ \A e : Positions(<<>>, e) = {}
  BY <1>2 DEF Elements, NoRepeats, Positions
<1>4. lostAcks = 0
  BY DEF Init
<1>5. NoRepeats(Held) /\ Elements(Held) = {} /\ Elements(recorded) = {} /\ Elements(Waiting) = {}
  BY <1>1, <1>3
<1>6. \A e : Cardinality(Positions(recorded, e)) = 0
  BY <1>1, <1>3, FS_EmptySet
<1>7. AccountInv
  BY AccountInit
<1> QED BY <1>4, <1>5, <1>6, <1>7 DEF RecountInv

(* Every step keeps events apart and counts the answers that it loses: one   *)
(* step of the proof per kind of action.                                     *)
LEMMA RecountNext == RecountInv /\ [Next]_vars => RecountInv'
<1> SUFFICES ASSUME RecountInv, [Next]_vars PROVE RecountInv'
  OBVIOUS
<1>1. /\ TypeOK /\ FlushType /\ AccountInv /\ AccountInv'
      /\ queue \in Seq(Events) /\ batch \in Seq(Events)
      /\ recorded \in Seq(Events) /\ totalQueued \in 0 .. MaxPushes
      /\ lostAcks \in Nat /\ lostAcks' \in Nat /\ totalQueued' \in Nat
  <2>1. AccountInv /\ AccountInv'
    BY AccountNext DEF RecountInv
  <2>2. TypeOK /\ FlushType /\ TypeOK'
    BY <2>1 DEF AccountInv, TypeOK
  <2>3. /\ queue \in Seq(Events) /\ batch \in Seq(Events)
        /\ recorded \in Seq(Events) /\ totalQueued \in 0 .. MaxPushes
        /\ lostAcks \in Nat
    BY <2>2 DEF TypeOK, FlushType
  <2>4. lostAcks' \in Nat /\ totalQueued' \in Nat
    BY <2>2, BoundAssumption DEF TypeOK
  <2> QED BY <2>1, <2>2, <2>3, <2>4
<1> USE BoundAssumption
<1>2. /\ NoRepeats(Held)
      /\ \A e \in Elements(Held) \cup Elements(recorded) : e <= totalQueued
      /\ \A e \in Events :
           Cardinality(Positions(recorded, e))
             + (IF e \in Elements(Waiting) THEN 1 ELSE 0) <= 1 + lostAcks
  BY DEF RecountInv
<1>3. /\ Elements(Held) = Elements(batch) \cup Elements(queue)
      /\ NoRepeats(batch) /\ NoRepeats(queue)
      /\ Elements(batch) \cap Elements(queue) = {}
      /\ Elements(Held) \subseteq Events
      /\ Elements(queue) \subseteq Elements(Waiting)
      /\ Elements(Waiting) \subseteq Elements(Held)
  <2>1. \A s \in Seq(Events) : Elements(s) \subseteq Events
    BY LenProperties, ElementOfSeq DEF Elements
  <2> QED BY <1>1, <1>2, <2>1, NoRepeatsParts DEF Held, Waiting
<1>4. /\ \A e : Cardinality(Positions(recorded, e)) \in Nat
      /\ \A s : NoRepeats(s) /\ s \in Seq(Events) => \A e :
           Cardinality(Positions(recorded \o s, e)) =
             Cardinality(Positions(recorded, e)) + (IF e \in Elements(s) THEN 1 ELSE 0)
  <2>1. NoRepeats(<<>>) /\ <<>> \in Seq(Events)
    BY EmptySeq DEF NoRepeats
  <2> QED BY <1>1, <2>1, PositionsConcat
(* A step that only takes events out of memory, if any. *)
<1>5. ASSUME NoRepeats(Held'), Elements(Held') \subseteq Elements(Held),
             UNCHANGED <<recorded, totalQueued>>,
             \/ lostAcks' = lostAcks /\ Elements(Waiting') \subseteq Elements(Waiting)
             \/ lostAcks' = lostAcks + 1
      PROVE  RecountInv'
  <2>1. ASSUME NEW e \in Events
        PROVE  Cardinality(Positions(recorded, e))
                 + (IF e \in Elements(Waiting') THEN 1 ELSE 0) <= 1 + lostAcks'
    <3>1. /\ Cardinality(Positions(recorded, e)) \in Nat
          /\ Cardinality(Positions(recorded, e))
               + (IF e \in Elements(Waiting) THEN 1 ELSE 0) <= 1 + lostAcks
      BY <1>2, <1>4
    <3>2. CASE lostAcks' = lostAcks /\ Elements(Waiting') \subseteq Elements(Waiting)
      BY <1>1, <3>1, <3>2
    <3>3. CASE lostAcks' = lostAcks + 1
      BY <1>1, <3>1, <3>3
    <3> QED BY <1>5, <3>2, <3>3
  <2>2. Positions(recorded, 0)' = Positions(recorded, 0) /\ recorded' = recorded
    BY <1>5
  <2>3. \A e \in Elements(Held') \cup Elements(recorded') : e <= totalQueued'
    BY <1>2, <1>5
  <2> QED BY <1>1, <1>5, <2>1, <2>2, <2>3 DEF RecountInv
<1>6. ASSUME NEW who, FlushEvents(queue, who), UNCHANGED <<recorded, totalQueued, lostAcks>>
      PROVE  RecountInv'
  <2>1. Held' = Held /\ Waiting' = Waiting
    BY <1>1, <1>6, FlushEventsHolds, FlushEventsSplits DEF Held, Waiting
  <2> QED BY <1>2, <1>5, <1>6, <2>1
<1>7. ASSUME UNCHANGED <<flushVars, recorded, totalQueued, lostAcks>> PROVE RecountInv'
  <2>1. Held' = Held /\ Waiting' = Waiting
    BY <1>7 DEF flushVars, Held, Waiting
  <2> QED BY <1>2, <1>5, <1>7, <2>1
<1>8. CASE Accept
  <2> DEFINE x == totalQueued + 1
             q == Append(queue, x)
  <2>1. /\ x \in Events /\ totalQueued' = x
        /\ UNCHANGED <<recorded, lostAcks>>
    BY <1>1, <1>8 DEF Accept, Events, TypeOK, AccountInv
  <2> HIDE DEF x
  <2>2. q \in Seq(Events) /\ q = queue \o <<x>> /\ <<x>> \in Seq(Events)
    BY <1>1, <2>1
  <2>3. Held' = batch \o q /\ Waiting' = IF committed THEN q ELSE batch \o q
    <3>1. CASE FlushEvents(q, Nobody)
      <4> HIDE DEF q
      <4> QED BY <1>1, <2>2, <3>1, FlushEventsHolds, FlushEventsSplits
    <3>2. CASE queue' = q /\ UNCHANGED <<flushing, batch, drainer, committed>>
      BY <3>2 DEF Waiting, Held
    <3> QED BY <1>8, <3>1, <3>2 DEF Accept, x
  <2>4. Elements(<<x>>) = {x} /\ NoRepeats(<<x>>)
    BY DEF Elements, NoRepeats
  <2>5. x \notin Elements(Held) /\ x \notin Elements(recorded)
    BY <1>1, <1>2 DEF x
  <2>6. Elements(q) = Elements(queue) \cup {x} /\ NoRepeats(q)
    <3>1. Elements(queue) \cap {x} = {}
      BY <1>3, <2>5
    <3> DEFINE u == <<x>>
    <3>2. /\ u \in Seq(Events) /\ NoRepeats(u) /\ Elements(u) = {x}
          /\ q = queue \o u
      BY <2>2, <2>4
    <3> HIDE DEF q, u
    <3>3. /\ Elements(queue \o u) = Elements(queue) \cup Elements(u)
          /\ NoRepeats(queue \o u)
      BY <1>1, <1>3, <3>1, <3>2, NoRepeatsParts
    <3> QED BY <3>2, <3>3
  <2>7. /\ Elements(Held') = Elements(Held) \cup {x} /\ NoRepeats(Held')
        /\ Elements(Waiting') = Elements(Waiting) \cup {x}
    <3>1. Elements(batch) \cap Elements(q) = {}
      BY <1>3, <2>5, <2>6
    <3> HIDE DEF q
    <3>2. /\ Elements(batch \o q) = Elements(batch) \cup Elements(q)
          /\ NoRepeats(batch \o q)
      BY <1>1, <1>3, <2>2, <2>6, <3>1, NoRepeatsParts
    <3>3. Elements(Held') = Elements(Held) \cup {x} /\ NoRepeats(Held')
      BY <1>3, <2>3, <2>6, <3>2
    <3>4. Waiting = IF committed THEN queue ELSE Held
      BY DEF Waiting, Held
    <3>5. Waiting' = IF committed THEN q ELSE Held'
      BY <2>3
    <3>6. Elements(Waiting') = Elements(Waiting) \cup {x}
      BY <2>6, <3>3, <3>4, <3>5
    <3> QED BY <3>3, <3>6
  <2>8. ASSUME NEW e \in Events
        PROVE  Cardinality(Positions(recorded, e))
                 + (IF e \in Elements(Waiting') THEN 1 ELSE 0) <= 1 + lostAcks
    <3>1. CASE e = x
      <4>1. Positions(recorded, e) = {}
        BY <2>5, <3>1 DEF Positions, Elements
      <4> QED BY <1>1, <4>1, FS_EmptySet
    <3>2. CASE e # x
      BY <1>2, <2>7, <3>2
    <3> QED BY <3>1, <3>2
  <2>9. \A e \in Elements(Held') \cup Elements(recorded) : e <= x
    <3>1. \A e \in Elements(recorded) : e \in Events
      BY <1>1, LenProperties, ElementOfSeq DEF Elements
    <3>2. \A e \in Elements(Held) \cup Elements(recorded) :
            e \in Nat /\ e <= totalQueued
      BY <1>2, <1>3, <3>1 DEF Events
    <3> QED BY <1>1, <2>7, <3>2 DEF x
  <2> QED BY <1>1, <2>1, <2>7, <2>8, <2>9 DEF RecountInv
<1>9. CASE Refuse
  BY <1>7, <1>9 DEF Refuse
<1>10. CASE Timer
  BY <1>6, <1>10 DEF Timer, counters
<1>11. ASSUME NEW a \in Admins, AdminFlush(a) PROVE RecountInv'
  BY <1>6, <1>11 DEF AdminFlush, counters
<1>12. CASE Closed
  BY <1>6, <1>12 DEF Closed, counters
<1>13. CASE Terminate \/ Exit \/ ForceExit
  BY <1>7, <1>13 DEF Terminate, Exit, ForceExit, counters
<1>14. CASE UNCHANGED vars
  BY <1>7, <1>14 DEF vars, counters
<1>15. CASE Commit
  <2>1. /\ Held' = Held /\ Waiting = Held /\ Waiting' = queue
        /\ recorded' = recorded \o batch
        /\ UNCHANGED <<totalQueued, lostAcks>>
    BY <1>15 DEF Commit, Held, Waiting, counters
  <2>2. ASSUME NEW e \in Events
        PROVE  Cardinality(Positions(recorded \o batch, e))
                 + (IF e \in Elements(queue) THEN 1 ELSE 0) <= 1 + lostAcks
    BY <1>1, <1>2, <1>3, <1>4, <2>1
  <2>3. Elements(recorded') = Elements(recorded) \cup Elements(batch)
    BY <1>1, <2>1, NoRepeatsParts
  <2>4. \A e \in Elements(Held') \cup Elements(recorded') : e <= totalQueued'
    BY <1>2, <1>3, <2>1, <2>3
  <2> QED BY <1>1, <1>2, <2>1, <2>2, <2>4 DEF RecountInv
<1>16. CASE Flushed
  <2>1. Waiting = queue /\ UNCHANGED <<recorded, totalQueued, lostAcks>>
    BY <1>16 DEF Flushed, Waiting
  <2>2. Held' = queue /\ Waiting' = queue
    <3>1. CASE drainer # Nobody /\ queue # <<>>
      <4>1. Start(queue, drainer)
        BY <1>16, <3>1 DEF Flushed
      <4> QED BY <1>1, <3>1, <4>1, StartSplits DEF Waiting, Held
    <3>2. CASE ~(drainer # Nobody /\ queue # <<>>)
      <4>1. Finish(queue, "ok")
        BY <1>16, <3>2 DEF Flushed
      <4> QED BY <1>1, <4>1, ConcatEmptySeq DEF Finish, Waiting, Held
    <3> QED BY <3>1, <3>2
  <2> QED BY <1>3, <1>5, <2>1, <2>2
<1>17. CASE Failed
  <2> DEFINE n == Least(Room, Len(batch))
             kept == SubSeq(batch, 1, n)
  <2>1. n \in 0 .. Len(batch)
    BY <1>1, QueueAssumption, LenProperties DEF Least, Room
  <2>2. /\ Finish(kept \o queue, "error") /\ UNCHANGED <<recorded, totalQueued>>
        /\ lostAcks' = lostAcks + (IF committed THEN 1 ELSE 0)
    BY <1>17 DEF Failed, Requeued
  <2> HIDE DEF n
  <2>3. /\ kept \in Seq(Events) /\ DOMAIN kept = 1 .. n /\ Len(batch) \in Nat
        /\ DOMAIN batch = 1 .. Len(batch) /\ \A i \in 1 .. n : kept[i] = batch[i]
    BY <1>1, <2>1, Cut, LenProperties
  <2>4. NoRepeats(kept) /\ Elements(kept) \subseteq Elements(batch)
    <3> HIDE DEF kept
    <3>1. 1 .. n \subseteq 1 .. Len(batch)
      BY <2>1, <2>3
    <3> QED BY <1>3, <2>3, <3>1 DEF NoRepeats, Elements
  <2> HIDE DEF kept
  <2>5. kept \o queue \in Seq(Events)
    BY <1>1, <2>3, ConcatProperties
  <2>6. Held' = kept \o queue /\ Waiting' = kept \o queue
    BY <2>2, <2>5, ConcatEmptySeq DEF Finish, Held, Waiting
  <2>7. /\ NoRepeats(kept \o queue)
        /\ Elements(kept \o queue) = Elements(kept) \cup Elements(queue)
    BY <1>1, <1>3, <2>3, <2>4, NoRepeatsParts
  <2>8. CASE committed
    BY <1>1, <1>3, <1>5, <2>2, <2>4, <2>6, <2>7, <2>8
  <2>9. CASE ~committed
    <3>1. Waiting = Held /\ lostAcks' = lostAcks
      BY <1>1, <2>2, <2>9 DEF Waiting, Held
    <3> QED BY <1>3, <1>5, <2>2, <2>4, <2>6, <2>7, <3>1
  <2> QED BY <2>8, <2>9
<1> QED
  BY <1>8, <1>9, <1>10, <1>11, <1>12, <1>13, <1>14, <1>15, <1>16, <1>17 DEF Next

(* However flushes and their answers fail, an event is counted once, and     *)
(* once more per lost answer at most; nothing is counted that was never       *)
(* accepted.                                                                  *)
THEOREM RecountsNeedLostAcks == Spec => []RecountsAreLostAcks
<1>1. RecountInv => RecountsAreLostAcks
  <2> SUFFICES ASSUME RecountInv, NEW e \in Events
               PROVE  /\ Cardinality(Positions(recorded, e)) <= 1 + lostAcks
                      /\ Cardinality(Positions(recorded, e)) > 0 => e <= totalQueued
    BY DEF RecountsAreLostAcks, Positions
  <2>1. recorded \in Seq(Events) /\ lostAcks \in Nat
    BY BoundAssumption DEF RecountInv, AccountInv, TypeOK
  <2>2. Cardinality(Positions(recorded, e)) \in Nat
    <3>1. NoRepeats(<<>>) /\ <<>> \in Seq(Events)
      BY EmptySeq DEF NoRepeats
    <3> QED BY <2>1, <3>1, PositionsConcat
  <2>3. Cardinality(Positions(recorded, e))
          + (IF e \in Elements(Waiting) THEN 1 ELSE 0) <= 1 + lostAcks
    BY DEF RecountInv
  <2>4. Positions(recorded, e) # {} => e \in Elements(recorded)
    BY DEF Positions, Elements
  <2>5. e \in Elements(recorded) => e <= totalQueued
    BY DEF RecountInv
  <2>6. CASE Positions(recorded, e) = {}
    BY <2>1, <2>6, FS_EmptySet
  <2>7. CASE Positions(recorded, e) # {}
    BY <2>1, <2>2, <2>3, <2>4, <2>5, <2>7
  <2> QED BY <2>6, <2>7
<1> QED BY RecountInit, RecountNext, <1>1, PTL DEF Spec
=============================================================================
