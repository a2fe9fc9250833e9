----------------------- MODULE DsMgrEventQueueProofs -----------------------
(***************************************************************************)
(* Proofs about the DSMgr event queue for every queue size, every number   *)
(* of events and every set of DS client threads.                           *)
(***************************************************************************)
EXTENDS DsMgrEventQueue, TLAPS

(* Which locks a thread holds follows from where it is, and the worker runs
   once startEventWorker has created it. *)
LocksMatchPcs ==
    /\ pc[Worker] = "not created" <=> pc[Main] \in {"start", "failed"}
    /\ owner["evtQMutex"] = Dispatch <=> pc[Dispatch] = "linking"
    /\ owner["evtQMutex"] = Worker <=> pc[Worker] \in {"test", "take"}
    /\ owner["evtQMutex"] = Main <=> pc[Main] = "stopping"
    /\ owner["evtQMutex"] \notin DsClients
    /\ owner["bus"] = Dispatch <=> pc[Dispatch] # "idle"
    /\ owner["bus"] = Worker <=> pc[Worker] \in {"in ds and bus", "in bus"}
    /\ owner["bus"] # Main
    /\ \A c \in DsClients : owner["bus"] = c <=> pc[c] = "in bus"
    /\ owner["ds"] = Worker <=> pc[Worker] \in {"in ds", "in ds, needs bus", "in ds and bus"}
    /\ owner["ds"] # Dispatch
    /\ owner["ds"] # Main
    /\ \A c \in DsClients : owner["ds"] = c <=> pc[c] \in {"needs bus", "in bus"}

(* The dispatcher's event is newer than every accepted one until it is linked. *)
ArrivedIsNewest ==
    /\ \A i \in 1..Len(accepted) : accepted[i] <= arrived
    /\ pc[Dispatch] \in {"handler", "linking"} =>
          arrived > 0 /\ \A i \in 1..Len(accepted) : accepted[i] < arrived

(* Stop is requested once, by the main thread, and only then the worker exits. *)
StopIsFinal ==
    /\ evtQStop => pc[Main] \in {"joining", "joined", "stopped"}
    /\ pc[Worker] = "exited" => evtQStop

(* The inductive invariant. *)
IInv ==
    /\ TypeOK
    /\ LocksMatchPcs
    /\ ListWellFormed
    /\ ArrivalOrder
    /\ ArrivedIsNewest
    /\ StopIsFinal
    /\ HeadNotNull

-----------------------------------------------------------------------------
(* The initial state satisfies the inductive invariant. *)
LEMMA InitIInv == Init => IInv
<1> SUFFICES ASSUME Init PROVE IInv
  OBVIOUS
<1>0. /\ evtQ = <<>> /\ evtQTail = NULL /\ evtQCount = 0
      /\ arrived = 0 /\ accepted = <<>> /\ processed = <<>>
  BY DEF Init
<1>1. TypeOK
  <2>1. evtQ \in Seq(Items) /\ accepted \in Seq(Items) /\ processed \in Seq(Items)
    BY <1>0
  <2>2. evtQTail \in Items \cup {NULL}
    BY <1>0
  <2>3. evtQCount \in 0..QueueMax /\ arrived \in 0..MaxEvents
    BY <1>0, QueueMaxAssumption, MaxEventsAssumption
  <2> USE DEF Init, Threads, Locks, Dispatch, Worker, Main
  <2>4. owner \in [Locks -> Threads \cup {NoThread}]
    OBVIOUS
  <2>5. pc \in [Threads -> DispatchPcs \cup WorkerPcs \cup MainPcs \cup ClientPcs]
    BY DEF DispatchPcs, WorkerPcs, MainPcs, ClientPcs
  <2>6. pc[Dispatch] \in DispatchPcs
    BY DEF DispatchPcs
  <2>7. pc[Worker] \in WorkerPcs /\ pc[Main] \in MainPcs
    BY DEF WorkerPcs, MainPcs
  <2>8. \A c \in DsClients : pc[c] \in ClientPcs
    BY DsClientsAssumption DEF ClientPcs
  <2>9. evtQStop \in BOOLEAN /\ evtWorkerStarted \in BOOLEAN
    OBVIOUS
  <2>10. QED
    BY <2>1, <2>2, <2>3, <2>4, <2>5, <2>6, <2>7, <2>8, <2>9 DEF TypeOK
<1>2. LocksMatchPcs
  BY NoThreadAssumption, DsClientsAssumption
     DEF LocksMatchPcs, Init, Threads, Locks, Dispatch, Worker, Main
<1>3. ListWellFormed
  BY <1>0 DEF ListWellFormed
<1>4. ArrivalOrder
  BY <1>0 DEF ArrivalOrder
<1>5. ArrivedIsNewest
  <2>1. pc[Dispatch] = "idle"
    BY DEF Init, Threads, Dispatch, Worker, Main
  <2>2. QED
    BY <1>0, <2>1 DEF ArrivedIsNewest
<1>6. StopIsFinal /\ HeadNotNull
  BY DEF StopIsFinal, HeadNotNull, Init, Threads, Dispatch, Worker, Main
<1>7. QED
  BY <1>1, <1>2, <1>3, <1>4, <1>5, <1>6 DEF IInv

-----------------------------------------------------------------------------
(* Where the threads are and who holds which lock. *)
PcType ==
    /\ owner \in [Locks -> Threads \cup {NoThread}]
    /\ pc \in [Threads -> DispatchPcs \cup WorkerPcs \cup MainPcs \cup ClientPcs]
    /\ pc[Dispatch] \in DispatchPcs
    /\ pc[Worker] \in WorkerPcs
    /\ pc[Main] \in MainPcs
    /\ \A c \in DsClients : pc[c] \in ClientPcs

(* Every step keeps each thread at a position of its own code and every lock
   with the thread whose position holds it. *)
LEMMA LocksStep ==
    ASSUME PcType, LocksMatchPcs, [Next]_vars
    PROVE  PcType' /\ LocksMatchPcs'
<1>0. CASE Ended \/ UNCHANGED vars
  <2>1. UNCHANGED <<owner, pc>>
    BY <1>0 DEF Ended, vars
  <2>2. QED
    BY <2>1 DEF PcType, LocksMatchPcs
<1> USE NoThreadAssumption, DsClientsAssumption
    DEF PcType, LocksMatchPcs, Threads, Locks, Dispatch, Worker, Main,
        DispatchPcs, WorkerPcs, MainPcs, ClientPcs, Goto, Lock, Release, SignalAndGoto
<1>1. CASE DispatchEvent
  BY <1>1 DEF DispatchEvent
<1>2. CASE HandlerEarlyReturn
  BY <1>2 DEF HandlerEarlyReturn
<1>3. CASE HandlerLock
  BY <1>3 DEF HandlerLock
<1>4. CASE HandlerDrop
  BY <1>4 DEF HandlerDrop
<1>5. CASE HandlerQueue
  BY <1>5 DEF HandlerQueue
<1>6. CASE HandlerReturn
  BY <1>6 DEF HandlerReturn
<1>7. CASE WorkerLock
  <2>1. CASE Lock(Worker, "evtQMutex", "loop", "test")
    BY <1>7, <2>1 DEF WorkerLock
  <2>2. CASE Lock(Worker, "evtQMutex", "woken", "test")
    BY <1>7, <2>2 DEF WorkerLock
  <2>3. QED
    BY <1>7, <2>1, <2>2 DEF WorkerLock
<1>8. CASE WorkerWait
  BY <1>8 DEF WorkerWait
<1>9. CASE WorkerLeaveWait
  BY <1>9 DEF WorkerLeaveWait
<1>10. CASE SpuriousWakeup
  BY <1>10 DEF SpuriousWakeup
<1>11. CASE WorkerDiscard
  BY <1>11 DEF WorkerDiscard
<1>12. CASE WorkerTake
  BY <1>12 DEF WorkerTake
<1>13. CASE ProcessEnterDs
  <2>1. CASE Lock(Worker, "ds", "process", "in ds")
    BY <1>13, <2>1 DEF ProcessEnterDs
  <2>2. CASE Lock(Worker, "ds", "process", "in ds, needs bus")
    BY <1>13, <2>2 DEF ProcessEnterDs
  <2>3. QED
    BY <1>13, <2>1, <2>2 DEF ProcessEnterDs
<1>14. CASE ProcessDsUsesBus
  BY <1>14 DEF ProcessDsUsesBus
<1>15. CASE ProcessDsLeavesBus
  BY <1>15 DEF ProcessDsLeavesBus
<1>16. CASE ProcessLeaveDs
  <2>1. CASE Goto(Worker, "in ds", "broadcast")
    BY <1>16, <2>1 DEF ProcessLeaveDs
  <2>2. CASE Goto(Worker, "in ds", "loop")
    BY <1>16, <2>2 DEF ProcessLeaveDs
  <2>3. QED
    BY <1>16, <2>1, <2>2 DEF ProcessLeaveDs
<1>17. CASE ProcessBroadcast
  BY <1>17 DEF ProcessBroadcast
<1>18. CASE ProcessDone
  BY <1>18 DEF ProcessDone
<1>19. CASE StartWorker
  <2>1. CASE pc' = [pc EXCEPT ![Main] = "registering", ![Worker] = "loop"]
    BY <1>19, <2>1 DEF StartWorker
  <2>2. CASE pc' = [pc EXCEPT ![Main] = "failed"]
    BY <1>19, <2>2 DEF StartWorker
  <2>3. QED
    BY <1>19, <2>1, <2>2 DEF StartWorker
<1>20. CASE RegisterHandlers
  BY <1>20 DEF RegisterHandlers
<1>21. CASE RequestStop
  BY <1>21 DEF RequestStop
<1>22. CASE StopLock
  BY <1>22 DEF StopLock
<1>23. CASE StopSignal
  BY <1>23 DEF StopSignal
<1>24. CASE StopJoin
  BY <1>24 DEF StopJoin
<1>25. CASE Disconnect
  BY <1>25 DEF Disconnect
<1>26. CASE \E c \in DsClients : ClientEnterDs(c)
  <2>1. PICK c \in DsClients : ClientEnterDs(c)
    BY <1>26
  <2>2. PcType'
    BY <2>1 DEF ClientEnterDs
  <2>3. LocksMatchPcs'
    BY <2>1 DEF ClientEnterDs
  <2>4. QED
    BY <2>2, <2>3
<1>27. CASE \E c \in DsClients : ClientEnterBus(c)
  <2>1. PICK c \in DsClients : ClientEnterBus(c)
    BY <1>27
  <2>2. PcType'
    BY <2>1 DEF ClientEnterBus
  <2>3. LocksMatchPcs'
    BY <2>1 DEF ClientEnterBus
  <2>4. QED
    BY <2>2, <2>3
<1>28. CASE \E c \in DsClients : ClientLeave(c)
  <2>1. PICK c \in DsClients : ClientLeave(c)
    BY <1>28
  <2>2. /\ pc' = [pc EXCEPT ![c] = "idle"]
        /\ owner' = [owner EXCEPT !["bus"] = NoThread, !["ds"] = NoThread]
        /\ owner["bus"] = c /\ owner["ds"] = c
    BY <2>1 DEF ClientLeave
  <2>3. c \notin {Dispatch, Worker, Main} /\ NoThread \notin Threads
    OBVIOUS
  <2>4. \A t \in Threads : pc'[t] = IF t = c THEN "idle" ELSE pc[t]
    BY <2>2
  <2>5. owner'["bus"] = NoThread /\ owner'["ds"] = NoThread /\ owner'["evtQMutex"] = owner["evtQMutex"]
    BY <2>2
  <2>6. PcType'
    BY <2>1 DEF ClientLeave
  <2>7. \A d \in DsClients : owner'["ds"] = d <=> pc'[d] \in {"needs bus", "in bus"}
    BY <2>2, <2>3, <2>4, <2>5
  <2>8. LocksMatchPcs'
    BY <2>2, <2>3, <2>4, <2>5, <2>7
  <2>9. QED
    BY <2>6, <2>8
<1>29. QED
  BY <1>0, <1>1, <1>2, <1>3, <1>4, <1>5, <1>6, <1>7, <1>8, <1>9, <1>10, <1>11, <1>12, <1>13, <1>14, <1>15, <1>16, <1>17, <1>18, <1>19, <1>20, <1>21, <1>22, <1>23, <1>24, <1>25, <1>26, <1>27, <1>28
     DEF Next, Handler, WorkerLoop, Process, Stop

-----------------------------------------------------------------------------
(* What is in the queue, and what has been accepted and processed. *)
DataType ==
    /\ evtQ \in Seq(Items)
    /\ evtQTail \in Items \cup {NULL}
    /\ evtQCount \in 0..QueueMax
    /\ evtQStop \in BOOLEAN
    /\ arrived \in 0..MaxEvents
    /\ accepted \in Seq(Items)
    /\ processed \in Seq(Items)

DataInv ==
    /\ DataType
    /\ ListWellFormed
    /\ ArrivalOrder
    /\ ArrivedIsNewest
    /\ StopIsFinal
    /\ HeadNotNull

(* A step that does not touch the queue and moves no thread to a position at
   which the invariant says something new. *)
Quiet ==
    /\ UNCHANGED <<evtQ, evtQTail, evtQCount, evtQStop, arrived, accepted, processed>>
    /\ pc'[Worker] = "exited" <=> pc[Worker] = "exited"
    /\ pc'[Worker] = "take" => pc[Worker] = "take"
    /\ pc'[Dispatch] \in {"handler", "linking"} => pc[Dispatch] \in {"handler", "linking"}
    /\ pc[Main] \in {"joining", "joined", "stopped"} => pc'[Main] \in {"joining", "joined", "stopped"}

(* A quiet step preserves every part of the invariant about the queue. *)
LEMMA QuietPreserves ==
    ASSUME DataInv, Quiet
    PROVE  DataInv'
<1>1. DataType' /\ ListWellFormed'
  BY DEF DataInv, Quiet, DataType, ListWellFormed
<1>2. ArrivalOrder'
  BY DEF DataInv, Quiet, ArrivalOrder
<1>3. ArrivedIsNewest'
  BY DEF DataInv, Quiet, ArrivedIsNewest
<1>4. StopIsFinal' /\ HeadNotNull'
  BY DEF DataInv, Quiet, StopIsFinal, HeadNotNull
<1>5. QED
  BY <1>1, <1>2, <1>3, <1>4 DEF DataInv

(* All steps are quiet except the ones that let an event in, link it, take it
   off the list, discard the list, start the worker or stop it. *)
LEMMA QuietSteps ==
    ASSUME PcType
    PROVE  /\ Handler => Quiet \/ HandlerQueue
           /\ WorkerLoop => Quiet \/ WorkerLeaveWait \/ WorkerDiscard \/ WorkerTake
           /\ SpuriousWakeup \/ Process \/ RegisterHandlers \/ RequestStop => Quiet
           /\ Stop => Quiet \/ StopSignal
           /\ \A c \in DsClients : ClientEnterDs(c) \/ ClientEnterBus(c) \/ ClientLeave(c) => Quiet
           /\ UNCHANGED vars => Quiet
<1> USE DsClientsAssumption
    DEF PcType, Threads, Dispatch, Worker, Main, Goto, Lock, Quiet, queueVars, histVars
<1>1. HandlerEarlyReturn => Quiet
  BY DEF HandlerEarlyReturn
<1>2. HandlerLock => Quiet
  BY DEF HandlerLock
<1>3. HandlerDrop => Quiet
  BY DEF HandlerDrop
<1>4. HandlerReturn => Quiet
  BY DEF HandlerReturn
<1>5. WorkerLock => Quiet
  BY DEF WorkerLock
<1>6. WorkerWait => Quiet
  BY DEF WorkerWait
<1>7. SpuriousWakeup => Quiet
  BY DEF SpuriousWakeup
<1>8. ProcessEnterDs => Quiet
  BY DEF ProcessEnterDs
<1>9. ProcessDsUsesBus => Quiet
  BY DEF ProcessDsUsesBus
<1>10. ProcessDsLeavesBus => Quiet
  BY DEF ProcessDsLeavesBus
<1>11. ProcessLeaveDs => Quiet
  BY DEF ProcessLeaveDs
<1>12. ProcessBroadcast => Quiet
  BY DEF ProcessBroadcast
<1>13. ProcessDone => Quiet
  BY DEF ProcessDone
<1>14. RegisterHandlers => Quiet
  BY DEF RegisterHandlers
<1>15. RequestStop => Quiet
  BY DEF RequestStop
<1>16. StopLock => Quiet
  BY DEF StopLock
<1>17. StopJoin => Quiet
  BY DEF StopJoin
<1>18. Disconnect => Quiet
  BY DEF Disconnect
<1>19. ASSUME NEW c \in DsClients, ClientEnterDs(c) \/ ClientEnterBus(c) \/ ClientLeave(c)
      PROVE  Quiet
  BY <1>19 DEF ClientEnterDs, ClientEnterBus, ClientLeave
<1>20. UNCHANGED vars => Quiet
  BY DEF vars
<1> HIDE DEF Quiet
<1>21. QED
  BY <1>1, <1>2, <1>3, <1>4, <1>5, <1>6, <1>7, <1>8, <1>9, <1>10, <1>11, <1>12, <1>13, <1>14, <1>15, <1>16, <1>17, <1>18, <1>19, <1>20 DEF Handler, WorkerLoop, Process, Stop

(* The callback lets an event in: its number is larger than any accepted. *)
LEMMA DispatchEventStep ==
    ASSUME PcType, LocksMatchPcs, DataInv, DispatchEvent
    PROVE  DataInv'
<1>1. /\ UNCHANGED <<evtQ, evtQTail, evtQCount, evtQStop, accepted, processed>>
      /\ arrived' = arrived + 1 /\ arrived < MaxEvents
  BY DEF DispatchEvent, queueVars
<1>2. pc'[Worker] = pc[Worker] /\ pc'[Main] = pc[Main]
  BY DEF DispatchEvent, Lock, Goto, PcType, Threads, Dispatch, Worker, Main
<1>3. DataType' /\ ListWellFormed'
  BY <1>1, MaxEventsAssumption DEF DataInv, DataType, ListWellFormed
<1>4. ArrivalOrder'
  BY <1>1, <1>2 DEF DataInv, ArrivalOrder
<1>5. ArrivedIsNewest'
  <2>1. arrived \in Nat /\ accepted \in Seq(Items)
    BY MaxEventsAssumption DEF DataInv, DataType
  <2>2. \A i \in 1..Len(accepted) : accepted[i] \in Nat /\ accepted[i] <= arrived
    BY <2>1, MaxEventsAssumption DEF DataInv, ArrivedIsNewest, Items
  <2>3. \A i \in 1..Len(accepted') : accepted'[i] < arrived'
    BY <1>1, <2>1, <2>2
  <2>4. QED
    BY <1>1, <2>1, <2>2, <2>3 DEF ArrivedIsNewest
<1>6. StopIsFinal' /\ HeadNotNull'
  BY <1>1, <1>2 DEF DataInv, StopIsFinal, HeadNotNull
<1>7. QED
  BY <1>3, <1>4, <1>5, <1>6 DEF DataInv

(* Linking an event: a well-formed list grows by that event at its end. *)
LEMMA HandlerQueueStep ==
    ASSUME PcType, LocksMatchPcs, DataInv, HandlerQueue
    PROVE  DataInv' /\ evtQ' = Append(evtQ, arrived)
<1>1. /\ ~evtQStop /\ evtQCount < QueueMax
      /\ evtQ' = Linked(arrived) /\ evtQTail' = arrived /\ evtQCount' = evtQCount + 1
      /\ accepted' = Append(accepted, arrived)
      /\ UNCHANGED <<evtQStop, arrived, processed>>
  BY DEF HandlerQueue
<1>2. /\ pc[Dispatch] = "linking" /\ pc'[Dispatch] = "return"
      /\ pc'[Main] = pc[Main]
      /\ pc'[Worker] = "take" => pc[Worker] = "take"
      /\ pc'[Worker] = "exited" <=> pc[Worker] = "exited"
  BY DEF HandlerQueue, SignalAndGoto, PcType, Threads, Dispatch, Worker, Main
<1>3. evtQ \in Seq(Items) /\ accepted \in Seq(Items) /\ processed \in Seq(Items)
  BY DEF DataInv, DataType
<1>4. arrived \in Items /\ arrived # NULL
  BY <1>2, MaxEventsAssumption DEF DataInv, DataType, ArrivedIsNewest, Items, NULL
<1>5. evtQ' = Append(evtQ, arrived)
  <2>1. CASE evtQ = <<>>
    BY <1>1, <1>4, <2>1 DEF DataInv, ListWellFormed, Linked, NULL
  <2>2. CASE evtQ # <<>>
    BY <1>1, <2>2 DEF DataInv, ListWellFormed, Linked
  <2>3. QED
    BY <2>1, <2>2
<1>6. /\ evtQ' \in Seq(Items) /\ Len(evtQ') = Len(evtQ) + 1
      /\ \A i \in 1..Len(evtQ) : evtQ'[i] = evtQ[i]
      /\ evtQ'[Len(evtQ) + 1] = arrived
  BY <1>3, <1>4, <1>5
<1>7. /\ accepted' \in Seq(Items) /\ Len(accepted') = Len(accepted) + 1
      /\ \A i \in 1..Len(accepted) : accepted'[i] = accepted[i]
      /\ accepted'[Len(accepted) + 1] = arrived
  BY <1>1, <1>3, <1>4
<1>8. DataType'
  BY <1>1, <1>3, <1>4, <1>6, <1>7, QueueMaxAssumption DEF DataInv, DataType
<1>9. ListWellFormed'
  BY <1>1, <1>3, <1>4, <1>6 DEF DataInv, ListWellFormed
<1>10. \A i \in 1..Len(accepted) : accepted[i] \in Nat /\ accepted[i] < arrived
  BY <1>2, <1>3, MaxEventsAssumption DEF DataInv, ArrivedIsNewest, Items
<1>11. Len(accepted) \in Nat /\ Len(processed) \in Nat /\ Len(evtQ) \in Nat /\ arrived \in Nat
  BY <1>3, MaxEventsAssumption DEF DataInv, DataType
<1>12. ArrivalOrder'
  <2>1. \A i, j \in 1..Len(accepted') : i < j => accepted'[i] < accepted'[j]
    <3> SUFFICES ASSUME NEW i \in 1..Len(accepted'), NEW j \in 1..Len(accepted'), i < j
                 PROVE  accepted'[i] < accepted'[j]
      OBVIOUS
    <3>1. i \in 1..Len(accepted)
      BY <1>7, <1>11
    <3>2. CASE j \in 1..Len(accepted)
      BY <1>7, <3>1, <3>2 DEF DataInv, ArrivalOrder
    <3>3. CASE j = Len(accepted) + 1
      BY <1>7, <1>10, <3>1, <3>3
    <3>4. QED
      BY <1>7, <1>11, <3>2, <3>3
  <2>2. Len(processed') <= Len(accepted')
    BY <1>1, <1>7, <1>11 DEF DataInv, ArrivalOrder
  <2>3. \A i \in 1..Len(processed') : processed'[i] = accepted'[i]
    BY <1>1, <1>7, <1>11 DEF DataInv, ArrivalOrder
  <2>4. ASSUME pc'[Worker] # "exited"
        PROVE  /\ Len(accepted') = Len(processed') + Len(evtQ')
               /\ \A i \in 1..Len(evtQ') : evtQ'[i] = accepted'[Len(processed') + i]
    <3>1. /\ Len(accepted) = Len(processed) + Len(evtQ)
          /\ \A i \in 1..Len(evtQ) : evtQ[i] = accepted[Len(processed) + i]
      BY <1>2, <2>4 DEF DataInv, ArrivalOrder
    <3>2. Len(accepted') = Len(processed') + Len(evtQ')
      BY <1>1, <1>6, <1>7, <1>11, <3>1
    <3>3. ASSUME NEW i \in 1..Len(evtQ')
          PROVE  evtQ'[i] = accepted'[Len(processed') + i]
      <4>1. CASE i \in 1..Len(evtQ)
        <5>1. Len(processed) + i \in 1..Len(accepted)
          BY <1>11, <3>1, <4>1
        <5>2. accepted'[Len(processed) + i] = accepted[Len(processed) + i]
          BY <1>7, <5>1
        <5>3. QED
          BY <1>1, <1>6, <3>1, <4>1, <5>2
      <4>2. CASE i = Len(evtQ) + 1
        BY <1>1, <1>6, <1>7, <1>11, <3>1, <4>2
      <4>3. QED
        BY <1>6, <1>11, <4>1, <4>2
    <3>4. QED
      BY <3>2, <3>3
  <2>5. QED
    BY <2>1, <2>2, <2>3, <2>4 DEF ArrivalOrder
<1>13. ArrivedIsNewest'
  <2>1. \A i \in 1..Len(accepted') : accepted'[i] <= arrived'
    BY <1>1, <1>7, <1>10, <1>11
  <2>2. QED
    BY <1>2, <2>1 DEF ArrivedIsNewest
<1>14. StopIsFinal'
  BY <1>1, <1>2 DEF DataInv, StopIsFinal
<1>15. HeadNotNull'
  BY <1>3, <1>5 DEF HeadNotNull
<1>16. QED
  BY <1>5, <1>8, <1>9, <1>12, <1>13, <1>14, <1>15 DEF DataInv

(* Leaving the wait loop: the loop condition is what HeadNotNull needs. *)
LEMMA WorkerLeaveWaitStep ==
    ASSUME PcType, LocksMatchPcs, DataInv, WorkerLeaveWait
    PROVE  DataInv'
<1>1. /\ UNCHANGED <<evtQ, evtQTail, evtQCount, evtQStop, arrived, accepted, processed>>
      /\ evtQ # <<>> \/ evtQStop
  BY DEF WorkerLeaveWait, queueVars, histVars
<1>2. /\ pc[Worker] = "test" /\ pc'[Worker] = "take"
      /\ pc'[Main] = pc[Main] /\ pc'[Dispatch] = pc[Dispatch]
  BY DEF WorkerLeaveWait, Goto, PcType, Threads, Dispatch, Worker, Main
<1>3. DataType' /\ ListWellFormed'
  BY <1>1 DEF DataInv, DataType, ListWellFormed
<1>4. ArrivalOrder'
  BY <1>1, <1>2 DEF DataInv, ArrivalOrder
<1>5. ArrivedIsNewest'
  BY <1>1, <1>2 DEF DataInv, ArrivedIsNewest
<1>6. StopIsFinal' /\ HeadNotNull'
  BY <1>1, <1>2 DEF DataInv, StopIsFinal, HeadNotNull
<1>7. QED
  BY <1>3, <1>4, <1>5, <1>6 DEF DataInv

(* Discarding the list at stop. *)
LEMMA WorkerDiscardStep ==
    ASSUME PcType, LocksMatchPcs, DataInv, WorkerDiscard
    PROVE  DataInv'
<1>1. /\ evtQ' = <<>> /\ evtQTail' = NULL /\ evtQCount' = 0 /\ evtQStop
      /\ UNCHANGED <<evtQStop, arrived, accepted, processed>>
  BY DEF WorkerDiscard, histVars
<1>2. /\ pc'[Worker] = "exited" /\ pc'[Main] = pc[Main] /\ pc'[Dispatch] = pc[Dispatch]
  BY DEF WorkerDiscard, Goto, PcType, Threads, Dispatch, Worker, Main
<1>3. DataType'
  BY <1>1, QueueMaxAssumption DEF DataInv, DataType
<1>4. ListWellFormed'
  BY <1>1 DEF ListWellFormed
<1>5. ArrivalOrder'
  BY <1>1, <1>2 DEF DataInv, ArrivalOrder
<1>6. ArrivedIsNewest'
  BY <1>1, <1>2 DEF DataInv, ArrivedIsNewest
<1>7. StopIsFinal' /\ HeadNotNull'
  BY <1>1, <1>2 DEF DataInv, StopIsFinal, HeadNotNull
<1>8. QED
  BY <1>3, <1>4, <1>5, <1>6, <1>7 DEF DataInv

(* Taking the head: it is the oldest accepted event not yet processed. *)
LEMMA WorkerTakeStep ==
    ASSUME PcType, LocksMatchPcs, DataInv, WorkerTake
    PROVE  /\ DataInv'
           /\ Len(processed) < Len(accepted)
           /\ processed' = Append(processed, accepted[Len(processed) + 1])
<1>1. /\ ~evtQStop /\ evtQ # <<>>
      /\ evtQ' = Tail(evtQ) /\ evtQCount' = evtQCount - 1
      /\ evtQTail' = IF Tail(evtQ) = <<>> THEN NULL ELSE evtQTail
      /\ processed' = Append(processed, evtQ[1])
      /\ UNCHANGED <<evtQStop, arrived, accepted>>
  BY DEF WorkerTake
<1>2. /\ pc[Worker] = "take" /\ pc'[Worker] = "process"
      /\ pc'[Main] = pc[Main] /\ pc'[Dispatch] = pc[Dispatch]
  BY DEF WorkerTake, Goto, PcType, Threads, Dispatch, Worker, Main
<1>3. evtQ \in Seq(Items) /\ accepted \in Seq(Items) /\ processed \in Seq(Items)
  BY DEF DataInv, DataType
<1>4. Len(accepted) \in Nat /\ Len(processed) \in Nat /\ Len(evtQ) \in Nat /\ Len(evtQ) > 0
  BY <1>1, <1>3
<1>5. /\ evtQ' \in Seq(Items) /\ Len(evtQ') = Len(evtQ) - 1
      /\ \A i \in 1..Len(evtQ) - 1 : evtQ'[i] = evtQ[i + 1]
  BY <1>1, <1>3, <1>4
<1>6. /\ processed' \in Seq(Items) /\ Len(processed') = Len(processed) + 1
      /\ \A i \in 1..Len(processed) : processed'[i] = processed[i]
      /\ processed'[Len(processed) + 1] = evtQ[1]
  BY <1>1, <1>3, <1>4
<1>7. /\ Len(accepted) = Len(processed) + Len(evtQ)
      /\ \A i \in 1..Len(evtQ) : evtQ[i] = accepted[Len(processed) + i]
      /\ \A i \in 1..Len(processed) : processed[i] = accepted[i]
  BY <1>2 DEF DataInv, ArrivalOrder
<1>8. evtQ[1] = accepted[Len(processed) + 1]
  BY <1>4, <1>7
<1>9. DataType'
  BY <1>1, <1>4, <1>5, <1>6, QueueMaxAssumption DEF DataInv, DataType, ListWellFormed
<1>10. ListWellFormed'
  <2>1. evtQCount' = Len(evtQ')
    BY <1>1, <1>4, <1>5 DEF DataInv, ListWellFormed
  <2>2. CASE Len(evtQ) = 1
    <3>1. evtQ' = <<>>
      BY <1>5, <2>2
    <3>2. QED
      BY <1>1, <2>1, <3>1 DEF ListWellFormed
  <2>3. CASE Len(evtQ) > 1
    <3>1. evtQ' # <<>>
      BY <1>4, <1>5, <2>3
    <3>2. evtQTail' = evtQTail /\ evtQTail = evtQ[Len(evtQ)] /\ evtQTail # NULL
      BY <1>1, <3>1 DEF DataInv, ListWellFormed
    <3>3. evtQ'[Len(evtQ')] = evtQ[Len(evtQ)]
      BY <1>4, <1>5, <2>3
    <3>4. QED
      BY <2>1, <3>1, <3>2, <3>3 DEF ListWellFormed
  <2>4. QED
    BY <1>4, <2>2, <2>3
<1>11. ArrivalOrder'
  <2>1. \A i, j \in 1..Len(accepted') : i < j => accepted'[i] < accepted'[j]
    BY <1>1 DEF DataInv, ArrivalOrder
  <2>2. Len(processed') <= Len(accepted')
    BY <1>1, <1>4, <1>6, <1>7
  <2>3. ASSUME NEW i \in 1..Len(processed')
        PROVE  processed'[i] = accepted'[i]
    <3>1. CASE i \in 1..Len(processed)
      BY <1>1, <1>6, <1>7, <3>1
    <3>2. CASE i = Len(processed) + 1
      BY <1>1, <1>6, <1>8, <3>2
    <3>3. QED
      BY <1>4, <1>6, <3>1, <3>2
  <2>4. Len(accepted') = Len(processed') + Len(evtQ')
    BY <1>1, <1>4, <1>5, <1>6, <1>7
  <2>5. ASSUME NEW i \in 1..Len(evtQ')
        PROVE  evtQ'[i] = accepted'[Len(processed') + i]
    <3>1. i \in 1..Len(evtQ) - 1 /\ i + 1 \in 1..Len(evtQ)
      BY <1>4, <1>5
    <3>2. evtQ'[i] = accepted[Len(processed) + (i + 1)]
      BY <1>5, <1>7, <3>1
    <3>3. Len(processed) + (i + 1) = Len(processed') + i
      BY <1>4, <1>6, <3>1
    <3>4. QED
      BY <1>1, <3>2, <3>3
  <2>6. QED
    BY <2>1, <2>2, <2>3, <2>4, <2>5 DEF ArrivalOrder
<1>12. ArrivedIsNewest'
  BY <1>1, <1>2 DEF DataInv, ArrivedIsNewest
<1>13. StopIsFinal' /\ HeadNotNull'
  BY <1>1, <1>2 DEF DataInv, StopIsFinal, HeadNotNull
<1>14. Len(processed) < Len(accepted)
  BY <1>4, <1>7
<1>15. QED
  BY <1>1, <1>8, <1>9, <1>10, <1>11, <1>12, <1>13, <1>14 DEF DataInv

(* Starting the worker: no stop has been requested yet. *)
LEMMA StartWorkerStep ==
    ASSUME PcType, LocksMatchPcs, DataInv, StartWorker
    PROVE  DataInv' /\ UNCHANGED evtQStop
<1>1. /\ UNCHANGED <<evtQ, evtQTail, evtQCount, arrived, accepted, processed>>
      /\ pc[Main] = "start" /\ evtQStop' = FALSE
  BY DEF StartWorker, queueVars, histVars
<1>2. evtQStop = FALSE /\ pc[Worker] = "not created"
  BY <1>1 DEF DataInv, StopIsFinal, LocksMatchPcs, DataType
<1>3. pc'[Dispatch] = pc[Dispatch] /\ pc'[Worker] \in {"loop", "not created"}
  BY <1>2 DEF StartWorker, PcType, Threads, Dispatch, Worker, Main
<1>4. DataType' /\ ListWellFormed'
  BY <1>1 DEF DataInv, DataType, ListWellFormed
<1>5. ArrivalOrder'
  BY <1>1, <1>2, <1>3 DEF DataInv, ArrivalOrder
<1>6. ArrivedIsNewest'
  BY <1>1, <1>3 DEF DataInv, ArrivedIsNewest
<1>7. StopIsFinal' /\ HeadNotNull'
  BY <1>1, <1>3 DEF StopIsFinal, HeadNotNull
<1>8. QED
  BY <1>1, <1>2, <1>4, <1>5, <1>6, <1>7 DEF DataInv

(* Requesting the stop. *)
LEMMA StopSignalStep ==
    ASSUME PcType, LocksMatchPcs, DataInv, StopSignal
    PROVE  DataInv' /\ ~evtQStop
<1>1. /\ UNCHANGED <<evtQ, evtQTail, evtQCount, arrived, accepted, processed>>
      /\ evtQStop' = TRUE
  BY DEF StopSignal, queueVars, histVars
<1>2. /\ pc[Main] = "stopping" /\ pc'[Main] = "joining" /\ pc'[Dispatch] = pc[Dispatch]
      /\ pc'[Worker] = "exited" <=> pc[Worker] = "exited"
  BY DEF StopSignal, SignalAndGoto, PcType, Threads, Dispatch, Worker, Main
<1>3. DataType' /\ ListWellFormed'
  BY <1>1 DEF DataInv, DataType, ListWellFormed
<1>4. ArrivalOrder'
  BY <1>1, <1>2 DEF DataInv, ArrivalOrder
<1>5. ArrivedIsNewest'
  BY <1>1, <1>2 DEF DataInv, ArrivedIsNewest
<1>6. StopIsFinal' /\ HeadNotNull'
  BY <1>1, <1>2 DEF StopIsFinal, HeadNotNull
<1>7. ~evtQStop
  BY <1>2 DEF DataInv, StopIsFinal
<1>8. QED
  BY <1>3, <1>4, <1>5, <1>6, <1>7 DEF DataInv

(* evtWorkerStarted is only ever set to TRUE or FALSE. *)
LEMMA StartedStep ==
    ASSUME evtWorkerStarted \in BOOLEAN, [Next]_vars
    PROVE  evtWorkerStarted' \in BOOLEAN
<1>1. CASE Handler
  BY <1>1 DEF Handler, HandlerEarlyReturn, HandlerLock, HandlerDrop, HandlerQueue, HandlerReturn
<1>2. CASE WorkerLoop \/ SpuriousWakeup
  BY <1>2 DEF WorkerLoop, WorkerLock, WorkerWait, WorkerLeaveWait, WorkerDiscard, WorkerTake,
              SpuriousWakeup
<1>3. CASE Process
  BY <1>3 DEF Process, ProcessEnterDs, ProcessDsUsesBus, ProcessDsLeavesBus, ProcessLeaveDs,
              ProcessBroadcast, ProcessDone
<1>4. CASE StartWorker \/ RegisterHandlers \/ RequestStop \/ Stop \/ DispatchEvent
  BY <1>4 DEF StartWorker, RegisterHandlers, RequestStop, Stop, StopLock, StopSignal, StopJoin,
              Disconnect, DispatchEvent
<1>5. CASE Ended \/ UNCHANGED vars
  BY <1>5 DEF Ended, vars
<1>6. CASE \E c \in DsClients : ClientEnterDs(c) \/ ClientEnterBus(c) \/ ClientLeave(c)
  BY <1>6 DEF ClientEnterDs, ClientEnterBus, ClientLeave
<1>7. QED
  BY <1>1, <1>2, <1>3, <1>4, <1>5, <1>6 DEF Next

(* The inductive invariant, split into the part about threads and locks and
   the part about the queue. *)
LEMMA IInvParts ==
    IInv <=> PcType /\ LocksMatchPcs /\ DataInv /\ evtWorkerStarted \in BOOLEAN
BY DEF IInv, TypeOK, PcType, DataInv, DataType

(* Every step preserves the inductive invariant. *)
LEMMA NextIInv ==
    ASSUME IInv, [Next]_vars
    PROVE  IInv'
<1>1. PcType /\ LocksMatchPcs /\ DataInv /\ evtWorkerStarted \in BOOLEAN
  BY IInvParts
<1>2. PcType' /\ LocksMatchPcs' /\ evtWorkerStarted' \in BOOLEAN
  BY <1>1, LocksStep, StartedStep
<1>3. DataInv'
  <2>1. CASE Quiet
    BY <1>1, <2>1, QuietPreserves
  <2>2. CASE DispatchEvent
    BY <1>1, <2>2, DispatchEventStep
  <2>3. CASE HandlerQueue
    BY <1>1, <2>3, HandlerQueueStep
  <2>4. CASE WorkerLeaveWait
    BY <1>1, <2>4, WorkerLeaveWaitStep
  <2>5. CASE WorkerDiscard
    BY <1>1, <2>5, WorkerDiscardStep
  <2>6. CASE WorkerTake
    BY <1>1, <2>6, WorkerTakeStep
  <2>7. CASE StartWorker
    BY <1>1, <2>7, StartWorkerStep
  <2>8. CASE StopSignal
    BY <1>1, <2>8, StopSignalStep
  <2>9. Ended => UNCHANGED vars
    BY DEF Ended
  <2>10. QED
    BY <1>1, <2>1, <2>2, <2>3, <2>4, <2>5, <2>6, <2>7, <2>8, <2>9, QuietSteps DEF Next
<1>4. QED
  BY <1>2, <1>3 DEF IInv, TypeOK, PcType, DataInv, DataType

(* The inductive invariant holds in every reachable state. *)
THEOREM Invariance == Spec => []IInv
<1>1. Init => IInv
  BY InitIInv
<1>2. IInv /\ [Next]_vars => IInv'
  BY NextIInv
<1>3. QED
  BY <1>1, <1>2, PTL DEF Spec

(* The queue never holds more than QueueMax events, and every thread is always
   at a position of its own code. *)
THEOREM TypeCorrectness == Spec => []TypeOK
<1>1. IInv => TypeOK
  BY DEF IInv
<1>2. QED
  BY <1>1, Invariance, PTL

(* Events reach _ProcessEvent in arrival order, none twice and none skipped. *)
THEOREM EventsInArrivalOrder == Spec => []ArrivalOrder
<1>1. IInv => ArrivalOrder
  BY DEF IInv
<1>2. QED
  BY <1>1, Invariance, PTL

(* The list, its tail pointer and its counter always agree. *)
THEOREM ListIsSafe == Spec => []ListWellFormed
<1>1. IInv => ListWellFormed
  BY DEF IInv
<1>2. QED
  BY <1>1, Invariance, PTL

(* The worker never takes the head of an empty list, however it was woken. *)
THEOREM HeadIsSafe == Spec => []HeadNotNull
<1>1. IInv => HeadNotNull
  BY DEF IInv
<1>2. QED
  BY <1>1, Invariance, PTL

-----------------------------------------------------------------------------
(* A thread that waits for a lock holds only locks of smaller rank. *)
LEMMA IInvLockOrder == IInv => LockOrder
<1> SUFFICES ASSUME PcType, LocksMatchPcs, NEW t \in Threads, NEW l \in Locks, NEW m \in Locks,
                    WaitsForLock(t, l), owner[m] = t
             PROVE  Rank(m) < Rank(l)
  BY IInvParts DEF LockOrder
<1>1. \/ l = "evtQMutex" /\ m # "evtQMutex"
      \/ l = "bus" /\ m = "ds"
  BY DsClientsAssumption
     DEF WaitsForLock, LocksMatchPcs, PcType, Locks, Threads, Dispatch, Worker, Main
<1>2. QED
  BY <1>1 DEF Rank, Locks

(* Whoever holds the lock of the highest rank runs; by the lock order, whoever
   holds the bus waits at most for that thread, and whoever holds the DS lock at
   most for a holder of the bus: no set of threads waits on itself. *)
LEMMA IInvNoWaitCycle == IInv => NoWaitCycle
<1> SUFFICES ASSUME PcType, LocksMatchPcs,
                    NEW S \in SUBSET Threads, S # {},
                    \A t \in S : \E u \in S : WaitsFor(t, u)
             PROVE  FALSE
  BY IInvParts DEF NoWaitCycle
<1> USE DsClientsAssumption DEF LocksMatchPcs, PcType, Locks, Threads, Dispatch, Worker, Main
<1>1. ASSUME NEW t \in S PROVE ~WaitsForLock(t, "evtQMutex")
  <2> SUFFICES ASSUME WaitsForLock(t, "evtQMutex") PROVE FALSE
    OBVIOUS
  <2>1. PICK u \in S : WaitsFor(t, u)
    OBVIOUS
  <2>2. owner["evtQMutex"] = u
    BY <2>1 DEF WaitsFor, WaitsForLock
  <2>3. PICK v \in S : WaitsFor(u, v)
    OBVIOUS
  <2>4. QED
    BY <2>2, <2>3 DEF WaitsFor, WaitsForLock
<1>2. ASSUME NEW t \in S PROVE ~WaitsForLock(t, "bus")
  <2> SUFFICES ASSUME WaitsForLock(t, "bus") PROVE FALSE
    OBVIOUS
  <2>1. PICK u \in S : WaitsFor(t, u)
    OBVIOUS
  <2>2. owner["bus"] = u
    BY <2>1 DEF WaitsFor, WaitsForLock
  <2>3. PICK v \in S : WaitsFor(u, v)
    OBVIOUS
  <2>4. WaitsForLock(u, "evtQMutex")
    BY <2>2, <2>3 DEF WaitsFor, WaitsForLock
  <2>5. QED
    BY <1>1, <2>4
<1>3. ASSUME NEW t \in S PROVE ~WaitsForLock(t, "ds")
  <2> SUFFICES ASSUME WaitsForLock(t, "ds") PROVE FALSE
    OBVIOUS
  <2>1. PICK u \in S : WaitsFor(t, u)
    OBVIOUS
  <2>2. owner["ds"] = u
    BY <2>1 DEF WaitsFor, WaitsForLock
  <2>3. PICK v \in S : WaitsFor(u, v)
    OBVIOUS
  <2>4. WaitsForLock(u, "bus")
    BY <2>2, <2>3 DEF WaitsFor, WaitsForLock
  <2>5. QED
    BY <1>2, <2>4
<1>4. ASSUME NEW t \in S PROVE t = Main /\ Worker \in S
  <2>1. PICK u \in S : WaitsFor(t, u)
    OBVIOUS
  <2>2. \A l \in Locks : ~WaitsForLock(t, l)
    <3> SUFFICES ASSUME NEW l \in Locks PROVE ~WaitsForLock(t, l)
      OBVIOUS
    <3>1. CASE l = "evtQMutex"
      BY <1>1, <3>1
    <3>2. CASE l = "bus"
      BY <1>2, <3>2
    <3>3. CASE l = "ds"
      BY <1>3, <3>3
    <3>4. QED
      BY <3>1, <3>2, <3>3
  <2> HIDE DEF LocksMatchPcs, PcType, Locks, Threads, Dispatch, Worker, Main
  <2>3. QED
    BY <2>1, <2>2 DEF WaitsFor
<1>5. QED
  BY <1>4

(* The deadlock the queue was introduced against cannot happen, whatever the
   number of DS client threads. *)
THEOREM NoDeadlockCycle == Spec => []NoWaitCycle
<1>1. QED
  BY IInvNoWaitCycle, Invariance, PTL

-----------------------------------------------------------------------------
(* Every step of the queue is a step of the abstract channel or changes none
   of its variables. *)
LEMMA StepRefines ==
    ASSUME IInv, [Next]_vars
    PROVE  [Channel!ChanNext]_(Channel!chanVars)
<1>1. PcType /\ LocksMatchPcs /\ DataInv
  BY IInvParts
<1>2. CASE Quiet
  BY <1>2 DEF Quiet, Channel!chanVars
<1>3. CASE DispatchEvent
  BY <1>3 DEF DispatchEvent, Channel!chanVars
<1>4. CASE HandlerQueue
  <2>1. /\ ~evtQStop /\ evtQCount < QueueMax /\ accepted' = Append(accepted, arrived)
        /\ UNCHANGED <<evtQStop, processed>>
    BY <1>4 DEF HandlerQueue
  <2>2. pc[Worker] # "exited" /\ pc[Dispatch] = "linking"
    BY <1>1, <1>4, <2>1 DEF DataInv, StopIsFinal, HandlerQueue, SignalAndGoto
  <2>3. evtQ \in Seq(Items) /\ accepted \in Seq(Items) /\ processed \in Seq(Items)
    BY <1>1 DEF DataInv, DataType
  <2>4. Len(accepted) = Len(processed) + evtQCount
    BY <1>1, <2>2 DEF DataInv, ArrivalOrder, ListWellFormed
  <2>5. Len(accepted) - Len(processed) < QueueMax
    BY <2>1, <2>3, <2>4, QueueMaxAssumption, <1>1 DEF DataInv, DataType
  <2>6. arrived \in 1..MaxEvents
    BY <1>1, <2>2, MaxEventsAssumption DEF DataInv, DataType, ArrivedIsNewest
  <2>7. Channel!Accept
    BY <2>1, <2>5, <2>6 DEF Channel!Accept
  <2>8. QED
    BY <2>7 DEF Channel!ChanNext
<1>5. CASE WorkerLeaveWait \/ WorkerDiscard
  BY <1>5 DEF WorkerLeaveWait, WorkerDiscard, histVars, Channel!chanVars
<1>6. CASE WorkerTake
  <2>1. /\ Len(processed) < Len(accepted)
        /\ processed' = Append(processed, accepted[Len(processed) + 1])
    BY <1>1, <1>6, WorkerTakeStep
  <2>2. ~evtQStop /\ UNCHANGED <<evtQStop, accepted>>
    BY <1>6 DEF WorkerTake
  <2>3. Channel!HandOver
    BY <2>1, <2>2 DEF Channel!HandOver
  <2>4. QED
    BY <2>3 DEF Channel!ChanNext
<1>7. CASE StartWorker
  <2>1. UNCHANGED <<evtQStop, accepted, processed>>
    BY <1>1, <1>7, StartWorkerStep DEF StartWorker, histVars
  <2>2. QED
    BY <2>1 DEF Channel!chanVars
<1>8. CASE StopSignal
  <2>1. ~evtQStop /\ evtQStop' = TRUE /\ UNCHANGED <<accepted, processed>>
    BY <1>1, <1>8, StopSignalStep DEF StopSignal, histVars
  <2>2. QED
    BY <2>1 DEF Channel!Close, Channel!ChanNext
<1>9. Ended => UNCHANGED vars
  BY DEF Ended
<1>10. QED
  BY <1>1, <1>2, <1>3, <1>4, <1>5, <1>6, <1>7, <1>8, <1>9, QuietSteps DEF Next

(* The queue implements the abstract channel for every queue size. *)
THEOREM Refinement == Spec => ImplementsChannel
<1>1. Init => Channel!ChanInit
  BY DEF Init, Channel!ChanInit
<1>2. IInv /\ [Next]_vars => [Channel!ChanNext]_(Channel!chanVars)
  BY StepRefines
<1>3. QED
  BY <1>1, <1>2, Invariance, PTL DEF Spec, ImplementsChannel, Channel!ChanSpec
=============================================================================
