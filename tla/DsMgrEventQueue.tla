-------------------------- MODULE DsMgrEventQueue --------------------------
(***************************************************************************)
(* The event queue of DSMgr (dsmgr/dsMgr.c): _EventHandler runs on the     *)
(* IARM dispatch thread with the IARM bus lock held and only links a copy  *)
(* of the event into a list; _EventWorkerThreadFunc takes the copies off   *)
(* the list and runs _ProcessEvent, which takes DS locks and calls back    *)
(* into the IARM bus; the main thread starts the worker before it          *)
(* registers the handlers and stops and joins it in DSMgr_Stop.            *)
(*                                                                         *)
(* An event is its arrival number.  The list is evtQ, the items reachable  *)
(* from evtQHead, with evtQTail and evtQCount kept apart from it as the    *)
(* code keeps them.  Each pthread lock and unlock is a step, so the order  *)
(* in which the threads acquire the bus lock, the DS lock and evtQMutex is *)
(* the order of the code.                                                  *)
(***************************************************************************)
EXTENDS Naturals, Sequences

CONSTANTS QueueMax,    \* DSMGR_EVENT_QUEUE_MAX
          MaxEvents,   \* bound on the number of callbacks
          DsClients    \* threads that call DS and need the bus while holding the DS lock

Dispatch == "IARM dispatch thread"
Worker   == "event worker thread"
Main     == "main thread"
Threads  == {Dispatch, Worker, Main} \cup DsClients

ASSUME QueueMaxAssumption  == QueueMax \in Nat \ {0}
ASSUME MaxEventsAssumption == MaxEvents \in Nat
ASSUME DsClientsAssumption == DsClients \cap {Dispatch, Worker, Main} = {}

NoThread == "no thread"
ASSUME NoThreadAssumption == NoThread \notin Threads

Locks == {"bus", "ds", "evtQMutex"}
NULL  == 0
Items == 1..MaxEvents

VARIABLES
    evtQ,              \* the items reachable from evtQHead through next
    evtQTail,          \* the item evtQTail points to, or NULL
    evtQCount,
    evtQStop,
    evtWorkerStarted,
    owner,             \* owner[l] is the thread that holds lock l
    pc,                \* where each thread is
    arrived,           \* number of callbacks so far; the last one is the dispatcher's event
    accepted,          \* history: the events linked into the list, in order
    processed          \* history: the events handed to _ProcessEvent, in order

queueVars == <<evtQ, evtQTail, evtQCount>>
histVars  == <<arrived, accepted, processed>>
vars == <<evtQ, evtQTail, evtQCount, evtQStop, evtWorkerStarted, owner, pc,
          arrived, accepted, processed>>

Init ==
    /\ evtQ = <<>>
    /\ evtQTail = NULL
    /\ evtQCount = 0
    /\ evtQStop = FALSE
    /\ evtWorkerStarted = FALSE
    /\ owner = [l \in Locks |-> NoThread]
    /\ pc = [t \in Threads |-> IF t = Main THEN "start"
                               ELSE IF t = Worker THEN "not created" ELSE "idle"]
    /\ arrived = 0
    /\ accepted = <<>>
    /\ processed = <<>>

-----------------------------------------------------------------------------
(* Locks. *)

Goto(t, from, to) ==
    /\ pc[t] = from
    /\ pc' = [pc EXCEPT ![t] = to]

(* pthread_mutex_lock returning: the thread waits at "from" until l is free. *)
Lock(t, l, from, to) ==
    /\ Goto(t, from, to)
    /\ owner[l] = NoThread
    /\ owner' = [owner EXCEPT ![l] = t]

Release(l) == owner' = [owner EXCEPT ![l] = NoThread]

(* pthread_cond_signal(&evtQCond) made by thread t, which goes on at "to". *)
SignalAndGoto(t, from, to) ==
    /\ pc[t] = from
    /\ pc' = [u \in Threads |->
                 IF u = t THEN to
                 ELSE IF u = Worker /\ pc[u] = "waiting" THEN "woken" ELSE pc[u]]

-----------------------------------------------------------------------------
(* IARM dispatch thread. *)

(* The bus delivers an event: the callback runs with the bus lock held.
   Handlers are registered from the end of DSMgr_Start to IARM_Bus_Disconnect. *)
DispatchEvent ==
    /\ pc[Main] \in {"running", "stop", "stopping", "joining", "joined"}
    /\ arrived < MaxEvents
    /\ Lock(Dispatch, "bus", "idle", "handler")
    /\ arrived' = arrived + 1
    /\ UNCHANGED <<queueVars, evtQStop, evtWorkerStarted, accepted, processed>>

(* _EventHandler without an owner, or without memory for the copy. *)
HandlerEarlyReturn ==
    /\ Goto(Dispatch, "handler", "return")
    /\ UNCHANGED <<queueVars, evtQStop, evtWorkerStarted, owner, histVars>>

HandlerLock ==
    /\ Lock(Dispatch, "evtQMutex", "handler", "linking")
    /\ UNCHANGED <<queueVars, evtQStop, evtWorkerStarted, histVars>>

(* The event is dropped when the worker is stopped or the list is full. *)
HandlerDrop ==
    /\ evtQStop \/ evtQCount >= QueueMax
    /\ Goto(Dispatch, "linking", "return")
    /\ Release("evtQMutex")
    /\ UNCHANGED <<queueVars, evtQStop, evtWorkerStarted, histVars>>

(* What linking item after evtQTail makes of the list: an item linked to a
   tail that is not the last one of the list cannot be reached from evtQHead. *)
Linked(item) ==
    IF evtQTail = NULL THEN <<item>>
    ELSE IF evtQ # <<>> /\ evtQ[Len(evtQ)] = evtQTail THEN Append(evtQ, item)
    ELSE evtQ

(* Faulty variants of the enqueue step, for the mutation checks: one does not
   test whether the list is full, the other does not signal the worker. *)
HandlerQueueNoBound ==
    /\ ~evtQStop
    /\ evtQ' = Linked(arrived)
    /\ evtQTail' = arrived
    /\ evtQCount' = evtQCount + 1
    /\ accepted' = Append(accepted, arrived)
    /\ SignalAndGoto(Dispatch, "linking", "return")
    /\ Release("evtQMutex")
    /\ UNCHANGED <<evtQStop, evtWorkerStarted, arrived, processed>>

HandlerQueueNoSignal ==
    /\ ~evtQStop /\ evtQCount < QueueMax
    /\ evtQ' = Linked(arrived)
    /\ evtQTail' = arrived
    /\ evtQCount' = evtQCount + 1
    /\ accepted' = Append(accepted, arrived)
    /\ Goto(Dispatch, "linking", "return")
    /\ Release("evtQMutex")
    /\ UNCHANGED <<evtQStop, evtWorkerStarted, arrived, processed>>

HandlerQueue ==
    /\ ~evtQStop /\ evtQCount < QueueMax
    /\ evtQ' = Linked(arrived)
    /\ evtQTail' = arrived
    /\ evtQCount' = evtQCount + 1
    /\ accepted' = Append(accepted, arrived)
    /\ SignalAndGoto(Dispatch, "linking", "return")
    /\ Release("evtQMutex")
    /\ UNCHANGED <<evtQStop, evtWorkerStarted, arrived, processed>>

HandlerReturn ==
    /\ Goto(Dispatch, "return", "idle")
    /\ Release("bus")
    /\ UNCHANGED <<queueVars, evtQStop, evtWorkerStarted, histVars>>

Handler == \/ HandlerEarlyReturn \/ HandlerLock \/ HandlerDrop
           \/ HandlerQueue \/ HandlerReturn

-----------------------------------------------------------------------------
(* Event worker thread. *)

(* Faulty variant: the wait is an if and not a while. *)
WorkerLockNoRetest ==
    /\ \/ Lock(Worker, "evtQMutex", "loop", "test")
       \/ Lock(Worker, "evtQMutex", "woken", "take")
    /\ UNCHANGED <<queueVars, evtQStop, evtWorkerStarted, histVars>>

WorkerLock ==
    /\ \/ Lock(Worker, "evtQMutex", "loop", "test")
       \/ Lock(Worker, "evtQMutex", "woken", "test")
    /\ UNCHANGED <<queueVars, evtQStop, evtWorkerStarted, histVars>>

(* while ((NULL == evtQHead) && !evtQStop) pthread_cond_wait(...) *)
WorkerWait ==
    /\ evtQ = <<>> /\ ~evtQStop
    /\ Goto(Worker, "test", "waiting")
    /\ Release("evtQMutex")
    /\ UNCHANGED <<queueVars, evtQStop, evtWorkerStarted, histVars>>

WorkerLeaveWait ==
    /\ evtQ # <<>> \/ evtQStop
    /\ Goto(Worker, "test", "take")
    /\ UNCHANGED <<queueVars, evtQStop, evtWorkerStarted, owner, histVars>>

(* POSIX lets pthread_cond_wait return without a signal. *)
SpuriousWakeup ==
    /\ Goto(Worker, "waiting", "woken")
    /\ UNCHANGED <<queueVars, evtQStop, evtWorkerStarted, owner, histVars>>

(* Stopped: the events still in the list are dropped and the thread ends. *)
WorkerDiscard ==
    /\ evtQStop
    /\ Goto(Worker, "take", "exited")
    /\ evtQ' = <<>>
    /\ evtQTail' = NULL
    /\ evtQCount' = 0
    /\ Release("evtQMutex")
    /\ UNCHANGED <<evtQStop, evtWorkerStarted, histVars>>

(* Faulty variants of the step below: the tail is left behind, the newest item
   is taken, the mutex is kept while the event is processed, the stop flag is
   not looked at. *)
WorkerTakeKeepsTail ==
    /\ ~evtQStop
    /\ evtQ # <<>>
    /\ Goto(Worker, "take", "process")
    /\ evtQ' = Tail(evtQ)
    /\ evtQCount' = evtQCount - 1
    /\ processed' = Append(processed, evtQ[1])
    /\ Release("evtQMutex")
    /\ UNCHANGED <<evtQTail, evtQStop, evtWorkerStarted, arrived, accepted>>

WorkerTakeNewest ==
    /\ ~evtQStop
    /\ evtQ # <<>>
    /\ Goto(Worker, "take", "process")
    /\ evtQ' = SubSeq(evtQ, 1, Len(evtQ) - 1)
    /\ evtQTail' = IF Len(evtQ) = 1 THEN NULL ELSE evtQ[Len(evtQ) - 1]
    /\ evtQCount' = evtQCount - 1
    /\ processed' = Append(processed, evtQ[Len(evtQ)])
    /\ Release("evtQMutex")
    /\ UNCHANGED <<evtQStop, evtWorkerStarted, arrived, accepted>>

WorkerTakeKeepsLock ==
    /\ ~evtQStop
    /\ evtQ # <<>>
    /\ Goto(Worker, "take", "process")
    /\ evtQ' = Tail(evtQ)
    /\ evtQTail' = IF Tail(evtQ) = <<>> THEN NULL ELSE evtQTail
    /\ evtQCount' = evtQCount - 1
    /\ processed' = Append(processed, evtQ[1])
    /\ UNCHANGED <<evtQStop, evtWorkerStarted, owner, arrived, accepted>>

WorkerTakeAfterStop ==
    /\ evtQ # <<>>
    /\ Goto(Worker, "take", "process")
    /\ evtQ' = Tail(evtQ)
    /\ evtQTail' = IF Tail(evtQ) = <<>> THEN NULL ELSE evtQTail
    /\ evtQCount' = evtQCount - 1
    /\ processed' = Append(processed, evtQ[1])
    /\ Release("evtQMutex")
    /\ UNCHANGED <<evtQStop, evtWorkerStarted, arrived, accepted>>

(* Unlinks the head and unlocks before _ProcessEvent runs. *)
WorkerTake ==
    /\ ~evtQStop
    /\ evtQ # <<>>
    /\ Goto(Worker, "take", "process")
    /\ evtQ' = Tail(evtQ)
    /\ evtQTail' = IF Tail(evtQ) = <<>> THEN NULL ELSE evtQTail
    /\ evtQCount' = evtQCount - 1
    /\ processed' = Append(processed, evtQ[1])
    /\ Release("evtQMutex")
    /\ UNCHANGED <<evtQStop, evtWorkerStarted, arrived, accepted>>

(* _ProcessEvent as the locks see it: a DS call that may need the bus while
   it holds the DS lock, then, for an HDCP event, a broadcast on the bus. *)
ProcessEnterDs ==
    /\ \/ Lock(Worker, "ds", "process", "in ds")
       \/ Lock(Worker, "ds", "process", "in ds, needs bus")
    /\ UNCHANGED <<queueVars, evtQStop, evtWorkerStarted, histVars>>

ProcessDsUsesBus ==
    /\ Lock(Worker, "bus", "in ds, needs bus", "in ds and bus")
    /\ UNCHANGED <<queueVars, evtQStop, evtWorkerStarted, histVars>>

ProcessDsLeavesBus ==
    /\ Goto(Worker, "in ds and bus", "in ds")
    /\ Release("bus")
    /\ UNCHANGED <<queueVars, evtQStop, evtWorkerStarted, histVars>>

ProcessLeaveDs ==
    /\ \/ Goto(Worker, "in ds", "broadcast")
       \/ Goto(Worker, "in ds", "loop")
    /\ Release("ds")
    /\ UNCHANGED <<queueVars, evtQStop, evtWorkerStarted, histVars>>

ProcessBroadcast ==
    /\ Lock(Worker, "bus", "broadcast", "in bus")
    /\ UNCHANGED <<queueVars, evtQStop, evtWorkerStarted, histVars>>

ProcessDone ==
    /\ Goto(Worker, "in bus", "loop")
    /\ Release("bus")
    /\ UNCHANGED <<queueVars, evtQStop, evtWorkerStarted, histVars>>

WorkerLoop == WorkerLock \/ WorkerWait \/ WorkerLeaveWait \/ WorkerDiscard \/ WorkerTake

Process == \/ ProcessEnterDs \/ ProcessDsUsesBus \/ ProcessDsLeavesBus
           \/ ProcessLeaveDs \/ ProcessBroadcast \/ ProcessDone

-----------------------------------------------------------------------------
(* Main thread. *)

(* startEventWorker, before the handlers are registered. *)
StartWorker ==
    /\ pc[Main] = "start"
    /\ evtQStop' = FALSE
    /\ \/ /\ pc' = [pc EXCEPT ![Main] = "registering", ![Worker] = "loop"]
          /\ evtWorkerStarted' = TRUE
       \/ /\ pc' = [pc EXCEPT ![Main] = "failed"]
          /\ UNCHANGED evtWorkerStarted
    /\ UNCHANGED <<queueVars, owner, histVars>>

RegisterHandlers ==
    /\ Goto(Main, "registering", "running")
    /\ UNCHANGED <<queueVars, evtQStop, evtWorkerStarted, owner, histVars>>

(* DSMgr_Stop reaches stopEventWorker. *)
RequestStop ==
    /\ evtWorkerStarted
    /\ Goto(Main, "running", "stop")
    /\ UNCHANGED <<queueVars, evtQStop, evtWorkerStarted, owner, histVars>>

StopLock ==
    /\ Lock(Main, "evtQMutex", "stop", "stopping")
    /\ UNCHANGED <<queueVars, evtQStop, evtWorkerStarted, histVars>>

(* Faulty variant: the worker is not woken up. *)
StopSignalSilent ==
    /\ Goto(Main, "stopping", "joining")
    /\ evtQStop' = TRUE
    /\ Release("evtQMutex")
    /\ UNCHANGED <<queueVars, evtWorkerStarted, histVars>>

StopSignal ==
    /\ SignalAndGoto(Main, "stopping", "joining")
    /\ evtQStop' = TRUE
    /\ Release("evtQMutex")
    /\ UNCHANGED <<queueVars, evtWorkerStarted, histVars>>

StopJoin ==
    /\ pc[Worker] = "exited"
    /\ Goto(Main, "joining", "joined")
    /\ evtWorkerStarted' = FALSE
    /\ UNCHANGED <<queueVars, evtQStop, owner, histVars>>

(* IARM_Bus_Disconnect ends the delivery of events. *)
Disconnect ==
    /\ pc[Dispatch] = "idle"
    /\ Goto(Main, "joined", "stopped")
    /\ UNCHANGED <<queueVars, evtQStop, evtWorkerStarted, owner, histVars>>

Stop == StopLock \/ StopSignal \/ StopJoin \/ Disconnect

(* The process has ended: nothing is left to do. *)
Ended ==
    /\ pc[Main] \in {"stopped", "failed"}
    /\ UNCHANGED vars

-----------------------------------------------------------------------------
(* Other threads of the process that hold the DS lock while they need the bus. *)

ClientEnterDs(c) ==
    /\ Lock(c, "ds", "idle", "needs bus")
    /\ UNCHANGED <<queueVars, evtQStop, evtWorkerStarted, histVars>>

ClientEnterBus(c) ==
    /\ Lock(c, "bus", "needs bus", "in bus")
    /\ UNCHANGED <<queueVars, evtQStop, evtWorkerStarted, histVars>>

ClientLeave(c) ==
    /\ Goto(c, "in bus", "idle")
    /\ owner' = [owner EXCEPT !["ds"] = NoThread, !["bus"] = NoThread]
    /\ UNCHANGED <<queueVars, evtQStop, evtWorkerStarted, histVars>>

-----------------------------------------------------------------------------
Next ==
    \/ DispatchEvent \/ Handler
    \/ WorkerLoop \/ SpuriousWakeup \/ Process
    \/ StartWorker \/ RegisterHandlers \/ RequestStop \/ Stop \/ Ended
    \/ \E c \in DsClients : ClientEnterDs(c) \/ ClientEnterBus(c) \/ ClientLeave(c)

(* Every thread that can take a step of its own keeps running, and a thread
   that waits for a mutex which becomes free again and again gets it in the
   end: the scheduler and the pthread mutexes starve nobody for ever.
   Nothing makes the bus deliver an event, a client call DS, the process stop
   or a wait wake up without a signal. *)
Fairness ==
    /\ SF_vars(WorkerLock) /\ SF_vars(ProcessEnterDs)
    /\ SF_vars(ProcessDsUsesBus) /\ SF_vars(ProcessBroadcast)
    /\ WF_vars(WorkerWait) /\ WF_vars(WorkerLeaveWait)
    /\ WF_vars(WorkerDiscard) /\ WF_vars(WorkerTake)
    /\ WF_vars(ProcessDsLeavesBus) /\ WF_vars(ProcessLeaveDs) /\ WF_vars(ProcessDone)
    /\ SF_vars(HandlerLock)
    /\ WF_vars(HandlerDrop) /\ WF_vars(HandlerQueue) /\ WF_vars(HandlerReturn)
    /\ SF_vars(StopLock) /\ WF_vars(StopSignal) /\ WF_vars(StopJoin) /\ SF_vars(Disconnect)
    /\ \A c \in DsClients : SF_vars(ClientEnterBus(c)) /\ WF_vars(ClientLeave(c))

Spec == Init /\ [][Next]_vars

FairSpec == Spec /\ Fairness

-----------------------------------------------------------------------------
(* Type of the state: what each variable of dsMgr.c (482-489), each lock, each
   thread position and each history variable can hold. *)
DispatchPcs == {"idle", "handler", "linking", "return"}
WorkerPcs   == {"not created", "loop", "test", "waiting", "woken", "take", "process",
                "in ds", "in ds, needs bus", "in ds and bus", "broadcast", "in bus", "exited"}
MainPcs     == {"start", "failed", "registering", "running", "stop", "stopping",
                "joining", "joined", "stopped"}
ClientPcs   == {"idle", "needs bus", "in bus"}

TypeOK ==
    /\ evtQ \in Seq(Items)
    /\ evtQTail \in Items \cup {NULL}
    /\ evtQCount \in 0..QueueMax
    /\ evtQStop \in BOOLEAN
    /\ evtWorkerStarted \in BOOLEAN
    /\ owner \in [Locks -> Threads \cup {NoThread}]
    /\ pc \in [Threads -> DispatchPcs \cup WorkerPcs \cup MainPcs \cup ClientPcs]
    /\ pc[Dispatch] \in DispatchPcs
    /\ pc[Worker] \in WorkerPcs
    /\ pc[Main] \in MainPcs
    /\ \A c \in DsClients : pc[c] \in ClientPcs
    /\ arrived \in 0..MaxEvents
    /\ accepted \in Seq(Items)
    /\ processed \in Seq(Items)

(* The list, its tail pointer and its counter always describe the same queue:
   a tail left behind when the list runs empty would make _EventHandler link
   the next event to a freed item (dsMgr.c 549-554, 601-608). *)
ListWellFormed ==
    /\ evtQCount = Len(evtQ)
    /\ (evtQTail = NULL) <=> (evtQ = <<>>)
    /\ evtQ # <<>> => evtQTail = evtQ[Len(evtQ)]

(* Events reach _ProcessEvent in arrival order (the comment at dsMgr.c 464):
   what was processed is a prefix of what was accepted, what was accepted is
   in arrival order, and until the worker has discarded the list at stop every
   accepted event that was not processed is still in the list, in order. *)
ArrivalOrder ==
    /\ \A i, j \in 1..Len(accepted) : i < j => accepted[i] < accepted[j]
    /\ Len(processed) <= Len(accepted)
    /\ \A i \in 1..Len(processed) : processed[i] = accepted[i]
    /\ pc[Worker] # "exited" =>
          /\ Len(accepted) = Len(processed) + Len(evtQ)
          /\ \A i \in 1..Len(evtQ) : evtQ[i] = accepted[Len(processed) + i]

(* The worker never dereferences a NULL evtQHead (dsMgr.c 549-550), whatever
   wakes it up: past the wait loop, either a stop was requested or there is an
   item to take. *)
HeadNotNull ==
    pc[Worker] = "take" => evtQStop \/ evtQ # <<>>

(* The lock a thread is waiting for. *)
WaitsForLock(t, l) ==
    \/ t = Dispatch /\ pc[t] = "handler" /\ l = "evtQMutex"
    \/ t = Worker /\ pc[t] \in {"loop", "woken"} /\ l = "evtQMutex"
    \/ t = Worker /\ pc[t] = "process" /\ l = "ds"
    \/ t = Worker /\ pc[t] \in {"in ds, needs bus", "broadcast"} /\ l = "bus"
    \/ t = Main /\ pc[t] = "stop" /\ l = "evtQMutex"
    \/ t \in DsClients /\ pc[t] = "needs bus" /\ l = "bus"

(* The thread that t waits for: the holder of the lock it needs, or, for the
   main thread in pthread_join, the worker. *)
WaitsFor(t, u) ==
    \/ \E l \in Locks : WaitsForLock(t, l) /\ owner[l] = u
    \/ t = Main /\ pc[t] = "joining" /\ u = Worker /\ pc[u] # "exited"

(* No set of threads waits on itself: the deadlock against threads that hold a
   DS lock while they wait for the bus lock, which the comment at dsMgr.c
   461-464 gives as the reason for the queue, cannot happen. *)
NoWaitCycle ==
    \A S \in SUBSET Threads :
        S # {} => \E t \in S : \A u \in S : ~WaitsFor(t, u)

(* The order in which locks are acquired: DS lock, bus lock, evtQMutex.  A
   thread that waits for a lock holds only locks that come before it; this is
   what rules out a cycle of waits for any number of threads. *)
Rank(l) == IF l = "ds" THEN 1 ELSE IF l = "bus" THEN 2 ELSE 3

LockOrder ==
    \A t \in Threads : \A l, m \in Locks :
        WaitsForLock(t, l) /\ owner[m] = t => Rank(m) < Rank(l)

(* The queue implements the abstract channel: what _EventHandler accepts is
   what _ProcessEvent gets, in order, at most QueueMax outstanding, and nothing
   is accepted or handed over after evtQStop. *)
Channel == INSTANCE EventChannel
           WITH accepted <- accepted, handed <- processed, open <- ~evtQStop
ImplementsChannel == Channel!ChanSpec

(* No wakeup is lost: an event that was queued is processed, unless the worker
   is stopped first (dsMgr.c 533-536, 594-609). *)
QueuedIsProcessed ==
    \A n \in Items :
        (\E i \in 1..Len(accepted) : accepted[i] = n)
            ~> (evtQStop \/ \E i \in 1..Len(processed) : processed[i] = n)

(* stopEventWorker gets its join and DSMgr_Stop ends, wherever the worker, the
   dispatcher and the DS clients are when stop is requested (dsMgr.c 513-525). *)
StopCompletes == (pc[Main] = "stop") ~> (pc[Main] = "stopped")
=============================================================================
