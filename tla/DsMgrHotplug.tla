---------------------------- MODULE DsMgrHotplug ----------------------------
(***************************************************************************)
(* The threads of DSMgr that react to HDMI hot plug, HDCP and tune ready   *)
(* events (dsmgr/dsMgr.c): the event worker in _ProcessEvent, the          *)
(* resolution thread _DSMgrResnThreadFunc, and the main thread, which      *)
(* makes the initial call and then serves the delayed handler              *)
(* _SetResolutionHandler from its GLib loop.  All three call               *)
(* _SetVideoPortResolution and share iTuneReady, edisplayEventStatus,      *)
(* bHDCPAuthenticated and hotplug_event_src, of which only the second is   *)
(* protected by tdsMutexLock.                                              *)
(*                                                                         *)
(* Events reach the worker in order (DsMgrEventQueue shows it), so the     *)
(* queue between the HAL and the worker is a sequence here.  Reads and     *)
(* writes of the unprotected variables are steps of their own where        *)
(* another thread can come between them.                                   *)
(***************************************************************************)
EXTENDS Naturals, Sequences, FiniteSets

CONSTANTS
    MaxEvents,           \* bound on the events the HAL and SysMgr send
    MaxSpurious,         \* bound on wakeups without a signal
    ComponentPort,       \* isComponentPortPresent()
    IsIgnoreEdid_gs      \* TRUE if the EDID is to be ignored

ASSUME BoundsAssumption == MaxEvents \in Nat /\ MaxSpurious \in Nat
ASSUME FlagsAssumption == ComponentPort \in BOOLEAN /\ IsIgnoreEdid_gs \in BOOLEAN

Worker == "event worker"
Resn   == "resolution thread"
Main   == "main thread"
Threads == {Worker, Resn, Main}

CONNECTED    == "connected"
DISCONNECTED == "disconnected"
MAX          == "no display event yet"

VARIABLES
    plugged, plugNo,     \* the display, and how many have been plugged in
    edidReady,           \* it sends an EDID with resolutions, as one in low power or a DVI one does not
    tuneReady,           \* SysMgr's tune ready state
    sent, spurious,      \* events sent and wakeups without a signal, for the bounds
    queue,               \* events on their way to the worker
    iTuneReady, edisplayEventStatus, bHDCPAuthenticated, hotplug_event_src,
    bootup_flag_enabled,
    timers, lastTimer,   \* ids of the delayed handlers GLib will call, and the last id given
    pc,                  \* where each thread is
    event,               \* the event the worker has taken
    local,               \* edisplayEventStatusLocal
    seen,                \* hotplug_event_src as a thread has read it, to remove it
    setFor, audioFor,    \* history: the last display a resolution, an audio mode was set for
    tuneReadyAudio       \* history: a tune ready event has had its audio mode applied

envVars  == <<plugged, plugNo, edidReady, tuneReady, sent, spurious>>
glibVars == <<timers, lastTimer>>
histVars == <<setFor, audioFor, tuneReadyAudio>>
vars == <<envVars, queue, iTuneReady, edisplayEventStatus, bHDCPAuthenticated,
          hotplug_event_src, bootup_flag_enabled, glibVars, pc, event, local, seen, histVars>>

Init ==
    /\ plugged \in BOOLEAN
    /\ plugNo = IF plugged THEN 1 ELSE 0
    /\ edidReady \in BOOLEAN
    /\ tuneReady \in BOOLEAN
    /\ sent = 0 /\ spurious = 0
    /\ queue = <<>>
    /\ iTuneReady = 0
    /\ edisplayEventStatus = MAX
    /\ bHDCPAuthenticated = FALSE
    /\ hotplug_event_src = 0
    /\ bootup_flag_enabled = TRUE
    /\ timers = {} /\ lastTimer = 0
    /\ pc = [t \in Threads |->
               CASE t = Worker -> "idle" [] t = Resn -> "not created" [] OTHER -> "create thread"]
    /\ event = "none"
    /\ local = MAX
    /\ seen = [t \in Threads |-> 0]
    /\ setFor = 0 /\ audioFor = 0
    /\ tuneReadyAudio = FALSE

-----------------------------------------------------------------------------
(* The HAL and SysMgr send events. *)

Send(e) ==
    /\ sent < MaxEvents
    /\ sent' = sent + 1
    /\ queue' = Append(queue, e)
    /\ UNCHANGED spurious

Rest == UNCHANGED <<iTuneReady, edisplayEventStatus, bHDCPAuthenticated, hotplug_event_src,
                    bootup_flag_enabled, glibVars, pc, event, local, seen, histVars>>

PlugIn ==
    /\ ~plugged
    /\ plugged' = TRUE
    /\ plugNo' = plugNo + 1
    /\ edidReady' \in BOOLEAN
    /\ Send("connect")
    /\ UNCHANGED tuneReady /\ Rest

PlugOut ==
    /\ plugged
    /\ plugged' = FALSE
    /\ Send("disconnect")
    /\ UNCHANGED <<plugNo, edidReady, tuneReady>> /\ Rest

HdcpResult(e) ==
    /\ plugged
    /\ Send(e)
    /\ UNCHANGED <<plugged, plugNo, edidReady, tuneReady>> /\ Rest

SysMgrTuneReady ==
    /\ ~tuneReady
    /\ tuneReady' = TRUE
    /\ Send("tune ready")
    /\ UNCHANGED <<plugged, plugNo, edidReady>> /\ Rest

Environment ==
    \/ PlugIn \/ PlugOut \/ SysMgrTuneReady
    \/ \E e \in {"hdcp pass", "hdcp fail", "hdcp other"} : HdcpResult(e)

-----------------------------------------------------------------------------
(* Steps the threads have in common. *)

Goto(t, from, to) == pc[t] = from /\ pc' = [pc EXCEPT ![t] = to]

(* pthread_cond_signal(&tdsMutexCond): lost unless the thread is in its wait. *)
SignalAndGoto(t, from, to) ==
    /\ pc[t] = from
    /\ pc' = [u \in Threads |->
                 IF u = t THEN to
                 ELSE IF u = Resn /\ pc[u] = "waiting" THEN "woken" ELSE pc[u]]

(* _SetResolution: not "if HDMI is connected and low power mode, the TV might
   not transmit the EDID information". *)
SetResolution == setFor' = IF plugged /\ edidReady THEN plugNo ELSE setFor

(* _SetVideoPortResolution, from its entry to its end, at which the display it
   found connected has its resolution. *)
SetVideoPortResolution(t, from, to) ==
    /\ Goto(t, from, to)
    /\ SetResolution

SetAudioMode == audioFor' = IF plugged THEN plugNo ELSE audioFor

(* g_source_remove(id) *)
RemoveTimer(id) == timers' = timers \ {id}

-----------------------------------------------------------------------------
(* Event worker. *)

WorkerTake ==
    /\ queue # <<>>
    /\ event' = Head(queue)
    /\ queue' = Tail(queue)
    /\ Goto(Worker, "idle", "process")
    /\ UNCHANGED <<envVars, iTuneReady, edisplayEventStatus, bHDCPAuthenticated,
                   hotplug_event_src, bootup_flag_enabled, glibVars, local, seen, histVars>>

(* Tune ready: the first one sets the audio mode and signals. *)
WorkerTuneReady ==
    /\ event = "tune ready" /\ iTuneReady = 0
    /\ Goto(Worker, "process", "signal")
    /\ iTuneReady' = 1
    /\ SetAudioMode
    /\ tuneReadyAudio' = TRUE
    /\ UNCHANGED <<envVars, queue, edisplayEventStatus, bHDCPAuthenticated, hotplug_event_src,
                   bootup_flag_enabled, glibVars, event, local, seen, setFor>>

WorkerTuneReadyIgnored ==
    /\ event = "tune ready" /\ iTuneReady # 0
    /\ Goto(Worker, "process", "idle")
    /\ event' = "none"
    /\ UNCHANGED <<envVars, queue, iTuneReady, edisplayEventStatus, bHDCPAuthenticated,
                   hotplug_event_src, bootup_flag_enabled, glibVars, local, seen, histVars>>

WorkerSignal ==
    /\ SignalAndGoto(Worker, "signal", "idle")
    /\ event' = "none"
    /\ UNCHANGED <<envVars, queue, iTuneReady, edisplayEventStatus, bHDCPAuthenticated,
                   hotplug_event_src, bootup_flag_enabled, glibVars, local, seen, histVars>>

(* Hot plug: status and signal under tdsMutexLock. *)
WorkerHotplug ==
    /\ event \in {"connect", "disconnect"}
    /\ SignalAndGoto(Worker, "process", "idle")
    /\ edisplayEventStatus' = IF event = "connect" THEN CONNECTED ELSE DISCONNECTED
    /\ event' = "none"
    /\ UNCHANGED <<envVars, queue, iTuneReady, bHDCPAuthenticated, hotplug_event_src,
                   bootup_flag_enabled, glibVars, local, seen, histVars>>

(* HDCP pass: the flag is set, a pending delayed handler is removed. *)
WorkerHdcpPass ==
    /\ event = "hdcp pass"
    /\ Goto(Worker, "process", IF hotplug_event_src # 0 THEN "remove" ELSE "pass")
    /\ bHDCPAuthenticated' = TRUE
    /\ seen' = [seen EXCEPT ![Worker] = hotplug_event_src]
    /\ UNCHANGED <<envVars, queue, iTuneReady, edisplayEventStatus, hotplug_event_src,
                   bootup_flag_enabled, glibVars, event, local, histVars>>

WorkerRemove ==
    /\ Goto(Worker, "remove", "clear")
    /\ RemoveTimer(seen[Worker])
    /\ seen' = [seen EXCEPT ![Worker] = 0]
    /\ UNCHANGED <<envVars, queue, iTuneReady, edisplayEventStatus, bHDCPAuthenticated,
                   hotplug_event_src, bootup_flag_enabled, lastTimer, event, local, histVars>>

WorkerClear ==
    /\ Goto(Worker, "clear", "pass")
    /\ hotplug_event_src' = 0
    /\ UNCHANGED <<envVars, queue, iTuneReady, edisplayEventStatus, bHDCPAuthenticated,
                   bootup_flag_enabled, glibVars, event, local, seen, histVars>>

(* Faulty variant: setting the resolution is left to the resolution thread. *)
WorkerPassBranchLeftToHotplug ==
    /\ Goto(Worker, "pass", "broadcast")
    /\ UNCHANGED <<envVars, queue, iTuneReady, edisplayEventStatus, bHDCPAuthenticated,
                   hotplug_event_src, bootup_flag_enabled, glibVars, event, local, seen, histVars>>

WorkerPassBranch ==
    /\ Goto(Worker, "pass",
            IF ~IsIgnoreEdid_gs \/ bootup_flag_enabled THEN "setting" ELSE "broadcast")
    /\ UNCHANGED <<envVars, queue, iTuneReady, edisplayEventStatus, bHDCPAuthenticated,
                   hotplug_event_src, bootup_flag_enabled, glibVars, event, local, seen, histVars>>

(* HDCP failure. *)
WorkerHdcpFail ==
    /\ event = "hdcp fail"
    /\ Goto(Worker, "process", IF IsIgnoreEdid_gs THEN "broadcast" ELSE "setting")
    /\ bHDCPAuthenticated' = FALSE
    /\ UNCHANGED <<envVars, queue, iTuneReady, edisplayEventStatus, hotplug_event_src,
                   bootup_flag_enabled, glibVars, event, local, seen, histVars>>

WorkerHdcpOther ==
    /\ event = "hdcp other"
    /\ Goto(Worker, "process", "broadcast")
    /\ UNCHANGED <<envVars, queue, iTuneReady, edisplayEventStatus, bHDCPAuthenticated,
                   hotplug_event_src, bootup_flag_enabled, glibVars, event, local, seen, histVars>>

WorkerSet ==
    /\ SetVideoPortResolution(Worker, "setting", "broadcast")
    /\ bootup_flag_enabled' = IF event = "hdcp pass" THEN FALSE ELSE bootup_flag_enabled
    /\ UNCHANGED <<envVars, queue, iTuneReady, edisplayEventStatus, bHDCPAuthenticated,
                   hotplug_event_src, glibVars, event, local, seen, audioFor,
                   tuneReadyAudio>>

(* The state is broadcast, 0 for a failure and 1 for everything else; neither
   that nor whether the broadcast succeeds changes anything of DSMgr's. *)
WorkerBroadcast ==
    /\ Goto(Worker, "broadcast", "idle")
    /\ event' = "none"
    /\ UNCHANGED <<envVars, queue, iTuneReady, edisplayEventStatus, bHDCPAuthenticated,
                   hotplug_event_src, bootup_flag_enabled, glibVars, local, seen, histVars>>

WorkerNext ==
    \/ WorkerTake \/ WorkerTuneReady \/ WorkerTuneReadyIgnored \/ WorkerSignal \/ WorkerHotplug
    \/ WorkerHdcpPass \/ WorkerRemove \/ WorkerClear \/ WorkerPassBranch \/ WorkerHdcpFail \/ WorkerHdcpOther
    \/ WorkerSet \/ WorkerBroadcast

-----------------------------------------------------------------------------
(* Resolution thread. *)

(* pthread_cond_wait with nothing tested before it. *)
ResnWait ==
    /\ Goto(Resn, "loop", "waiting")
    /\ UNCHANGED <<envVars, queue, iTuneReady, edisplayEventStatus, bHDCPAuthenticated,
                   hotplug_event_src, bootup_flag_enabled, glibVars, event, local, seen, histVars>>

(* POSIX lets the wait return without a signal. *)
ResnSpuriousWakeup ==
    /\ spurious < MaxSpurious
    /\ spurious' = spurious + 1
    /\ Goto(Resn, "waiting", "woken")
    /\ UNCHANGED <<plugged, plugNo, edidReady, tuneReady, sent, queue, iTuneReady, edisplayEventStatus,
                   bHDCPAuthenticated, hotplug_event_src, bootup_flag_enabled, glibVars, event,
                   local, seen, histVars>>

(* Woken up: the status is copied under tdsMutexLock, then hotplug_event_src is
   read. *)
ResnCopy ==
    /\ Goto(Resn, "woken", IF hotplug_event_src # 0 THEN "remove" ELSE "removed")
    /\ local' = edisplayEventStatus
    /\ seen' = [seen EXCEPT ![Resn] = hotplug_event_src]
    /\ UNCHANGED <<envVars, queue, iTuneReady, edisplayEventStatus, bHDCPAuthenticated,
                   hotplug_event_src, bootup_flag_enabled, glibVars, event, histVars>>

ResnRemove ==
    /\ Goto(Resn, "remove", "clear")
    /\ RemoveTimer(seen[Resn])
    /\ seen' = [seen EXCEPT ![Resn] = 0]
    /\ UNCHANGED <<envVars, queue, iTuneReady, edisplayEventStatus, bHDCPAuthenticated,
                   hotplug_event_src, bootup_flag_enabled, lastTimer, event, local, histVars>>

ResnClear ==
    /\ Goto(Resn, "clear", "removed")
    /\ hotplug_event_src' = 0
    /\ UNCHANGED <<envVars, queue, iTuneReady, edisplayEventStatus, bHDCPAuthenticated,
                   bootup_flag_enabled, glibVars, event, local, seen, histVars>>

(* Connected and tune ready: the resolution if HDCP has passed, then audio. *)
ResnConnected ==
    /\ iTuneReady = 1 /\ local = CONNECTED
    /\ Goto(Resn, "removed", IF bHDCPAuthenticated THEN "setting" ELSE "audio")
    /\ UNCHANGED <<envVars, queue, iTuneReady, edisplayEventStatus, bHDCPAuthenticated,
                   hotplug_event_src, bootup_flag_enabled, glibVars, event, local, seen, histVars>>

ResnSet ==
    /\ SetVideoPortResolution(Resn, "setting", "audio")
    /\ UNCHANGED <<envVars, queue, iTuneReady, edisplayEventStatus, bHDCPAuthenticated,
                   hotplug_event_src, bootup_flag_enabled, glibVars, event, local, seen,
                   audioFor, tuneReadyAudio>>

ResnAudio ==
    /\ Goto(Resn, "audio", "loop")
    /\ SetAudioMode
    /\ UNCHANGED <<envVars, queue, iTuneReady, edisplayEventStatus, bHDCPAuthenticated,
                   hotplug_event_src, bootup_flag_enabled, glibVars, event, local, seen,
                   setFor, tuneReadyAudio>>

(* Disconnected and tune ready: the flag is cleared, the handler is delayed. *)
ResnDisconnected ==
    /\ iTuneReady = 1 /\ local = DISCONNECTED
    /\ Goto(Resn, "removed", IF ComponentPort THEN "store id" ELSE "loop")
    /\ bHDCPAuthenticated' = FALSE
    /\ IF ComponentPort
         THEN timers' = timers \cup {lastTimer + 1} /\ lastTimer' = lastTimer + 1
         ELSE UNCHANGED glibVars
    /\ UNCHANGED <<envVars, queue, iTuneReady, edisplayEventStatus, hotplug_event_src,
                   bootup_flag_enabled, event, local, seen, histVars>>

ResnStoreId ==
    /\ Goto(Resn, "store id", "loop")
    /\ hotplug_event_src' = lastTimer
    /\ UNCHANGED <<envVars, queue, iTuneReady, edisplayEventStatus, bHDCPAuthenticated,
                   bootup_flag_enabled, glibVars, event, local, seen, histVars>>

ResnNothing ==
    /\ iTuneReady = 0 \/ local = MAX
    /\ Goto(Resn, "removed", "loop")
    /\ UNCHANGED <<envVars, queue, iTuneReady, edisplayEventStatus, bHDCPAuthenticated,
                   hotplug_event_src, bootup_flag_enabled, glibVars, event, local, seen, histVars>>

ResnNext ==
    \/ ResnWait \/ ResnCopy \/ ResnRemove \/ ResnClear \/ ResnConnected \/ ResnSet \/ ResnAudio
    \/ ResnDisconnected \/ ResnStoreId \/ ResnNothing

-----------------------------------------------------------------------------
(* Main thread. *)

CreateThread ==
    /\ pc[Main] = "create thread"
    /\ pc' = [pc EXCEPT ![Main] = "query", ![Resn] = "loop"]
    /\ UNCHANGED <<envVars, queue, iTuneReady, edisplayEventStatus, bHDCPAuthenticated,
                   hotplug_event_src, bootup_flag_enabled, glibVars, event, local, seen, histVars>>

(* GetSystemStates: tune ready at start up only sets the flag. *)
QueryTuneReady ==
    /\ Goto(Main, "query", "setting")
    /\ iTuneReady' = IF tuneReady THEN 1 ELSE iTuneReady
    /\ UNCHANGED <<envVars, queue, edisplayEventStatus, bHDCPAuthenticated, hotplug_event_src,
                   bootup_flag_enabled, glibVars, event, local, seen, histVars>>

InitialSet ==
    /\ SetVideoPortResolution(Main, "setting", "main loop")
    /\ UNCHANGED <<envVars, queue, iTuneReady, edisplayEventStatus, bHDCPAuthenticated,
                   hotplug_event_src, bootup_flag_enabled, glibVars, event, local, seen,
                   audioFor, tuneReadyAudio>>

(* GLib calls _SetResolutionHandler for a source that is still there; five
   seconds are long enough for its id to have been stored. *)
TimerFires ==
    /\ pc[Resn] # "store id"
    /\ \E id \in timers : seen' = [seen EXCEPT ![Main] = id]
    /\ Goto(Main, "main loop", "setting, delayed")
    /\ UNCHANGED <<envVars, queue, iTuneReady, edisplayEventStatus, bHDCPAuthenticated,
                   hotplug_event_src, bootup_flag_enabled, glibVars, event, local, histVars>>

DelayedSet ==
    /\ SetVideoPortResolution(Main, "setting, delayed", "handler")
    /\ UNCHANGED <<envVars, queue, iTuneReady, edisplayEventStatus, bHDCPAuthenticated,
                   hotplug_event_src, bootup_flag_enabled, glibVars, event, local, seen,
                   audioFor, tuneReadyAudio>>

(* Faulty variant: the handler asks to be called again. *)
HandlerReturnTrue ==
    /\ Goto(Main, "handler", "main loop")
    /\ hotplug_event_src' = 0
    /\ UNCHANGED <<envVars, queue, iTuneReady, edisplayEventStatus, bHDCPAuthenticated,
                   bootup_flag_enabled, glibVars, event, local, seen, histVars>>

(* hotplug_event_src = 0; return FALSE: GLib drops the source. *)
HandlerReturn ==
    /\ Goto(Main, "handler", "main loop")
    /\ hotplug_event_src' = 0
    /\ RemoveTimer(seen[Main])
    /\ seen' = [seen EXCEPT ![Main] = 0]
    /\ UNCHANGED <<envVars, queue, iTuneReady, edisplayEventStatus, bHDCPAuthenticated,
                   bootup_flag_enabled, lastTimer, event, local, histVars>>

MainNext ==
    CreateThread \/ QueryTuneReady \/ InitialSet \/ TimerFires \/ DelayedSet \/ HandlerReturn

-----------------------------------------------------------------------------
Next == Environment \/ WorkerNext \/ ResnNext \/ ResnSpuriousWakeup \/ MainNext

Spec == Init /\ [][Next]_vars

(* Every thread keeps running and GLib serves a timer that has expired; no
   event has to arrive and no wait has to wake up without a signal. *)
Fairness == WF_vars(WorkerNext) /\ WF_vars(ResnNext) /\ WF_vars(MainNext)

FairSpec == Spec /\ Fairness

-----------------------------------------------------------------------------
(* Type of the state: the variables of dsMgr.c 92-103 and 195-198, the HAL's and
   GLib's, and each thread at a position of its own code. *)
TypeOK ==
    /\ plugged \in BOOLEAN /\ edidReady \in BOOLEAN /\ tuneReady \in BOOLEAN
    /\ plugNo \in 0..MaxEvents + 1 /\ sent \in 0..MaxEvents /\ spurious \in 0..MaxSpurious
    /\ Len(queue) <= sent
    /\ iTuneReady \in {0, 1}
    /\ edisplayEventStatus \in {CONNECTED, DISCONNECTED, MAX}
    /\ local \in {CONNECTED, DISCONNECTED, MAX}
    /\ bHDCPAuthenticated \in BOOLEAN /\ bootup_flag_enabled \in BOOLEAN
    /\ timers \subseteq 1..lastTimer
    /\ hotplug_event_src \in 0..lastTimer
    /\ \A t \in Threads : seen[t] \in 0..lastTimer
    /\ pc[Worker] \in {"idle", "process", "signal", "remove", "clear", "pass", "setting", "broadcast"}
    /\ pc[Resn] \in {"not created", "loop", "waiting", "woken", "remove", "clear", "removed",
                     "setting", "audio", "store id"}
    /\ pc[Main] \in {"create thread", "query", "setting", "main loop", "setting, delayed",
                     "handler"}
    /\ setFor \in 0..plugNo /\ audioFor \in 0..plugNo

(* A display that sends its EDID and passes HDCP gets its resolution set, whatever the resolution
   thread, the delayed handler and lost signals do, unless it is unplugged
   (dsMgr.c 711-728). *)
AuthenticatedIsSet ==
    \A n \in 1..MaxEvents + 1 :
        (plugged /\ plugNo = n /\ edidReady /\ queue # <<>> /\ queue[Len(queue)] = "hdcp pass")
            ~> (setFor = n \/ ~plugged \/ plugNo # n)

(* A delayed handler runs at most once: each id is dropped in the end, even one
   that hotplug_event_src no longer names (dsMgr.c 1334, 1344-1350). *)
DelayedHandlerEnds ==
    \A id \in 1..MaxEvents : (id \in timers) ~> (id \notin timers)

(* The README (line 78): "HDMI hot-plug events and resolution setting operations
   are serialized through the main loop [...] preventing race conditions between
   concurrent display events". *)
Setting == {t \in Threads : pc[t] \in {"setting", "setting, delayed"}}
ResolutionSettingIsSerialized == Cardinality(Setting) <= 1

(* The comment at dsMgr.c 1308, "On hot plug event , Remove event source": past
   that point no delayed handler is waiting to be called. *)
HotplugRemovesSource ==
    pc[Resn] = "removed" =>
        \A id \in timers : pc[Main] # "main loop" /\ seen[Main] = id

(* The comment at dsMgr.c 723, "allows dsmgr to set initial resolution
   irrespective of ignore edid only during boot": with the EDID ignored, no
   thread starts to set the resolution of a display once boot is over. *)
IgnoreEdidOnlyDuringBoot ==
    [][ IsIgnoreEdid_gs /\ ~bootup_flag_enabled /\ pc[Main] = "main loop" /\ plugged
        => Setting' \subseteq Setting ]_vars

(* The comment at dsMgr.c 1323, "Set audio mode on HDMI hot plug": a display
   plugged in after tune ready, when the resolution thread has already handled
   an event, has its audio mode set, unless it is unplugged. *)
AudioOnHotplug ==
    \A n \in 1..MaxEvents + 1 :
        (iTuneReady = 1 /\ plugged /\ plugNo = n /\ queue # <<>> /\ queue[Len(queue)] = "connect"
            /\ pc[Main] = "main loop" /\ local # MAX)
            ~> (audioFor = n \/ ~plugged \/ plugNo # n)

(* The README (line 237): "Tune Ready event: DSMgr applies the persisted audio
   mode and unblocks the resolution thread". *)
TuneReadyAppliesAudio ==
    (queue # <<>> /\ queue[Len(queue)] = "tune ready") ~> tuneReadyAudio
=============================================================================
