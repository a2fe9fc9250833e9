----------------------------- MODULE DsMgrPower -----------------------------
(***************************************************************************)
(* How DSMgr follows the power state (dsmgr/dsMgrPwrEventListener.c, with  *)
(* the LED and port part of dsMgrProductTraitsHandler.cpp).  The           *)
(* PowerController callback queues an event and signals the event thread,  *)
(* which applies it to the ports and the LED; the connect thread registers *)
(* the callback, reads the power state and applies it too; IARM calls set  *)
(* the standby setting of a video port, the ports and the LED; the main    *)
(* thread stops the event thread.                                          *)
(*                                                                         *)
(* initPwrEventListner always finds a ux_controller, for a TV or for an EU *)
(* set top box, so the branches for none are not reached.  The bootloader  *)
(* pattern is the subject of DsMgrBootPattern.  tdsPwrEventMutexLock is    *)
(* held by the event thread from its look at the queue until it waits,     *)
(* drains or exits, which is where pc is "checked"; the other critical     *)
(* sections are one step each.                                             *)
(***************************************************************************)
EXTENDS Naturals, Sequences, SequencesExt

CONSTANTS
    VideoPorts, AudioPorts,   \* the device's ports, as sequences
    BadPorts,                 \* port names that are not the device's
    AudioPersist,             \* the audio ports whose persisted setting is enabled
    Profile,                  \* "TV" or "STB_EU"
    States,                   \* the power states that occur
    StatesBeforeReboot,       \* what GetPowerStateBeforeReboot may leave in its argument
    EnableValues,             \* values of isEnabled in SetStandbyVideoState
    MaxNumVideoPorts,         \* MAX_NUM_VIDEO_PORTS
    MaxChanges, MaxCalls, MaxFailures   \* bounds: power changes, IARM calls, failing DS calls

ON == "ON"
OFF == "OFF"
STANDBY == "STANDBY"
Standbys == {STANDBY, "STANDBY_LIGHT_SLEEP", "STANDBY_DEEP_SLEEP"}

ASSUME StatesAssumption  == States \subseteq {ON, OFF} \cup Standbys
ASSUME RebootAssumption  == StatesBeforeReboot \subseteq {ON, OFF} \cup Standbys
ASSUME ProfileAssumption == Profile \in {"TV", "STB_EU"}
ASSUME PortsAssumption   == /\ VideoPorts \in Seq(ToSet(VideoPorts)) /\ AudioPorts \in Seq(ToSet(AudioPorts))
                            /\ ToSet(AudioPorts) \cap ToSet(VideoPorts) = {}
ASSUME BadAssumption     == BadPorts \cap ToSet(VideoPorts) = {}
ASSUME BoundsAssumption  == {MaxNumVideoPorts, MaxChanges, MaxCalls, MaxFailures} \subseteq Nat
ASSUME ValuesAssumption  == EnableValues \subseteq Nat

Event   == "event thread"
Connect == "connect thread"
Rpc     == "IARM call"
Main    == "main thread"
Threads == {Event, Connect, Rpc, Main}

Ports == ToSet(VideoPorts) \cup ToSet(AudioPorts)
LED   == "LED"
AllPorts == VideoPorts \o AudioPorts

ASSUME LedAssumption == LED \notin Ports

VARIABLES
    power,               \* PowerController's power state
    beforeReboot,        \* what GetPowerStateBeforeReboot leaves in its argument
    registered,          \* _PwrEventHandler is registered
    calls, failures,     \* counters for the bounds
    pwrEventQueue,       \* events, each with its number and new state
    callback,            \* where the thread of the callback is
    m_dsMgrPwrStopThread,
    queueEmpty,          \* local of the event thread
    pc,                  \* where each thread is
    job, todo,           \* the state a thread applies, and the ports it has still to do
    param,               \* the argument of the IARM call SetStandbyVideoState
    curState,
    led, enabled,        \* the power LED and the ports that are enabled
    g_standby_video_port_setting,   \* the entries in use, in the order of the array
    pushed, handled,     \* history: events queued, and the ones taken, in order
    initDoneAt,          \* history: the events queued when the connect thread ended
    touched,             \* history: what calls and failures have changed since the last event
    requested            \* history: the last standby setting asked for of each port

envVars   == <<power, beforeReboot, registered, calls, failures>>
queueVars == <<pwrEventQueue, callback, m_dsMgrPwrStopThread, queueEmpty, pushed, handled>>
jobVars   == <<job, todo, param>>
portVars  == <<led, enabled, touched>>
setVars   == <<g_standby_video_port_setting, requested>>
vars == <<envVars, queueVars, pc, jobVars, curState, portVars, setVars, initDoneAt>>

NoParam == [port |-> "", isEnabled |-> 0]

Init ==
    /\ power \in States
    /\ beforeReboot \in StatesBeforeReboot
    /\ registered = FALSE
    /\ calls = 0 /\ failures = 0
    /\ pwrEventQueue = <<>>
    /\ callback = "idle"
    /\ m_dsMgrPwrStopThread = FALSE
    /\ queueEmpty = TRUE
    /\ pc = [t \in Threads |->
               CASE t = Event -> "loop" [] t = Connect -> "connect" [] OTHER -> "idle"]
    /\ job = [t \in Threads |-> OFF]
    /\ todo = [t \in Threads |-> <<>>]
    /\ param = NoParam
    /\ curState = OFF
    /\ led = FALSE /\ enabled = {}
    /\ g_standby_video_port_setting = <<>>
    /\ pushed = 0 /\ handled = <<>>
    /\ initDoneAt = MaxChanges + 1
    /\ touched = {}
    /\ requested = [p \in ToSet(VideoPorts) |-> 0]

Goto(t, from, to) == pc[t] = from /\ pc' = [pc EXCEPT ![t] = to]

-----------------------------------------------------------------------------
(* PowerController and its callback. *)

(* The power state changes; _PwrEventHandler pushes the event under the queue
   mutex.  Changes before it is registered go unnoticed: Init has any state. *)
PowerChanges(s) ==
    /\ registered /\ callback = "idle" /\ pc[Main] # "destroyed"
    /\ pushed < MaxChanges /\ s # power
    /\ power' = s
    /\ pushed' = pushed + 1
    /\ pwrEventQueue' = Append(pwrEventQueue, [id |-> pushed + 1, newState |-> s])
    /\ callback' = "signal"
    /\ UNCHANGED <<beforeReboot, registered, calls, failures, m_dsMgrPwrStopThread, queueEmpty,
                   handled, pc, jobVars, curState, portVars, setVars, initDoneAt>>

EventMutexFree == pc[Event] # "checked"

WakeEventThread(p) ==
    IF pc[Event] = "waiting" THEN [p EXCEPT ![Event] = "woken"] ELSE p

(* Then it signals, under the event mutex. *)
CallbackSignal ==
    /\ callback = "signal" /\ EventMutexFree /\ pc[Main] # "destroyed"
    /\ callback' = "idle"
    /\ pc' = WakeEventThread(pc)
    /\ UNCHANGED <<envVars, pwrEventQueue, m_dsMgrPwrStopThread, queueEmpty, pushed, handled,
                   jobVars, curState, portVars, setVars, initDoneAt>>

-----------------------------------------------------------------------------
(* LED and ports, as any of the threads sets them. *)

(* get_video_port_standby_setting: the first entry with the name. *)
StandbySetting(p) ==
    LET at == {i \in DOMAIN g_standby_video_port_setting :
                  g_standby_video_port_setting[i].port = p}
    IN  at # {} /\ g_standby_video_port_setting[Min(at)].isEnabled

(* Faulty variant: a set top box in standby is lit. *)
LedForStandby(s) == IF Profile = "TV" THEN TRUE ELSE s # OFF

(* sync_power_led_with_power_state and _SetLEDStatus: a TV's LED is always on. *)
LedFor(s) == s = ON \/ Profile = "TV"

(* What _SetAVPortsPowerState makes of a port: on, an audio port stays as it is
   if its persisted setting is off; in standby, a video port that may stay on
   does; everything else is disabled. *)
Configured(p, s) ==
    IF s = ON THEN IF p \in ToSet(AudioPorts) \ AudioPersist THEN enabled ELSE enabled \cup {p}
    ELSE IF p \in ToSet(VideoPorts) /\ StandbySetting(p) /\ s # OFF THEN enabled
    ELSE enabled \ {p}

(* History: what an IARM call sets is no longer the last event's. *)
TouchedBy(t, S) ==
    touched' = CASE t = Event -> touched \ S [] t = Rpc -> touched \cup S [] OTHER -> touched

SetLed(t, from, to) ==
    /\ Goto(t, from, to)
    /\ led' = LedFor(job[t])
    /\ TouchedBy(t, {LED})
    /\ UNCHANGED enabled

(* Faulty variant: a port that fails ends the loop. *)
SetPortStopsAtFailure(t, from) ==
    LET p == Head(todo[t])
    IN  /\ pc[t] = from /\ todo[t] # <<>>
        /\ \/ /\ todo' = [todo EXCEPT ![t] = Tail(@)]
              /\ enabled' = Configured(p, job[t]) /\ TouchedBy(t, {p}) /\ UNCHANGED failures
           \/ /\ failures < MaxFailures
              /\ failures' = failures + 1
              /\ todo' = [todo EXCEPT ![t] = <<>>]
              /\ touched' = touched \cup {p}
              /\ UNCHANGED enabled
        /\ UNCHANGED <<pc, led>>

(* _SetAVPortsPowerState: port after port; one that fails is skipped. *)
SetPort(t, from) ==
    LET p == Head(todo[t])
    IN  /\ pc[t] = from /\ todo[t] # <<>>
        /\ todo' = [todo EXCEPT ![t] = Tail(@)]
        /\ \/ enabled' = Configured(p, job[t]) /\ TouchedBy(t, {p}) /\ UNCHANGED failures
           \/ /\ failures < MaxFailures
              /\ failures' = failures + 1
              /\ touched' = touched \cup {p}
              /\ UNCHANGED enabled
        /\ UNCHANGED <<pc, led>>

(* The locals of a call that returns are forgotten; the state the event thread
   has applied is kept for the properties. *)
PortsDone(t, from, to) ==
    /\ todo[t] = <<>> /\ Goto(t, from, to)
    /\ job' = IF t = Event THEN job ELSE [job EXCEPT ![t] = OFF]

-----------------------------------------------------------------------------
(* Event thread. *)

(* Faulty variant: the queue is not looked at before the first wait. *)
EventLoopBlind ==
    /\ \/ Goto(Event, "loop", "checked") /\ queueEmpty' = TRUE
       \/ Goto(Event, "woken", "checked") /\ queueEmpty' = (pwrEventQueue = <<>>)
    /\ UNCHANGED <<envVars, pwrEventQueue, callback, m_dsMgrPwrStopThread, pushed, handled,
                   jobVars, curState, portVars, setVars, initDoneAt>>

(* The event mutex is taken, before the loop and on return from the wait, and
   the queue is looked at. *)
EventLoop ==
    /\ Goto(Event, "loop", "checked") \/ Goto(Event, "woken", "checked")
    /\ queueEmpty' = (pwrEventQueue = <<>>)
    /\ UNCHANGED <<envVars, pwrEventQueue, callback, m_dsMgrPwrStopThread, pushed, handled,
                   jobVars, curState, portVars, setVars, initDoneAt>>

EventDecide ==
    /\ Goto(Event, "checked", IF m_dsMgrPwrStopThread THEN "exited"
                              ELSE IF queueEmpty THEN "waiting" ELSE "drain")
    /\ queueEmpty' = TRUE
    /\ UNCHANGED <<envVars, pwrEventQueue, callback, m_dsMgrPwrStopThread, pushed, handled,
                   jobVars, curState, portVars, setVars, initDoneAt>>

EventSpuriousWakeup ==
    /\ Goto(Event, "waiting", "woken")
    /\ UNCHANGED <<envVars, queueVars, jobVars, curState, portVars, setVars, initDoneAt>>

(* Faulty variant: the newest event is taken. *)
EventTakeNewest ==
    /\ pwrEventQueue # <<>>
    /\ Goto(Event, "drain", IF Profile = "TV" THEN "ports" ELSE "led")
    /\ job' = [job EXCEPT ![Event] = Last(pwrEventQueue).newState]
    /\ todo' = [todo EXCEPT ![Event] = AllPorts]
    /\ handled' = Append(handled, Last(pwrEventQueue).id)
    /\ pwrEventQueue' = Front(pwrEventQueue)
    /\ UNCHANGED <<envVars, callback, m_dsMgrPwrStopThread, queueEmpty, pushed, param, curState,
                   portVars, setVars, initDoneAt>>

(* The oldest event is handled, with the queue mutex released: a TV's LED is
   left alone by applyPowerStateChangeConfig. *)
EventTake ==
    /\ pwrEventQueue # <<>>
    /\ Goto(Event, "drain", IF Profile = "TV" THEN "ports" ELSE "led")
    /\ job' = [job EXCEPT ![Event] = Head(pwrEventQueue).newState]
    /\ todo' = [todo EXCEPT ![Event] = AllPorts]
    /\ handled' = Append(handled, Head(pwrEventQueue).id)
    /\ pwrEventQueue' = Tail(pwrEventQueue)
    /\ UNCHANGED <<envVars, callback, m_dsMgrPwrStopThread, queueEmpty, pushed, param, curState,
                   portVars, setVars, initDoneAt>>

EventLed ==
    /\ SetLed(Event, "led", "ports")
    /\ UNCHANGED <<envVars, queueVars, jobVars, curState, setVars, initDoneAt>>

EventPort ==
    /\ SetPort(Event, "ports")
    /\ UNCHANGED <<power, beforeReboot, registered, calls, queueVars, job, param, curState,
                   setVars, initDoneAt>>

EventHandled ==
    /\ PortsDone(Event, "ports", "drain")
    /\ UNCHANGED <<envVars, queueVars, todo, param, curState, portVars, setVars, initDoneAt>>

EventDrained ==
    /\ pwrEventQueue = <<>>
    /\ Goto(Event, "drain", "loop")
    /\ UNCHANGED <<envVars, queueVars, jobVars, curState, portVars, setVars, initDoneAt>>

EventNext ==
    EventLoop \/ EventDecide \/ EventTake \/ EventLed \/ EventPort \/ EventHandled \/ EventDrained

-----------------------------------------------------------------------------
(* Connect thread. *)

(* PowerController_Connect succeeds; as long as it fails the thread retries. *)
ConnectSucceeds ==
    /\ Goto(Connect, "connect", "register")
    /\ UNCHANGED <<envVars, queueVars, jobVars, curState, portVars, setVars, initDoneAt>>

RegisterCallback ==
    /\ Goto(Connect, "register", "get state")
    /\ registered' = TRUE
    /\ UNCHANGED <<power, beforeReboot, calls, failures, queueVars, jobVars, curState, portVars,
                   setVars, initDoneAt>>

(* GetPowerState; if it fails curState stays OFF. *)
GetPowerState ==
    /\ Goto(Connect, "get state", "post reboot")
    /\ \/ curState' = power /\ UNCHANGED failures
       \/ failures < MaxFailures /\ failures' = failures + 1 /\ UNCHANGED curState
    /\ UNCHANGED <<power, beforeReboot, registered, calls, queueVars, jobVars, portVars, setVars,
                   initDoneAt>>

(* applyPostRebootConfig: a device that was on and boots into standby is left
   on for the application; so is the LED of a set top box. *)
PostRebootState ==
    IF beforeReboot = ON /\ curState = STANDBY THEN ON ELSE curState

ApplyPostRebootConfig ==
    /\ Goto(Connect, "post reboot", "led")
    /\ job' = [job EXCEPT ![Connect] = PostRebootState]
    /\ todo' = [todo EXCEPT ![Connect] = AllPorts]
    /\ UNCHANGED <<envVars, queueVars, param, curState, portVars, setVars, initDoneAt>>

ConnectLed ==
    /\ SetLed(Connect, "led", "ports")
    /\ UNCHANGED <<envVars, queueVars, jobVars, curState, setVars, initDoneAt>>

ConnectPort ==
    /\ SetPort(Connect, "ports")
    /\ UNCHANGED <<power, beforeReboot, registered, calls, queueVars, job, param, curState,
                   setVars, initDoneAt>>

ConnectDone ==
    /\ PortsDone(Connect, "ports", "done")
    /\ initDoneAt' = pushed
    /\ UNCHANGED <<envVars, queueVars, todo, param, curState, portVars, setVars>>

ConnectNext ==
    RegisterCallback \/ GetPowerState \/ ApplyPostRebootConfig \/ ConnectLed \/ ConnectPort
        \/ ConnectDone

-----------------------------------------------------------------------------
(* IARM calls. *)

Call(to) ==
    /\ calls < MaxCalls
    /\ calls' = calls + 1
    /\ Goto(Rpc, "idle", to)
    /\ UNCHANGED <<power, beforeReboot, registered, failures, queueVars, curState, initDoneAt>>

Entry(p, v) == [port |-> p, isEnabled |-> v # 0]

(* Faulty variants: the table is not searched for the name, or is written past
   its end. *)
StandbyTableNoSearch(p, v) ==
    IF Len(g_standby_video_port_setting) < MaxNumVideoPorts
      THEN Append(g_standby_video_port_setting, Entry(p, v))
      ELSE g_standby_video_port_setting

StandbyTableNoRoomCheck(p, v) ==
    LET at == {i \in DOMAIN g_standby_video_port_setting :
                  g_standby_video_port_setting[i].port = p}
    IN  IF at # {} THEN [g_standby_video_port_setting EXCEPT ![Min(at)] = Entry(p, v)]
        ELSE Append(g_standby_video_port_setting, Entry(p, v))

(* The entry with the name is updated, or one is added if there is room. *)
StandbyTable(p, v) ==
    LET at == {i \in DOMAIN g_standby_video_port_setting :
                  g_standby_video_port_setting[i].port = p}
    IN  IF at # {} THEN [g_standby_video_port_setting EXCEPT ![Min(at)] = Entry(p, v)]
        ELSE IF Len(g_standby_video_port_setting) < MaxNumVideoPorts
          THEN Append(g_standby_video_port_setting, Entry(p, v))
          ELSE g_standby_video_port_setting

(* _SetStandbyVideoState writes the table, whether or not there is such a port. *)
SetStandbyVideoState(p, v) ==
    /\ Call("apply setting")
    /\ param' = [port |-> p, isEnabled |-> v]
    /\ g_standby_video_port_setting' = StandbyTable(p, v)
    /\ requested' = IF p \in BadPorts THEN requested ELSE [requested EXCEPT ![p] = v]
    /\ touched' = touched \cup {p}
    /\ UNCHANGED <<job, todo, led, enabled>>

SettingIsForNow == param.port \notin BadPorts /\ curState \notin {ON, OFF}

(* Then it sets the port, if curState is a standby state. *)
ApplySetting ==
    /\ Goto(Rpc, "apply setting", "idle")
    /\ enabled' = IF ~SettingIsForNow THEN enabled
                  ELSE IF param.isEnabled = 1 THEN enabled \cup {param.port}
                  ELSE enabled \ {param.port}
    /\ touched' = touched \cup {param.port}
    /\ param' = NoParam
    /\ UNCHANGED <<envVars, queueVars, job, todo, curState, led, setVars, initDoneAt>>

SetAvPortState(s) ==
    /\ Call("ports")
    /\ job' = [job EXCEPT ![Rpc] = s]
    /\ todo' = [todo EXCEPT ![Rpc] = AllPorts]
    /\ UNCHANGED <<param, portVars, setVars>>

RpcPort ==
    /\ SetPort(Rpc, "ports")
    /\ UNCHANGED <<power, beforeReboot, registered, calls, queueVars, job, param, curState,
                   setVars, initDoneAt>>

RpcPortsDone ==
    /\ PortsDone(Rpc, "ports", "idle")
    /\ UNCHANGED <<envVars, queueVars, todo, param, curState, portVars, setVars, initDoneAt>>

SetLEDState(s) ==
    /\ Call("idle")
    /\ led' = LedFor(s)
    /\ touched' = touched \cup {LED}
    /\ UNCHANGED <<jobVars, enabled, setVars>>

RpcBegin ==
    \/ \E p \in ToSet(VideoPorts) \cup BadPorts, v \in EnableValues : SetStandbyVideoState(p, v)
    \/ \E s \in States : SetAvPortState(s) \/ SetLEDState(s)

RpcNext == ApplySetting \/ RpcPort \/ RpcPortsDone

-----------------------------------------------------------------------------
(* dsMgrDeinitPwrControllerEvt. *)

RequestStop ==
    /\ Goto(Main, "idle", "stop")
    /\ UNCHANGED <<envVars, queueVars, jobVars, curState, portVars, setVars, initDoneAt>>

(* Faulty variant: the event thread is not signalled. *)
StopSignalSilent ==
    /\ pc[Main] = "stop" /\ EventMutexFree
    /\ m_dsMgrPwrStopThread' = TRUE
    /\ pc' = [pc EXCEPT ![Main] = "join"]
    /\ UNCHANGED <<envVars, pwrEventQueue, callback, queueEmpty, pushed, handled, jobVars,
                   curState, portVars, setVars, initDoneAt>>

StopSignal ==
    /\ pc[Main] = "stop" /\ EventMutexFree
    /\ m_dsMgrPwrStopThread' = TRUE
    /\ pc' = WakeEventThread([pc EXCEPT ![Main] = "join"])
    /\ UNCHANGED <<envVars, pwrEventQueue, callback, queueEmpty, pushed, handled, jobVars,
                   curState, portVars, setVars, initDoneAt>>

StopJoin ==
    /\ pc[Event] = "exited"
    /\ Goto(Main, "join", "clear")
    /\ UNCHANGED <<envVars, queueVars, jobVars, curState, portVars, setVars, initDoneAt>>

(* The queue is emptied, the mutexes and the condition are destroyed. *)
StopClear ==
    /\ Goto(Main, "clear", "destroyed")
    /\ pwrEventQueue' = <<>>
    /\ UNCHANGED <<envVars, callback, m_dsMgrPwrStopThread, queueEmpty, pushed, handled, jobVars,
                   curState, portVars, setVars, initDoneAt>>

-----------------------------------------------------------------------------
Next ==
    \/ \E s \in States : PowerChanges(s)
    \/ CallbackSignal
    \/ EventNext \/ EventSpuriousWakeup
    \/ ConnectSucceeds \/ ConnectNext
    \/ RpcBegin \/ RpcNext
    \/ RequestStop \/ StopSignal \/ StopJoin \/ StopClear

Spec == Init /\ [][Next]_vars

(* Threads that can run do, and a mutex is granted to whoever waits for it;
   nothing forces the power state to change, a call to be made, the
   connection to succeed or DSMgr to be stopped. *)
Fairness ==
    /\ WF_vars(EventNext) /\ WF_vars(ConnectNext) /\ WF_vars(RpcNext)
    /\ SF_vars(CallbackSignal) /\ SF_vars(StopSignal)
    /\ WF_vars(StopJoin) /\ WF_vars(StopClear)

FairSpec == Spec /\ Fairness

-----------------------------------------------------------------------------
(* Type of the state: the variables of dsMgrPwrEventListener.c 65-98, the
   threads' positions and the history. *)
TypeOK ==
    /\ power \in States /\ curState \in States \cup {OFF}
    /\ registered \in BOOLEAN /\ callback \in {"idle", "signal"}
    /\ \A i \in DOMAIN pwrEventQueue :
          pwrEventQueue[i].id \in 1..pushed /\ pwrEventQueue[i].newState \in States
    /\ m_dsMgrPwrStopThread \in BOOLEAN /\ queueEmpty \in BOOLEAN
    /\ pc[Event] \in {"loop", "checked", "waiting", "woken", "drain", "led", "ports", "exited"}
    /\ pc[Connect] \in {"connect", "register", "get state", "post reboot", "led", "ports", "done"}
    /\ pc[Rpc] \in {"idle", "apply setting", "ports"}
    /\ pc[Main] \in {"idle", "stop", "join", "clear", "destroyed"}
    /\ led \in BOOLEAN /\ enabled \subseteq Ports
    /\ Len(g_standby_video_port_setting) <= MaxNumVideoPorts
    /\ touched \subseteq Ports \cup BadPorts \cup {LED}

(* The power event queue keeps the promise of EventChannel: every event that
   the callback queues is handled once and in order until the queue is torn
   down, whatever the event thread, the callback and the stop do between the
   two mutexes (dsMgrPwrEventListener.c 261-269, 852-895, 948-962). *)
Channel == INSTANCE EventChannel WITH
    QueueMax <- MaxChanges + 1, MaxEvents <- MaxChanges,
    accepted <- [i \in 1..pushed |-> i], handed <- handled, open <- pc[Main] # "destroyed"
ImplementsChannel == Channel!ChanSpec

(* No wakeup is lost: an event that is queued is handled, unless DSMgr is being
   stopped (dsMgrPwrEventListener.c 852-868). *)
PowerEventHandled ==
    \A n \in 1..MaxChanges :
        (pushed >= n) ~> (n \in ToSet(handled) \/ m_dsMgrPwrStopThread)

(* A stop joins the event thread, wherever it is when the stop comes
   (dsMgrPwrEventListener.c 948-970). *)
StopCompletes == (pc[Main] = "stop") ~> (pc[Main] = "destroyed")

(* A port is as the power state asks: on, enabled, an audio port only if it is
   persisted so; off, disabled; in standby, disabled unless it may stay on. *)
Matches(p, s) ==
    CASE p = LED -> Profile = "STB_EU" => (led <=> s = ON)
      [] p # LED /\ s = ON -> p \in enabled \/ p \in ToSet(AudioPorts) \ AudioPersist
      [] p # LED /\ s # ON -> p \in enabled => s # OFF /\ p \in ToSet(VideoPorts) /\ StandbySetting(p)

(* The event thread has handled every event. *)
Settled ==
    /\ pwrEventQueue = <<>> /\ handled # <<>>
    /\ pc[Event] \in {"loop", "checked", "waiting", "woken", "drain", "exited"}
    /\ pc[Connect] = "done" /\ pc[Main] = "idle"

(* Once every event is handled, the ports and the LED are as the last event's
   state asks, but for what a call or a failing port has changed since; events
   that came while the connect thread was still at work are left out
   (dsMgrPwrEventListener.c 474-638, 883-895, 909-911). *)
PortsFollowPower ==
    Settled /\ Last(handled) > initDoneAt =>
        \A p \in (Ports \cup {LED}) \ touched : Matches(p, job[Event])

(* The standby setting that was asked for last is the one that is read, unless
   the port has found no room in the table (dsMgrPwrEventListener.c 648-655,
   671-697). *)
SettingIsKept ==
    \A p \in ToSet(VideoPorts) :
        \/ StandbySetting(p) <=> requested[p] # 0
        \/ /\ Len(g_standby_video_port_setting) = MaxNumVideoPorts
           /\ \A i \in DOMAIN g_standby_video_port_setting :
                 g_standby_video_port_setting[i].port # p

(* The README (line 64): "DSMgr connects to the WPEFramework PowerController
   plugin to receive power state transitions, applying corresponding AV port
   enable/disable and front-panel LED configurations at each state transition":
   as PortsFollowPower, for every event. *)
TransitionIsApplied ==
    Settled => \A p \in (Ports \cup {LED}) \ touched : Matches(p, job[Event])

(* The comment at dsMgrPwrEventListener.c 704, "We're currently in one of the
   standby states. This new setting needs to be applied right away.": with no
   power event on its way, a setting is applied right away exactly if the power
   state is a standby state. *)
AppliedRightAway ==
    Settled /\ pc[Rpc] = "apply setting" /\ param.port \notin BadPorts
        => (SettingIsForNow <=> power \in Standbys)
=============================================================================
