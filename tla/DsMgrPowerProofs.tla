--------------------------- MODULE DsMgrPowerProofs ---------------------------
(***************************************************************************)
(* Proofs about DsMgrPower, for every device, every size of the standby    *)
(* table and every number of power changes, calls and failures.            *)
(*                                                                         *)
(* The power queue implements EventChannel because the events in it are    *)
(* numbered on from the last one taken until the queue is torn down, which *)
(* happens after the event thread has exited.  The standby setting that is *)
(* read is the one asked for last because no name is twice in the table.   *)
(* The ports follow the last event because, while the event thread is at   *)
(* work, each port is still to be done, as the event asks, or touched.     *)
(***************************************************************************)
EXTENDS DsMgrPower, TLAPS

Names == ToSet(VideoPorts) \cup BadPorts

PcType ==
    /\ pc = [t \in Threads |-> pc[t]]
    /\ pc[Event] \in {"loop", "checked", "waiting", "woken", "drain", "led", "ports", "exited"}
    /\ pc[Connect] \in {"connect", "register", "get state", "post reboot", "led", "ports", "done"}
    /\ pc[Rpc] \in {"idle", "apply setting", "ports"}
    /\ pc[Main] \in {"idle", "stop", "join", "clear", "destroyed"}
StateType == power \in States /\ curState \in States \cup {OFF}
FlagType  == /\ registered \in BOOLEAN /\ callback \in {"idle", "signal"}
             /\ m_dsMgrPwrStopThread \in BOOLEAN /\ queueEmpty \in BOOLEAN
QueueType == /\ pwrEventQueue \in Seq([id : Nat, newState : States])
             /\ pushed \in 0..MaxChanges /\ handled \in Seq(Nat)
JobType   == DOMAIN job = Threads /\ todo \in [Threads -> Seq(Ports)]
ParamType == pc[Rpc] = "apply setting" => param.port \in Names
PortType  == led \in BOOLEAN /\ enabled \subseteq Ports /\ touched \subseteq Ports \cup BadPorts \cup {LED}
TableType == /\ g_standby_video_port_setting \in Seq([port : Names, isEnabled : BOOLEAN])
             /\ Len(g_standby_video_port_setting) <= MaxNumVideoPorts
             /\ requested \in [ToSet(VideoPorts) -> Nat]

Types == /\ PcType /\ StateType /\ FlagType /\ QueueType
         /\ JobType /\ ParamType /\ PortType /\ TableType

-----------------------------------------------------------------------------
(* The queue is torn down when the event thread is gone; until then its
   events are numbered on from the last one taken. *)
ExitInv == pc[Main] \in {"clear", "destroyed"} => pc[Event] = "exited"

NumberInv ==
    /\ \A i \in 1..Len(handled) : handled[i] = i
    /\ \A i \in 1..Len(pwrEventQueue) : pwrEventQueue[i].id = Len(handled) + i
    /\ IF pc[Main] = "destroyed"
       THEN pwrEventQueue = <<>> /\ Len(handled) <= pushed
       ELSE Len(handled) + Len(pwrEventQueue) = pushed

-----------------------------------------------------------------------------
(* No name is twice in the standby table, and its entry is what was asked for
   last. *)
EntriesOf(p) == {i \in 1..Len(g_standby_video_port_setting) :
                    g_standby_video_port_setting[i].port = p}

NamesDiffer == \A p : \A i, j \in EntriesOf(p) : i = j

SettingInv ==
    /\ NamesDiffer
    /\ \A p \in ToSet(VideoPorts) :
          /\ EntriesOf(p) = {} =>
                requested[p] = 0 \/ Len(g_standby_video_port_setting) = MaxNumVideoPorts
          /\ \A i \in EntriesOf(p) :
                g_standby_video_port_setting[i].isEnabled <=> requested[p] # 0

-----------------------------------------------------------------------------
(* The event thread has ports to do only while it handles an event. *)
TodoInv ==
    /\ pc[Event] \notin {"led", "ports"} => todo[Event] = <<>>
    /\ pc[Event] = "led" => todo[Event] = AllPorts

(* If the last event came after the connect thread had ended, each port is to
   be done, as the event asks, or touched. *)
Following == pc[Connect] = "done" /\ handled # <<>> /\ Last(handled) > initDoneAt

FollowInv ==
    Following =>
        /\ pc[Event] # "led" => LED \in touched \/ Matches(LED, job[Event])
        /\ \A p \in Ports : p \in ToSet(todo[Event]) \/ p \in touched \/ Matches(p, job[Event])

-----------------------------------------------------------------------------
(* Types. *)

LEMMA PortNames ==
    /\ AllPorts \in Seq(Ports) /\ ToSet(AllPorts) = Ports
    /\ ToSet(VideoPorts) \subseteq Ports
<1>1. AllPorts \in Seq(Ports)
  BY PortsAssumption DEF AllPorts, Ports
<1>2. \A i \in 1..Len(VideoPorts) : AllPorts[i] = VideoPorts[i] /\ i \in 1..Len(AllPorts)
  BY PortsAssumption DEF AllPorts
<1>3. \A i \in 1..Len(AudioPorts) :
         AllPorts[Len(VideoPorts) + i] = AudioPorts[i] /\ Len(VideoPorts) + i \in 1..Len(AllPorts)
  BY PortsAssumption DEF AllPorts
<1>4. /\ DOMAIN AllPorts = 1..Len(AllPorts) /\ DOMAIN VideoPorts = 1..Len(VideoPorts)
      /\ DOMAIN AudioPorts = 1..Len(AudioPorts)
  BY <1>1, PortsAssumption
<1>5. Ports \subseteq ToSet(AllPorts)
  BY <1>2, <1>3, <1>4 DEF Ports, ToSet
<1>6. ToSet(AllPorts) \subseteq Ports
  BY <1>1, <1>4 DEF ToSet
<1>7. QED
  BY <1>1, <1>5, <1>6 DEF Ports

(* The ports still to do lose the one that is done. *)
LEMMA NextPort ==
    ASSUME NEW s \in Seq(Ports), s # <<>>
    PROVE  /\ Head(s) \in Ports /\ Tail(s) \in Seq(Ports)
           /\ \A p \in ToSet(s) : p = Head(s) \/ p \in ToSet(Tail(s))
<1>1. /\ Head(s) = s[1] /\ Len(s) >= 1 /\ Tail(s) \in Seq(Ports) /\ Len(Tail(s)) = Len(s) - 1
      /\ \A i \in 1..Len(Tail(s)) : Tail(s)[i] = s[i + 1]
  OBVIOUS
<1>2. DOMAIN s = 1..Len(s) /\ DOMAIN Tail(s) = 1..Len(Tail(s))
  BY <1>1
<1>3. ASSUME NEW i \in 1..Len(s), i # 1
      PROVE  i - 1 \in 1..Len(Tail(s)) /\ Tail(s)[i - 1] = s[i]
  BY <1>1, <1>3
<1>4. ASSUME NEW p \in ToSet(s), p # Head(s)
      PROVE  p \in ToSet(Tail(s))
  <2>1. PICK i \in 1..Len(s) : s[i] = p
    BY <1>2 DEF ToSet
  <2>2. i - 1 \in DOMAIN Tail(s) /\ Tail(s)[i - 1] = p
    BY <1>1, <1>2, <1>3, <1>4, <2>1
  <2>3. QED
    BY <2>2 DEF ToSet
<1>5. QED
  BY <1>1, <1>4

(* Replacing an entry keeps the length and the other entries. *)
LEMMA Replaced ==
    ASSUME NEW R, NEW s \in Seq(R), NEW k, NEW e \in R
    PROVE  /\ [s EXCEPT ![k] = e] \in Seq(R)
           /\ Len([s EXCEPT ![k] = e]) = Len(s)
           /\ \A i \in 1..Len(s) : [s EXCEPT ![k] = e][i] = IF i = k THEN e ELSE s[i]
<1> DEFINE r == [s EXCEPT ![k] = e]
<1>1. Len(s) \in Nat /\ DOMAIN s = 1..Len(s) /\ \A i \in 1..Len(s) : s[i] \in R
  OBVIOUS
<1>2. /\ DOMAIN r = 1..Len(s) /\ r = [i \in 1..Len(s) |-> r[i]]
      /\ \A i \in 1..Len(s) : r[i] = IF i = k THEN e ELSE s[i]
  BY <1>1
<1> HIDE DEF r
<1>3. r \in [1..Len(s) -> R]
  BY <1>1, <1>2
<1>4. r \in Seq(R) /\ Len(r) = Len(s)
  BY <1>1, <1>3
<1>5. QED
  BY <1>2, <1>4 DEF r

LEMMA InitType == Init => Types
<1> SUFFICES ASSUME Init PROVE Types
  OBVIOUS
<1>1. PcType /\ ParamType
  BY DEF Init, PcType, ParamType, Threads, Event, Connect, Rpc, Main
<1>2. StateType /\ FlagType
  BY DEF Init, StateType, FlagType
<1>3. QueueType
  BY BoundsAssumption DEF Init, QueueType
<1>4. JobType
  BY DEF Init, JobType
<1>5. PortType
  BY DEF Init, PortType
<1>6. TableType
  BY BoundsAssumption DEF Init, TableType
<1>7. QED
  BY <1>1, <1>2, <1>3, <1>4, <1>5, <1>6 DEF Types

(* Where the threads go. *)
LEMMA PcStep == PcType /\ [Next]_vars => PcType'
<1> SUFFICES ASSUME PcType, [Next]_vars PROVE PcType'
  OBVIOUS
<1> USE DEF PcType, Goto, Threads, Event, Connect, Rpc, Main
<1>1. ASSUME NEW s \in States, PowerChanges(s)
      PROVE  PcType'
  BY <1>1 DEF PowerChanges
<1>2. CASE CallbackSignal
  BY <1>2 DEF CallbackSignal, WakeEventThread
<1>3. CASE EventLoop
  BY <1>3 DEF EventLoop
<1>4. CASE EventDecide
  BY <1>4 DEF EventDecide
<1>5. CASE EventTake
  BY <1>5 DEF EventTake
<1>6. CASE EventLed
  BY <1>6 DEF EventLed, SetLed
<1>7. CASE EventPort
  BY <1>7 DEF EventPort, SetPort
<1>8. CASE EventHandled
  BY <1>8 DEF EventHandled, PortsDone
<1>9. CASE EventDrained
  BY <1>9 DEF EventDrained
<1>10. CASE EventSpuriousWakeup
  BY <1>10 DEF EventSpuriousWakeup
<1>11. CASE ConnectSucceeds
  BY <1>11 DEF ConnectSucceeds
<1>12. CASE RegisterCallback
  BY <1>12 DEF RegisterCallback
<1>13. CASE GetPowerState
  BY <1>13 DEF GetPowerState
<1>14. CASE ApplyPostRebootConfig
  BY <1>14 DEF ApplyPostRebootConfig
<1>15. CASE ConnectLed
  BY <1>15 DEF ConnectLed, SetLed
<1>16. CASE ConnectPort
  BY <1>16 DEF ConnectPort, SetPort
<1>17. CASE ConnectDone
  BY <1>17 DEF ConnectDone, PortsDone
<1>18. ASSUME NEW n \in Names, NEW v \in EnableValues, SetStandbyVideoState(n, v)
      PROVE  PcType'
  BY <1>18 DEF SetStandbyVideoState, Call
<1>19. ASSUME NEW s \in States, SetAvPortState(s)
      PROVE  PcType'
  BY <1>19 DEF SetAvPortState, Call
<1>20. ASSUME NEW s \in States, SetLEDState(s)
      PROVE  PcType'
  BY <1>20 DEF SetLEDState, Call
<1>21. CASE ApplySetting
  BY <1>21 DEF ApplySetting
<1>22. CASE RpcPort
  BY <1>22 DEF RpcPort, SetPort
<1>23. CASE RpcPortsDone
  BY <1>23 DEF RpcPortsDone, PortsDone
<1>24. CASE RequestStop
  BY <1>24 DEF RequestStop
<1>25. CASE StopSignal
  BY <1>25 DEF StopSignal, WakeEventThread
<1>26. CASE StopJoin
  BY <1>26 DEF StopJoin
<1>27. CASE StopClear
  BY <1>27 DEF StopClear
<1>28. CASE UNCHANGED vars
  BY <1>28 DEF vars
<1>29. QED
  BY <1>1, <1>2, <1>3, <1>4, <1>5, <1>6, <1>7, <1>8, <1>9, <1>10, <1>11, <1>12, <1>13, <1>14, <1>15,
     <1>16, <1>17, <1>18, <1>19, <1>20, <1>21, <1>22, <1>23, <1>24, <1>25, <1>26, <1>27, <1>28
     DEF Next, EventNext, ConnectNext, RpcBegin, RpcNext, Names

(* Each part depends on its own variables only. *)
LEMMA TypesKept ==
    ASSUME Types
    PROVE  /\ UNCHANGED <<power, curState>> => StateType'
           /\ UNCHANGED <<registered, callback, m_dsMgrPwrStopThread, queueEmpty>> => FlagType'
           /\ UNCHANGED <<pwrEventQueue, pushed, handled>> => QueueType'
           /\ UNCHANGED <<job, todo>> => JobType'
           /\ UNCHANGED <<led, enabled, touched>> => PortType'
           /\ UNCHANGED <<g_standby_video_port_setting, requested>> => TableType'
<1>1. UNCHANGED <<power, curState>> => StateType'
  BY DEF Types, StateType
<1>2. UNCHANGED <<registered, callback, m_dsMgrPwrStopThread, queueEmpty>> => FlagType'
  BY DEF Types, FlagType
<1>3. UNCHANGED <<pwrEventQueue, pushed, handled>> => QueueType'
  BY DEF Types, QueueType
<1>4. UNCHANGED <<job, todo>> => JobType'
  BY DEF Types, JobType
<1>5. UNCHANGED <<led, enabled, touched>> => PortType'
  BY DEF Types, PortType
<1>6. UNCHANGED <<g_standby_video_port_setting, requested>> => TableType'
  BY DEF Types, TableType
<1>7. QED
  BY <1>1, <1>2, <1>3, <1>4, <1>5, <1>6

(* The argument of SetStandbyVideoState is a port's name until it is applied. *)
LEMMA ParamStep ==
    ASSUME Types, [Next]_vars
    PROVE  ParamType'
<1> USE DEF Types, ParamType, PcType, Goto, Threads, Event, Connect, Rpc, Main, jobVars
<1>1. ASSUME NEW s \in States, PowerChanges(s)
      PROVE  ParamType'
  BY <1>1 DEF PowerChanges
<1>2. CASE CallbackSignal
  BY <1>2 DEF CallbackSignal, WakeEventThread
<1>3. CASE EventLoop
  BY <1>3 DEF EventLoop
<1>4. CASE EventDecide
  BY <1>4 DEF EventDecide
<1>5. CASE EventTake
  BY <1>5 DEF EventTake
<1>6. CASE EventLed
  BY <1>6 DEF EventLed, SetLed
<1>7. CASE EventPort
  BY <1>7 DEF EventPort, SetPort
<1>8. CASE EventHandled
  BY <1>8 DEF EventHandled, PortsDone
<1>9. CASE EventDrained
  BY <1>9 DEF EventDrained
<1>10. CASE EventSpuriousWakeup
  BY <1>10 DEF EventSpuriousWakeup
<1>11. CASE ConnectSucceeds
  BY <1>11 DEF ConnectSucceeds
<1>12. CASE RegisterCallback
  BY <1>12 DEF RegisterCallback
<1>13. CASE GetPowerState
  BY <1>13 DEF GetPowerState
<1>14. CASE ApplyPostRebootConfig
  BY <1>14 DEF ApplyPostRebootConfig
<1>15. CASE ConnectLed
  BY <1>15 DEF ConnectLed, SetLed
<1>16. CASE ConnectPort
  BY <1>16 DEF ConnectPort, SetPort
<1>17. CASE ConnectDone
  BY <1>17 DEF ConnectDone, PortsDone
<1>18. ASSUME NEW n \in Names, NEW v \in EnableValues, SetStandbyVideoState(n, v)
      PROVE  ParamType'
  BY <1>18 DEF SetStandbyVideoState, Call
<1>19. ASSUME NEW s \in States, SetAvPortState(s)
      PROVE  ParamType'
  BY <1>19 DEF SetAvPortState, Call
<1>20. ASSUME NEW s \in States, SetLEDState(s)
      PROVE  ParamType'
  BY <1>20 DEF SetLEDState, Call
<1>21. CASE ApplySetting
  BY <1>21 DEF ApplySetting
<1>22. CASE RpcPort
  BY <1>22 DEF RpcPort, SetPort
<1>23. CASE RpcPortsDone
  BY <1>23 DEF RpcPortsDone, PortsDone
<1>24. CASE RequestStop
  BY <1>24 DEF RequestStop
<1>25. CASE StopSignal
  BY <1>25 DEF StopSignal, WakeEventThread
<1>26. CASE StopJoin
  BY <1>26 DEF StopJoin
<1>27. CASE StopClear
  BY <1>27 DEF StopClear
<1>28. CASE UNCHANGED vars
  BY <1>28 DEF vars
<1>29. QED
  BY <1>1, <1>2, <1>3, <1>4, <1>5, <1>6, <1>7, <1>8, <1>9, <1>10, <1>11, <1>12, <1>13, <1>14, <1>15,
     <1>16, <1>17, <1>18, <1>19, <1>20, <1>21, <1>22, <1>23, <1>24, <1>25, <1>26, <1>27, <1>28
     DEF Next, EventNext, ConnectNext, RpcBegin, RpcNext, Names

(* Setting the LED or a port. *)
LEMMA LedType ==
    ASSUME Types, NEW t, NEW from, NEW to, SetLed(t, from, to)
    PROVE  PortType'
<1>1. LedFor(job[t]) \in BOOLEAN
  BY DEF LedFor
<1>2. touched' \subseteq touched \cup {LED}
  BY DEF SetLed, TouchedBy
<1>3. QED
  BY <1>1, <1>2 DEF SetLed, Types, PortType

LEMMA PortsType ==
    ASSUME Types, NEW t \in Threads, NEW from, SetPort(t, from)
    PROVE  PortType' /\ (UNCHANGED job => JobType')
<1>1. todo[t] \in Seq(Ports) /\ todo[t] # <<>>
  BY DEF Types, JobType, SetPort
<1>2. Head(todo[t]) \in Ports /\ Tail(todo[t]) \in Seq(Ports)
  BY <1>1, NextPort
<1>3. touched' \subseteq touched \cup {Head(todo[t])}
  BY DEF SetPort, TouchedBy
<1>4. enabled' \subseteq enabled \cup {Head(todo[t])}
  BY DEF SetPort, Configured
<1>5. UNCHANGED led /\ todo' = [todo EXCEPT ![t] = Tail(@)]
  BY DEF SetPort
<1>6. PortType'
  BY <1>2, <1>3, <1>4, <1>5 DEF Types, PortType
<1>7. UNCHANGED job => JobType'
  BY <1>2, <1>5 DEF Types, JobType
<1>8. QED
  BY <1>6, <1>7

LEMMA StandbyTableType ==
    ASSUME Types, NEW n \in Names, NEW v
    PROVE  /\ StandbyTable(n, v) \in Seq([port : Names, isEnabled : BOOLEAN])
           /\ Len(StandbyTable(n, v)) <= MaxNumVideoPorts
<1> DEFINE g == g_standby_video_port_setting
           at == {i \in DOMAIN g : g[i].port = n}
           R  == [port : Names, isEnabled : BOOLEAN]
<1>1. g \in Seq(R) /\ Len(g) <= MaxNumVideoPorts /\ Len(g) \in Nat /\ MaxNumVideoPorts \in Nat
  BY BoundsAssumption DEF Types, TableType
<1>2. Entry(n, v) \in R
  BY DEF Entry
<1> HIDE DEF R
<1>3. [g EXCEPT ![Min(at)] = Entry(n, v)] \in Seq(R) /\ Len([g EXCEPT ![Min(at)] = Entry(n, v)]) = Len(g)
  BY <1>1, <1>2, Replaced
<1>4. Append(g, Entry(n, v)) \in Seq(R) /\ Len(Append(g, Entry(n, v))) = Len(g) + 1
  BY <1>1, <1>2
<1>5. StandbyTable(n, v) = IF at # {} THEN [g EXCEPT ![Min(at)] = Entry(n, v)]
                           ELSE IF Len(g) < MaxNumVideoPorts THEN Append(g, Entry(n, v)) ELSE g
  BY DEF StandbyTable
<1> HIDE DEF g, at
<1>6. StandbyTable(n, v) \in Seq(R) /\ Len(StandbyTable(n, v)) <= MaxNumVideoPorts
  BY <1>1, <1>3, <1>4, <1>5
<1>7. QED
  BY <1>6 DEF R

LEMMA TypeStep == Types /\ [Next]_vars => Types'
<1> SUFFICES ASSUME Types, [Next]_vars PROVE Types'
  OBVIOUS
<1>0. PcType' /\ ParamType'
  BY PcStep, ParamStep DEF Types
<1>01. /\ DOMAIN job = Threads /\ DOMAIN todo = Threads
       /\ Event \in Threads /\ Connect \in Threads /\ Rpc \in Threads
  BY DEF Types, JobType, Threads
<1> USE <1>0, TypesKept
<1> USE DEF Types, envVars, queueVars, jobVars, portVars, setVars
<1>1. ASSUME NEW s \in States, PowerChanges(s)
      PROVE  Types'
  <2>1. QueueType'
    BY <1>1, BoundsAssumption DEF PowerChanges, QueueType
  <2>2. StateType' /\ FlagType'
    BY <1>1 DEF PowerChanges, StateType, FlagType
  <2>3. QED
    BY <1>1, <2>1, <2>2 DEF PowerChanges
<1>2. CASE CallbackSignal
  BY <1>2 DEF CallbackSignal, FlagType
<1>3. CASE EventLoop
  <2>1. (pwrEventQueue = <<>>) \in BOOLEAN
    OBVIOUS
  <2>2. FlagType'
    BY <1>3, <2>1 DEF EventLoop, FlagType
  <2>3. QED
    BY <1>3, <2>2 DEF EventLoop
<1>4. CASE EventDecide
  BY <1>4 DEF EventDecide, FlagType
<1>5. CASE EventTake
  <2>1. /\ pwrEventQueue # <<>> /\ Head(pwrEventQueue).id \in Nat
        /\ Tail(pwrEventQueue) \in Seq([id : Nat, newState : States])
    <3> DEFINE R == [id : Nat, newState : States]
    <3>1. pwrEventQueue # <<>> /\ pwrEventQueue \in Seq(R)
      BY <1>5 DEF EventTake, QueueType
    <3> HIDE DEF R
    <3>2. Head(pwrEventQueue) \in R /\ Tail(pwrEventQueue) \in Seq(R)
      BY <3>1
    <3>3. QED
      BY <3>1, <3>2 DEF R
  <2>2. QueueType'
    BY <1>5, <2>1 DEF EventTake, QueueType
  <2>3. JobType'
    BY <1>5, <1>01, PortNames DEF EventTake, JobType
  <2>4. QED
    BY <1>5, <2>2, <2>3 DEF EventTake
<1>6. CASE EventLed
  BY <1>6, LedType DEF EventLed
<1>7. CASE EventPort
  BY <1>7, <1>01, PortsType DEF EventPort
<1>8. CASE EventHandled
  BY <1>8 DEF EventHandled, PortsDone
<1>9. CASE EventDrained
  BY <1>9 DEF EventDrained
<1>10. CASE EventSpuriousWakeup
  BY <1>10 DEF EventSpuriousWakeup
<1>11. CASE ConnectSucceeds
  BY <1>11 DEF ConnectSucceeds
<1>12. CASE RegisterCallback
  BY <1>12 DEF RegisterCallback, FlagType
<1>13. CASE GetPowerState
  BY <1>13 DEF GetPowerState, StateType
<1>14. CASE ApplyPostRebootConfig
  BY <1>14, <1>01, PortNames DEF ApplyPostRebootConfig, JobType
<1>15. CASE ConnectLed
  BY <1>15, LedType DEF ConnectLed
<1>16. CASE ConnectPort
  BY <1>16, <1>01, PortsType DEF ConnectPort
<1>17. CASE ConnectDone
  BY <1>17 DEF ConnectDone, PortsDone, JobType
<1>18. ASSUME NEW n \in Names, NEW v \in EnableValues, SetStandbyVideoState(n, v)
      PROVE  Types'
  <2>1. TableType'
    <3>1. requested' \in [ToSet(VideoPorts) -> Nat]
      BY <1>18, ValuesAssumption DEF SetStandbyVideoState, Names, TableType
    <3>2. QED
      BY <1>18, <3>1, StandbyTableType DEF SetStandbyVideoState, TableType
  <2>2. PortType'
    BY <1>18, PortNames DEF SetStandbyVideoState, PortType, Names
  <2>3. QED
    BY <1>18, <2>1, <2>2 DEF SetStandbyVideoState, Call
<1>19. ASSUME NEW s \in States, SetAvPortState(s)
      PROVE  Types'
  BY <1>19, <1>01, PortNames DEF SetAvPortState, Call, JobType
<1>20. ASSUME NEW s \in States, SetLEDState(s)
      PROVE  Types'
  <2>1. LedFor(s) \in BOOLEAN
    BY DEF LedFor
  <2>2. PortType'
    BY <1>20, <2>1 DEF SetLEDState, PortType
  <2>3. QED
    BY <1>20, <2>2 DEF SetLEDState, Call
<1>21. CASE ApplySetting
  <2>1. param.port \in Names
    BY <1>21 DEF ApplySetting, Goto, ParamType
  <2>2. SettingIsForNow => param.port \in Ports
    BY <2>1, PortNames DEF SettingIsForNow, Names
  <2>3. PortType'
    BY <1>21, <2>1, <2>2, PortNames DEF ApplySetting, PortType, Names
  <2>4. QED
    BY <1>21, <2>3 DEF ApplySetting
<1>22. CASE RpcPort
  BY <1>22, <1>01, PortsType DEF RpcPort
<1>23. CASE RpcPortsDone
  BY <1>23 DEF RpcPortsDone, PortsDone, JobType
<1>24. CASE RequestStop
  BY <1>24 DEF RequestStop
<1>25. CASE StopSignal
  BY <1>25 DEF StopSignal, FlagType
<1>26. CASE StopJoin
  BY <1>26 DEF StopJoin
<1>27. CASE StopClear
  <2>1. QueueType'
    BY <1>27 DEF StopClear, QueueType
  <2>2. QED
    BY <1>27, <2>1 DEF StopClear
<1>28. CASE UNCHANGED vars
  BY <1>28 DEF vars
<1>29. QED
  BY <1>1, <1>2, <1>3, <1>4, <1>5, <1>6, <1>7, <1>8, <1>9, <1>10, <1>11, <1>12, <1>13, <1>14, <1>15,
     <1>16, <1>17, <1>18, <1>19, <1>20, <1>21, <1>22, <1>23, <1>24, <1>25, <1>26, <1>27, <1>28
     DEF Next, EventNext, ConnectNext, RpcBegin, RpcNext, Names

-----------------------------------------------------------------------------
(* The queue. *)

LEMMA ExitStep == PcType /\ ExitInv /\ [Next]_vars => ExitInv'
<1> SUFFICES ASSUME PcType, ExitInv, [Next]_vars PROVE ExitInv'
  OBVIOUS
<1> USE DEF ExitInv, PcType, Goto, Threads, Event, Connect, Rpc, Main
<1>1. ASSUME NEW s \in States, PowerChanges(s)
      PROVE  ExitInv'
  BY <1>1 DEF PowerChanges
<1>2. CASE CallbackSignal
  BY <1>2 DEF CallbackSignal, WakeEventThread
<1>3. CASE EventLoop
  BY <1>3 DEF EventLoop
<1>4. CASE EventDecide
  BY <1>4 DEF EventDecide
<1>5. CASE EventTake
  BY <1>5 DEF EventTake
<1>6. CASE EventLed
  BY <1>6 DEF EventLed, SetLed
<1>7. CASE EventPort
  BY <1>7 DEF EventPort, SetPort
<1>8. CASE EventHandled
  BY <1>8 DEF EventHandled, PortsDone
<1>9. CASE EventDrained
  BY <1>9 DEF EventDrained
<1>10. CASE EventSpuriousWakeup
  BY <1>10 DEF EventSpuriousWakeup
<1>11. CASE ConnectSucceeds
  BY <1>11 DEF ConnectSucceeds
<1>12. CASE RegisterCallback
  BY <1>12 DEF RegisterCallback
<1>13. CASE GetPowerState
  BY <1>13 DEF GetPowerState
<1>14. CASE ApplyPostRebootConfig
  BY <1>14 DEF ApplyPostRebootConfig
<1>15. CASE ConnectLed
  BY <1>15 DEF ConnectLed, SetLed
<1>16. CASE ConnectPort
  BY <1>16 DEF ConnectPort, SetPort
<1>17. CASE ConnectDone
  BY <1>17 DEF ConnectDone, PortsDone
<1>18. ASSUME NEW n \in Names, NEW v \in EnableValues, SetStandbyVideoState(n, v)
      PROVE  ExitInv'
  BY <1>18 DEF SetStandbyVideoState, Call
<1>19. ASSUME NEW s \in States, SetAvPortState(s)
      PROVE  ExitInv'
  BY <1>19 DEF SetAvPortState, Call
<1>20. ASSUME NEW s \in States, SetLEDState(s)
      PROVE  ExitInv'
  BY <1>20 DEF SetLEDState, Call
<1>21. CASE ApplySetting
  BY <1>21 DEF ApplySetting
<1>22. CASE RpcPort
  BY <1>22 DEF RpcPort, SetPort
<1>23. CASE RpcPortsDone
  BY <1>23 DEF RpcPortsDone, PortsDone
<1>24. CASE RequestStop
  BY <1>24 DEF RequestStop
<1>25. CASE StopSignal
  BY <1>25 DEF StopSignal, WakeEventThread
<1>26. CASE StopJoin
  BY <1>26 DEF StopJoin
<1>27. CASE StopClear
  BY <1>27 DEF StopClear
<1>28. CASE UNCHANGED vars
  BY <1>28 DEF vars
<1>29. QED
  BY <1>1, <1>2, <1>3, <1>4, <1>5, <1>6, <1>7, <1>8, <1>9, <1>10, <1>11, <1>12, <1>13, <1>14, <1>15,
     <1>16, <1>17, <1>18, <1>19, <1>20, <1>21, <1>22, <1>23, <1>24, <1>25, <1>26, <1>27, <1>28
     DEF Next, EventNext, ConnectNext, RpcBegin, RpcNext, Names

(* What the numbers of the events depend on. *)
LEMMA NumbersKept ==
    ASSUME NumberInv, UNCHANGED <<pwrEventQueue, pushed, handled>>,
           pc'[Main] = "destroyed" <=> pc[Main] = "destroyed"
    PROVE  NumberInv'
BY DEF NumberInv

LEMMA NumberStep == Types /\ ExitInv /\ NumberInv /\ [Next]_vars => NumberInv'
<1> SUFFICES ASSUME Types, ExitInv, NumberInv, [Next]_vars PROVE NumberInv'
  OBVIOUS
<1>0. pc = [t \in Threads |-> pc[t]] /\ Main \in Threads /\ Main \notin {Event, Connect, Rpc}
  BY DEF Types, PcType, Threads, Event, Connect, Rpc, Main
<1>01. /\ pwrEventQueue \in Seq([id : Nat, newState : States])
       /\ pushed \in Nat /\ handled \in Seq(Nat)
  BY BoundsAssumption DEF Types, QueueType
<1> USE DEF Goto, queueVars
<1>1. ASSUME NEW s \in States, PowerChanges(s)
      PROVE  NumberInv'
  <2> DEFINE e == [id |-> pushed + 1, newState |-> s]
  <2>1. /\ pwrEventQueue' = Append(pwrEventQueue, e) /\ pushed' = pushed + 1
        /\ pc[Main] # "destroyed" /\ UNCHANGED <<pc, handled>>
    BY <1>1 DEF PowerChanges
  <2>2. e \in [id : Nat, newState : States] /\ e.id = pushed + 1
    BY <1>01
  <2> HIDE DEF e
  <2>3. /\ Len(pwrEventQueue') = Len(pwrEventQueue) + 1 /\ Len(pwrEventQueue) \in Nat
        /\ \A i \in 1..Len(pwrEventQueue) : pwrEventQueue'[i] = pwrEventQueue[i]
        /\ pwrEventQueue'[Len(pwrEventQueue) + 1] = e
    BY <1>01, <2>1, <2>2
  <2>4. QED
    BY <1>01, <2>1, <2>2, <2>3 DEF NumberInv
<1>2. CASE CallbackSignal
  BY <1>2, <1>0, NumbersKept DEF CallbackSignal, WakeEventThread
<1>3. CASE EventLoop
  BY <1>3, <1>0, NumbersKept DEF EventLoop
<1>4. CASE EventDecide
  BY <1>4, <1>0, NumbersKept DEF EventDecide
<1>5. CASE EventTake
  <2> DEFINE n == Head(pwrEventQueue).id
  <2>1. /\ pwrEventQueue # <<>> /\ pwrEventQueue' = Tail(pwrEventQueue)
        /\ handled' = Append(handled, n) /\ UNCHANGED pushed
        /\ pc'[Main] = pc[Main]
    BY <1>5, <1>0 DEF EventTake
  <2>2. pc[Main] # "destroyed"
    BY <2>1 DEF NumberInv
  <2>3. /\ Len(pwrEventQueue) \in Nat \ {0} /\ Head(pwrEventQueue) = pwrEventQueue[1]
        /\ Len(pwrEventQueue') = Len(pwrEventQueue) - 1
        /\ \A i \in 1..Len(pwrEventQueue') : pwrEventQueue'[i] = pwrEventQueue[i + 1]
    BY <1>01, <2>1
  <2>4. Len(handled) \in Nat /\ n = Len(handled) + 1
    BY <1>01, <2>3 DEF NumberInv
  <2> HIDE DEF n
  <2>5. /\ Len(handled') = Len(handled) + 1 /\ handled'[Len(handled) + 1] = n
        /\ \A i \in 1..Len(handled) : handled'[i] = handled[i]
    BY <1>01, <2>1, <2>4
  <2>6. \A i \in 1..Len(handled') : handled'[i] = i
    BY <2>4, <2>5 DEF NumberInv
  <2>7. \A i \in 1..Len(pwrEventQueue') : pwrEventQueue'[i].id = Len(handled') + i
    BY <2>3, <2>4, <2>5 DEF NumberInv
  <2>8. Len(handled') + Len(pwrEventQueue') = pushed'
    <3>1. Len(handled) + Len(pwrEventQueue) = pushed
      BY <2>2 DEF NumberInv
    <3>2. /\ Len(handled') = Len(handled) + 1 /\ Len(pwrEventQueue') = Len(pwrEventQueue) - 1
          /\ Len(handled) \in Nat /\ Len(pwrEventQueue) \in Nat /\ pushed' = pushed
      BY <2>1, <2>3, <2>4, <2>5
    <3>3. QED
      BY <3>1, <3>2
  <2>9. QED
    BY <2>1, <2>2, <2>6, <2>7, <2>8 DEF NumberInv
<1>6. CASE EventLed
  BY <1>6, <1>0, NumbersKept DEF EventLed, SetLed
<1>7. CASE EventPort
  BY <1>7, <1>0, NumbersKept DEF EventPort, SetPort
<1>8. CASE EventHandled
  BY <1>8, <1>0, NumbersKept DEF EventHandled, PortsDone
<1>9. CASE EventDrained
  BY <1>9, <1>0, NumbersKept DEF EventDrained
<1>10. CASE EventSpuriousWakeup
  BY <1>10, <1>0, NumbersKept DEF EventSpuriousWakeup
<1>11. CASE ConnectSucceeds
  BY <1>11, <1>0, NumbersKept DEF ConnectSucceeds
<1>12. CASE RegisterCallback
  BY <1>12, <1>0, NumbersKept DEF RegisterCallback
<1>13. CASE GetPowerState
  BY <1>13, <1>0, NumbersKept DEF GetPowerState
<1>14. CASE ApplyPostRebootConfig
  BY <1>14, <1>0, NumbersKept DEF ApplyPostRebootConfig
<1>15. CASE ConnectLed
  BY <1>15, <1>0, NumbersKept DEF ConnectLed, SetLed
<1>16. CASE ConnectPort
  BY <1>16, <1>0, NumbersKept DEF ConnectPort, SetPort
<1>17. CASE ConnectDone
  BY <1>17, <1>0, NumbersKept DEF ConnectDone, PortsDone
<1>18. ASSUME NEW n \in Names, NEW v \in EnableValues, SetStandbyVideoState(n, v)
      PROVE  NumberInv'
  BY <1>18, <1>0, NumbersKept DEF SetStandbyVideoState, Call
<1>19. ASSUME NEW s \in States, SetAvPortState(s)
      PROVE  NumberInv'
  BY <1>19, <1>0, NumbersKept DEF SetAvPortState, Call
<1>20. ASSUME NEW s \in States, SetLEDState(s)
      PROVE  NumberInv'
  BY <1>20, <1>0, NumbersKept DEF SetLEDState, Call
<1>21. CASE ApplySetting
  BY <1>21, <1>0, NumbersKept DEF ApplySetting
<1>22. CASE RpcPort
  BY <1>22, <1>0, NumbersKept DEF RpcPort, SetPort
<1>23. CASE RpcPortsDone
  BY <1>23, <1>0, NumbersKept DEF RpcPortsDone, PortsDone
<1>24. CASE RequestStop
  BY <1>24, <1>0, NumbersKept DEF RequestStop
<1>25. CASE StopSignal
  BY <1>25, <1>0, NumbersKept DEF StopSignal, WakeEventThread
<1>26. CASE StopJoin
  BY <1>26, <1>0, NumbersKept DEF StopJoin
<1>27. CASE StopClear
  BY <1>27, <1>0, NumbersKept, <1>01 DEF StopClear, NumberInv
<1>28. CASE UNCHANGED vars
  BY <1>28, <1>0, NumbersKept DEF vars
<1>29. QED
  BY <1>1, <1>2, <1>3, <1>4, <1>5, <1>6, <1>7, <1>8, <1>9, <1>10, <1>11, <1>12, <1>13, <1>14, <1>15,
     <1>16, <1>17, <1>18, <1>19, <1>20, <1>21, <1>22, <1>23, <1>24, <1>25, <1>26, <1>27, <1>28
     DEF Next, EventNext, ConnectNext, RpcBegin, RpcNext, Names

LEMMA ChannelInvariance == Spec => [](Types /\ ExitInv /\ NumberInv)
<1>1. Init => ExitInv /\ NumberInv
  <2>1. Init => pc[Main] = "idle"
    BY DEF Init, Threads, Event, Connect, Main
  <2>2. Init => pwrEventQueue = <<>> /\ handled = <<>> /\ pushed = 0
    BY DEF Init
  <2>3. QED
    BY <2>1, <2>2 DEF ExitInv, NumberInv
<1>2. Types /\ ExitInv /\ NumberInv /\ [Next]_vars => (Types /\ ExitInv /\ NumberInv)'
  BY TypeStep, ExitStep, NumberStep DEF Types
<1>3. QED
  BY <1>1, <1>2, InitType, PTL DEF Spec

(* TypeOK holds in every state; the events in the queue are ones that were
   queued. *)
THEOREM TypeCorrectness == Spec => []TypeOK
<1>1. ASSUME Types, NumberInv
      PROVE  TypeOK
  <2> DEFINE R == [id : Nat, newState : States]
  <2>1. pwrEventQueue \in Seq(R) /\ handled \in Seq(Nat) /\ pushed \in Nat
    BY <1>1, BoundsAssumption DEF Types, QueueType
  <2> HIDE DEF R
  <2>2. \A i \in DOMAIN pwrEventQueue : i \in 1..Len(pwrEventQueue) /\ pwrEventQueue[i] \in R
    BY <2>1
  <2>3. \A i \in DOMAIN pwrEventQueue : pwrEventQueue[i].newState \in States
    BY <2>2 DEF R
  <2>4. \A i \in DOMAIN pwrEventQueue : pwrEventQueue[i].id \in 1..pushed
    BY <1>1, <2>1, <2>2 DEF NumberInv
  <2>5. QED
    BY <1>1, <2>3, <2>4 DEF Types, PcType, StateType, FlagType, PortType, TableType, TypeOK
<1>2. QED
  BY <1>1, ChannelInvariance, PTL

-----------------------------------------------------------------------------
(* The channel. *)

LEMMA StepRefines ==
    ASSUME Types, ExitInv, NumberInv, [Next]_vars
    PROVE  [Channel!ChanNext]_(Channel!chanVars)
<1> DEFINE Acc == [i \in 1..pushed |-> i]
<1>0. pc = [t \in Threads |-> pc[t]] /\ Main \in Threads /\ Main \notin {Event, Connect, Rpc}
  BY DEF Types, PcType, Threads, Event, Connect, Rpc, Main
<1>01. /\ pwrEventQueue \in Seq([id : Nat, newState : States]) /\ pushed \in Nat
       /\ handled \in Seq(Nat) /\ MaxChanges \in Nat
  BY BoundsAssumption DEF Types, QueueType
<1>02. Acc \in Seq(Nat) /\ Len(Acc) = pushed /\ \A i \in 1..pushed : Acc[i] = i
  BY <1>01
<1>03. (pc'[Main] = "destroyed" <=> pc[Main] = "destroyed") /\ UNCHANGED <<pushed, handled>>
          => UNCHANGED Channel!chanVars
  BY DEF Channel!chanVars
<1> USE DEF Goto, queueVars
<1>1. ASSUME NEW s \in States, PowerChanges(s)
      PROVE  [Channel!ChanNext]_(Channel!chanVars)
  <2>1. /\ pushed' = pushed + 1 /\ pushed < MaxChanges /\ pc[Main] # "destroyed"
        /\ UNCHANGED <<pc, handled>>
    BY <1>1 DEF PowerChanges
  <2>2. Acc' = Append(Acc, pushed + 1) /\ pushed + 1 \in 1..MaxChanges
    BY <1>01, <1>02, <2>1
  <2>3. Len(Acc) - Len(handled) < MaxChanges + 1
    BY <1>01, <1>02, <2>1
  <2>4. Channel!Accept
    BY <2>1, <2>2, <2>3 DEF Channel!Accept
  <2>5. QED
    BY <2>4 DEF Channel!ChanNext
<1>2. CASE CallbackSignal
  BY <1>2, <1>0, <1>03 DEF CallbackSignal, WakeEventThread
<1>3. CASE EventLoop
  BY <1>3, <1>0, <1>03 DEF EventLoop
<1>4. CASE EventDecide
  BY <1>4, <1>0, <1>03 DEF EventDecide
<1>5. CASE EventTake
  <2>1. /\ pwrEventQueue # <<>> /\ handled' = Append(handled, Head(pwrEventQueue).id)
        /\ UNCHANGED pushed /\ pc'[Main] = pc[Main]
    BY <1>5, <1>0 DEF EventTake
  <2>2. pc[Main] # "destroyed"
    BY <2>1 DEF NumberInv
  <2>3. Len(pwrEventQueue) \in Nat \ {0} /\ Head(pwrEventQueue) = pwrEventQueue[1]
    BY <1>01, <2>1
  <2>4. /\ Len(handled) \in Nat /\ Len(handled) < pushed
        /\ Head(pwrEventQueue).id = Len(handled) + 1
    BY <1>01, <2>2, <2>3 DEF NumberInv
  <2>5. handled' = Append(handled, Acc[Len(handled) + 1])
    BY <1>01, <1>02, <2>1, <2>4
  <2>6. Channel!HandOver
    BY <1>02, <2>1, <2>2, <2>4, <2>5 DEF Channel!HandOver
  <2>7. QED
    BY <2>6 DEF Channel!ChanNext
<1>6. CASE EventLed
  BY <1>6, <1>0, <1>03 DEF EventLed, SetLed
<1>7. CASE EventPort
  BY <1>7, <1>0, <1>03 DEF EventPort, SetPort
<1>8. CASE EventHandled
  BY <1>8, <1>0, <1>03 DEF EventHandled, PortsDone
<1>9. CASE EventDrained
  BY <1>9, <1>0, <1>03 DEF EventDrained
<1>10. CASE EventSpuriousWakeup
  BY <1>10, <1>0, <1>03 DEF EventSpuriousWakeup
<1>11. CASE ConnectSucceeds
  BY <1>11, <1>0, <1>03 DEF ConnectSucceeds
<1>12. CASE RegisterCallback
  BY <1>12, <1>0, <1>03 DEF RegisterCallback
<1>13. CASE GetPowerState
  BY <1>13, <1>0, <1>03 DEF GetPowerState
<1>14. CASE ApplyPostRebootConfig
  BY <1>14, <1>0, <1>03 DEF ApplyPostRebootConfig
<1>15. CASE ConnectLed
  BY <1>15, <1>0, <1>03 DEF ConnectLed, SetLed
<1>16. CASE ConnectPort
  BY <1>16, <1>0, <1>03 DEF ConnectPort, SetPort
<1>17. CASE ConnectDone
  BY <1>17, <1>0, <1>03 DEF ConnectDone, PortsDone
<1>18. ASSUME NEW n \in Names, NEW v \in EnableValues, SetStandbyVideoState(n, v)
      PROVE  [Channel!ChanNext]_(Channel!chanVars)
  BY <1>18, <1>0, <1>03 DEF SetStandbyVideoState, Call
<1>19. ASSUME NEW s \in States, SetAvPortState(s)
      PROVE  [Channel!ChanNext]_(Channel!chanVars)
  BY <1>19, <1>0, <1>03 DEF SetAvPortState, Call
<1>20. ASSUME NEW s \in States, SetLEDState(s)
      PROVE  [Channel!ChanNext]_(Channel!chanVars)
  BY <1>20, <1>0, <1>03 DEF SetLEDState, Call
<1>21. CASE ApplySetting
  BY <1>21, <1>0, <1>03 DEF ApplySetting
<1>22. CASE RpcPort
  BY <1>22, <1>0, <1>03 DEF RpcPort, SetPort
<1>23. CASE RpcPortsDone
  BY <1>23, <1>0, <1>03 DEF RpcPortsDone, PortsDone
<1>24. CASE RequestStop
  BY <1>24, <1>0, <1>03 DEF RequestStop
<1>25. CASE StopSignal
  BY <1>25, <1>0, <1>03 DEF StopSignal, WakeEventThread
<1>26. CASE StopJoin
  BY <1>26, <1>0, <1>03 DEF StopJoin
<1>27. CASE StopClear
  <2>1. UNCHANGED <<pushed, handled>> /\ pc[Main] # "destroyed" /\ pc'[Main] = "destroyed"
    BY <1>27, <1>0 DEF StopClear
  <2>2. QED
    BY <2>1 DEF Channel!Close, Channel!ChanNext
<1>28. CASE UNCHANGED vars
  BY <1>28, <1>0, <1>03 DEF vars
<1>29. QED
  BY <1>1, <1>2, <1>3, <1>4, <1>5, <1>6, <1>7, <1>8, <1>9, <1>10, <1>11, <1>12, <1>13, <1>14, <1>15,
     <1>16, <1>17, <1>18, <1>19, <1>20, <1>21, <1>22, <1>23, <1>24, <1>25, <1>26, <1>27, <1>28
     DEF Next, EventNext, ConnectNext, RpcBegin, RpcNext, Names

(* The power event queue keeps the promise of EventChannel, for every number of
   power changes and wherever the stop comes. *)
THEOREM Refinement == Spec => ImplementsChannel
<1>1. Init => Channel!ChanInit
  <2>1. Init => pc[Main] = "idle" /\ handled = <<>> /\ pushed = 0
    BY DEF Init, Threads, Event, Connect, Main
  <2>2. 1..0 = {} /\ [i \in {} |-> i] = <<>>
    OBVIOUS
  <2>3. pushed = 0 => [i \in 1..pushed |-> i] = <<>>
    BY <2>2
  <2>4. QED
    BY <2>1, <2>3 DEF Channel!ChanInit
<1>2. Types /\ ExitInv /\ NumberInv /\ [Next]_vars => [Channel!ChanNext]_(Channel!chanVars)
  BY StepRefines
<1>3. QED
  BY <1>1, <1>2, ChannelInvariance, PTL DEF Spec, ImplementsChannel, Channel!ChanSpec

-----------------------------------------------------------------------------
(* The standby settings. *)

(* With names that differ, the setting that is read is that of the entry. *)
LEMMA SettingRead ==
    ASSUME Types, NamesDiffer, NEW p
    PROVE  StandbySetting(p) <=> \E i \in EntriesOf(p) : g_standby_video_port_setting[i].isEnabled
<1> DEFINE g == g_standby_video_port_setting
<1>1. DOMAIN g = 1..Len(g) /\ EntriesOf(p) \subseteq Nat
  BY DEF Types, TableType, EntriesOf
<1>2. StandbySetting(p) <=> EntriesOf(p) # {} /\ g[Min(EntriesOf(p))].isEnabled
  BY <1>1 DEF StandbySetting, EntriesOf
<1>3. ASSUME NEW i \in EntriesOf(p)
      PROVE  Min(EntriesOf(p)) = i
  BY <1>1 DEF NamesDiffer, Min
<1>4. QED
  BY <1>2, <1>3

(* What _SetStandbyVideoState does to the table. *)
LEMMA StandbyTableStep ==
    ASSUME Types, NamesDiffer, NEW n \in Names, NEW v,
           g_standby_video_port_setting' = StandbyTable(n, v)
    PROVE  /\ NamesDiffer'
           /\ \A q : q # n =>
                 /\ EntriesOf(q)' = EntriesOf(q)
                 /\ \A i \in EntriesOf(q) :
                       g_standby_video_port_setting'[i] = g_standby_video_port_setting[i]
           /\ \A i \in EntriesOf(n)' : g_standby_video_port_setting'[i].isEnabled <=> v # 0
           /\ EntriesOf(n)' = {} => Len(g_standby_video_port_setting') = MaxNumVideoPorts
           /\ Len(g_standby_video_port_setting) = MaxNumVideoPorts
                 => Len(g_standby_video_port_setting') = MaxNumVideoPorts
<1> DEFINE g == g_standby_video_port_setting
           R == [port : Names, isEnabled : BOOLEAN]
           e == Entry(n, v)
<1>1. /\ g \in Seq(R) /\ Len(g) \in Nat /\ Len(g) <= MaxNumVideoPorts /\ MaxNumVideoPorts \in Nat
      /\ DOMAIN g = 1..Len(g)
  BY BoundsAssumption DEF Types, TableType
<1>11. Len(g) \in Nat /\ MaxNumVideoPorts \in Nat /\ Len(g) <= MaxNumVideoPorts
  BY <1>1
<1>2. e \in R /\ e.port = n /\ (e.isEnabled <=> v # 0)
  BY DEF Entry
<1> HIDE DEF R, e
<1>3. CASE EntriesOf(n) # {}
  <2>1. PICK k \in EntriesOf(n) : TRUE
    BY <1>3
  <2>2. EntriesOf(n) = {k} /\ Min({k}) = k /\ k \in 1..Len(g) /\ g[k].port = n
    BY <1>1, <2>1 DEF NamesDiffer, EntriesOf, Min
  <2>3. g' = [g EXCEPT ![k] = e]
    BY <1>1, <2>2 DEF StandbyTable, EntriesOf, e
  <2>4. Len(g') = Len(g) /\ \A i \in 1..Len(g) : g'[i] = IF i = k THEN e ELSE g[i]
    BY <1>1, <1>2, <2>3, Replaced
  <2>5. \A q : EntriesOf(q)' = EntriesOf(q)
    BY <1>2, <2>2, <2>4 DEF EntriesOf
  <2>6. QED
    BY <1>2, <2>2, <2>4, <2>5 DEF NamesDiffer, EntriesOf
<1>4. CASE EntriesOf(n) = {} /\ Len(g) < MaxNumVideoPorts
  <2>1. g' = Append(g, e)
    BY <1>1, <1>4 DEF StandbyTable, EntriesOf, e
  <2>2. /\ Len(g') = Len(g) + 1 /\ g'[Len(g) + 1] = e
        /\ \A i \in 1..Len(g) : g'[i] = g[i]
    BY <1>1, <1>2, <2>1
  <2>3. EntriesOf(n)' = {Len(g) + 1}
    BY <1>1, <1>2, <1>4, <2>2 DEF EntriesOf
  <2>4. \A q : q # n => EntriesOf(q)' = EntriesOf(q)
    BY <1>1, <1>2, <2>2 DEF EntriesOf
  <2>5. NamesDiffer'
    <3>1. \A q : \A i, j \in EntriesOf(q)' : i = j
      BY <2>3, <2>4 DEF NamesDiffer
    <3>2. QED
      BY <3>1 DEF NamesDiffer, EntriesOf
  <2>6. \A i \in EntriesOf(n)' : g'[i].isEnabled <=> v # 0
    BY <1>2, <2>2, <2>3
  <2>7. \A q : \A i \in EntriesOf(q) : g'[i] = g[i]
    BY <2>2 DEF EntriesOf
  <2>8. EntriesOf(n)' # {} /\ Len(g) # MaxNumVideoPorts
    BY <1>11, <1>4, <2>3
  <2>9. QED
    BY <2>4, <2>5, <2>6, <2>7, <2>8
<1>5. CASE EntriesOf(n) = {} /\ Len(g) = MaxNumVideoPorts
  <2>1. g' = g
    BY <1>1, <1>5 DEF StandbyTable, EntriesOf
  <2>2. QED
    BY <1>5, <2>1 DEF NamesDiffer, EntriesOf
<1>6. Len(g) < MaxNumVideoPorts \/ Len(g) = MaxNumVideoPorts
  BY <1>11
<1>7. QED
  BY <1>3, <1>4, <1>5, <1>6, Zenon

LEMMA SettingsKept ==
    ASSUME SettingInv, UNCHANGED setVars
    PROVE  SettingInv'
BY DEF SettingInv, NamesDiffer, EntriesOf, setVars

LEMMA SettingStep == Types /\ SettingInv /\ [Next]_vars => SettingInv'
<1> SUFFICES ASSUME Types, SettingInv, [Next]_vars PROVE SettingInv'
  OBVIOUS
<1> USE SettingsKept
<1>1. ASSUME NEW s \in States, PowerChanges(s)
      PROVE  SettingInv'
  BY <1>1 DEF PowerChanges
<1>2. CASE CallbackSignal
  BY <1>2 DEF CallbackSignal
<1>3. CASE EventLoop
  BY <1>3 DEF EventLoop
<1>4. CASE EventDecide
  BY <1>4 DEF EventDecide
<1>5. CASE EventTake
  BY <1>5 DEF EventTake
<1>6. CASE EventLed
  BY <1>6 DEF EventLed
<1>7. CASE EventPort
  BY <1>7 DEF EventPort
<1>8. CASE EventHandled
  BY <1>8 DEF EventHandled
<1>9. CASE EventDrained
  BY <1>9 DEF EventDrained
<1>10. CASE EventSpuriousWakeup
  BY <1>10 DEF EventSpuriousWakeup
<1>11. CASE ConnectSucceeds
  BY <1>11 DEF ConnectSucceeds
<1>12. CASE RegisterCallback
  BY <1>12 DEF RegisterCallback
<1>13. CASE GetPowerState
  BY <1>13 DEF GetPowerState
<1>14. CASE ApplyPostRebootConfig
  BY <1>14 DEF ApplyPostRebootConfig
<1>15. CASE ConnectLed
  BY <1>15 DEF ConnectLed
<1>16. CASE ConnectPort
  BY <1>16 DEF ConnectPort
<1>17. CASE ConnectDone
  BY <1>17 DEF ConnectDone
<1>18. ASSUME NEW n \in Names, NEW v \in EnableValues, SetStandbyVideoState(n, v)
      PROVE  SettingInv'
  <2>1. /\ g_standby_video_port_setting' = StandbyTable(n, v)
        /\ requested' = IF n \in BadPorts THEN requested ELSE [requested EXCEPT ![n] = v]
    BY <1>18 DEF SetStandbyVideoState
  <2>2. \A p \in ToSet(VideoPorts) : requested'[p] = IF p = n THEN v ELSE requested[p]
    BY <2>1, BadAssumption DEF Types, TableType, Names
  <2>3. QED
    BY <2>1, <2>2, StandbyTableStep DEF SettingInv
<1>19. ASSUME NEW s \in States, SetAvPortState(s)
      PROVE  SettingInv'
  BY <1>19 DEF SetAvPortState
<1>20. ASSUME NEW s \in States, SetLEDState(s)
      PROVE  SettingInv'
  BY <1>20 DEF SetLEDState
<1>21. CASE ApplySetting
  BY <1>21 DEF ApplySetting
<1>22. CASE RpcPort
  BY <1>22 DEF RpcPort
<1>23. CASE RpcPortsDone
  BY <1>23 DEF RpcPortsDone
<1>24. CASE RequestStop
  BY <1>24 DEF RequestStop
<1>25. CASE StopSignal
  BY <1>25 DEF StopSignal
<1>26. CASE StopJoin
  BY <1>26 DEF StopJoin
<1>27. CASE StopClear
  BY <1>27 DEF StopClear
<1>28. CASE UNCHANGED vars
  BY <1>28 DEF vars
<1>29. QED
  BY <1>1, <1>2, <1>3, <1>4, <1>5, <1>6, <1>7, <1>8, <1>9, <1>10, <1>11, <1>12, <1>13, <1>14, <1>15,
     <1>16, <1>17, <1>18, <1>19, <1>20, <1>21, <1>22, <1>23, <1>24, <1>25, <1>26, <1>27, <1>28
     DEF Next, EventNext, ConnectNext, RpcBegin, RpcNext, Names

LEMMA SettingInvariance == Spec => [](Types /\ SettingInv)
<1>1. Init => SettingInv
  BY DEF Init, SettingInv, NamesDiffer, EntriesOf
<1>2. Types /\ SettingInv /\ [Next]_vars => (Types /\ SettingInv)'
  BY TypeStep, SettingStep
<1>3. QED
  BY <1>1, <1>2, InitType, PTL DEF Spec

(* The standby setting asked for last is the one that is read, unless the port
   has found no room in the table, for every size of the table. *)
THEOREM SettingStays == Spec => []SettingIsKept
<1>1. ASSUME Types, SettingInv, NEW p \in ToSet(VideoPorts)
      PROVE  \/ StandbySetting(p) <=> requested[p] # 0
             \/ /\ Len(g_standby_video_port_setting) = MaxNumVideoPorts
                /\ \A i \in DOMAIN g_standby_video_port_setting :
                      g_standby_video_port_setting[i].port # p
  <2>1. StandbySetting(p) <=> \E i \in EntriesOf(p) : g_standby_video_port_setting[i].isEnabled
    BY <1>1, SettingRead DEF SettingInv
  <2>2. DOMAIN g_standby_video_port_setting = 1..Len(g_standby_video_port_setting)
    BY <1>1 DEF Types, TableType
  <2>3. CASE EntriesOf(p) = {}
    BY <1>1, <2>1, <2>2, <2>3 DEF SettingInv, EntriesOf
  <2>4. CASE EntriesOf(p) # {}
    BY <1>1, <2>1, <2>4 DEF SettingInv
  <2>5. QED
    BY <2>3, <2>4
<1>2. Types /\ SettingInv => SettingIsKept
  BY <1>1 DEF SettingIsKept
<1>3. QED
  BY <1>2, SettingInvariance, PTL

-----------------------------------------------------------------------------
(* The ports follow the power state. *)

LEMMA TodoStep == Types /\ TodoInv /\ [Next]_vars => TodoInv'
<1> SUFFICES ASSUME Types, TodoInv, [Next]_vars PROVE TodoInv'
  OBVIOUS
<1>0. /\ DOMAIN todo = Threads /\ pc = [t \in Threads |-> pc[t]]
      /\ Event \in Threads /\ Event \notin {Connect, Rpc, Main}
  BY DEF Types, JobType, PcType, Threads, Event, Connect, Rpc, Main
<1> USE DEF TodoInv, Goto, jobVars
<1>1. ASSUME NEW s \in States, PowerChanges(s)
      PROVE  TodoInv'
  BY <1>1, <1>0 DEF PowerChanges
<1>2. CASE CallbackSignal
  BY <1>2, <1>0 DEF CallbackSignal, WakeEventThread
<1>3. CASE EventLoop
  BY <1>3, <1>0 DEF EventLoop
<1>4. CASE EventDecide
  BY <1>4, <1>0 DEF EventDecide
<1>5. CASE EventTake
  BY <1>5, <1>0 DEF EventTake
<1>6. CASE EventLed
  BY <1>6, <1>0 DEF EventLed, SetLed
<1>7. CASE EventPort
  BY <1>7, <1>0 DEF EventPort, SetPort
<1>8. CASE EventHandled
  BY <1>8, <1>0 DEF EventHandled, PortsDone
<1>9. CASE EventDrained
  BY <1>9, <1>0 DEF EventDrained
<1>10. CASE EventSpuriousWakeup
  BY <1>10, <1>0 DEF EventSpuriousWakeup
<1>11. CASE ConnectSucceeds
  BY <1>11, <1>0 DEF ConnectSucceeds
<1>12. CASE RegisterCallback
  BY <1>12, <1>0 DEF RegisterCallback
<1>13. CASE GetPowerState
  BY <1>13, <1>0 DEF GetPowerState
<1>14. CASE ApplyPostRebootConfig
  BY <1>14, <1>0 DEF ApplyPostRebootConfig
<1>15. CASE ConnectLed
  BY <1>15, <1>0 DEF ConnectLed, SetLed
<1>16. CASE ConnectPort
  BY <1>16, <1>0 DEF ConnectPort, SetPort
<1>17. CASE ConnectDone
  BY <1>17, <1>0 DEF ConnectDone, PortsDone
<1>18. ASSUME NEW n \in Names, NEW v \in EnableValues, SetStandbyVideoState(n, v)
      PROVE  TodoInv'
  BY <1>18, <1>0 DEF SetStandbyVideoState, Call
<1>19. ASSUME NEW s \in States, SetAvPortState(s)
      PROVE  TodoInv'
  BY <1>19, <1>0 DEF SetAvPortState, Call
<1>20. ASSUME NEW s \in States, SetLEDState(s)
      PROVE  TodoInv'
  BY <1>20, <1>0 DEF SetLEDState, Call
<1>21. CASE ApplySetting
  BY <1>21, <1>0 DEF ApplySetting
<1>22. CASE RpcPort
  BY <1>22, <1>0 DEF RpcPort, SetPort
<1>23. CASE RpcPortsDone
  BY <1>23, <1>0 DEF RpcPortsDone, PortsDone
<1>24. CASE RequestStop
  BY <1>24, <1>0 DEF RequestStop
<1>25. CASE StopSignal
  BY <1>25, <1>0 DEF StopSignal, WakeEventThread
<1>26. CASE StopJoin
  BY <1>26, <1>0 DEF StopJoin
<1>27. CASE StopClear
  BY <1>27, <1>0 DEF StopClear
<1>28. CASE UNCHANGED vars
  BY <1>28, <1>0 DEF vars
<1>29. QED
  BY <1>1, <1>2, <1>3, <1>4, <1>5, <1>6, <1>7, <1>8, <1>9, <1>10, <1>11, <1>12, <1>13, <1>14, <1>15,
     <1>16, <1>17, <1>18, <1>19, <1>20, <1>21, <1>22, <1>23, <1>24, <1>25, <1>26, <1>27, <1>28
     DEF Next, EventNext, ConnectNext, RpcBegin, RpcNext, Names

(* Whether a port is as the state asks depends on the LED or on the port and
   its standby setting. *)
LEMMA MatchKept ==
    ASSUME NEW p, NEW s,
           p = LED => led' = led,
           p \in enabled' <=> p \in enabled,
           StandbySetting(p)' <=> StandbySetting(p)
    PROVE  Matches(p, s) <=> Matches(p, s)'
<1>1. CASE p = LED
  BY <1>1 DEF Matches
<1>2. CASE p # LED /\ s = ON
  BY <1>2 DEF Matches
<1>3. CASE p # LED /\ s # ON
  BY <1>3 DEF Matches
<1>4. QED
  BY <1>1, <1>2, <1>3

(* A step that disturbs only what is then in touched keeps the others as the
   event asks. *)
LEMMA FollowKept ==
    ASSUME FollowInv, UNCHANGED <<handled, initDoneAt>>, job'[Event] = job[Event],
           todo'[Event] = todo[Event], touched \subseteq touched',
           pc'[Connect] = "done" => pc[Connect] = "done",
           pc'[Event] # "led" => pc[Event] # "led",
           LED \in touched' \/ led' = led,
           \A p : p \in touched' \/ (/\ p \in enabled' <=> p \in enabled
                                     /\ StandbySetting(p)' <=> StandbySetting(p))
    PROVE  FollowInv'
<1> SUFFICES ASSUME Following'
             PROVE  /\ pc'[Event] # "led" => LED \in touched' \/ Matches(LED, job[Event])'
                    /\ \A p \in Ports : p \in ToSet(todo[Event])' \/ p \in touched'
                                          \/ Matches(p, job[Event])'
  BY DEF FollowInv
<1>1. Following
  BY DEF Following
<1>2. \A p, s : p \in touched' \/ (Matches(p, s) <=> Matches(p, s)')
  BY MatchKept
<1>3. ToSet(todo[Event])' = ToSet(todo[Event])
  BY DEF ToSet
<1>4. QED
  BY <1>1, <1>2, <1>3 DEF FollowInv

LEMMA NothingKept ==
    ASSUME FollowInv,
           UNCHANGED <<led, enabled, touched, g_standby_video_port_setting, job, todo,
                       handled, initDoneAt>>,
           pc'[Connect] = "done" => pc[Connect] = "done",
           pc'[Event] # "led" => pc[Event] # "led"
    PROVE  FollowInv'
<1>1. \A p : StandbySetting(p)' <=> StandbySetting(p)
  BY DEF StandbySetting
<1>2. QED
  BY <1>1, FollowKept

LEMMA FollowStep ==
    Types /\ NumberInv /\ SettingInv /\ TodoInv /\ FollowInv /\ [Next]_vars => FollowInv'
<1> SUFFICES ASSUME Types, NumberInv, SettingInv, TodoInv, FollowInv, [Next]_vars PROVE FollowInv'
  OBVIOUS
<1>0. /\ DOMAIN todo = Threads /\ DOMAIN job = Threads /\ pc = [t \in Threads |-> pc[t]]
      /\ Event \in Threads /\ Connect \in Threads /\ Rpc \in Threads /\ Main \in Threads
      /\ Event \notin {Connect, Rpc, Main} /\ Connect \notin {Rpc, Main} /\ Rpc # Main
  BY DEF Types, JobType, PcType, Threads, Event, Connect, Rpc, Main
<1> USE DEF Goto
<1>1. ASSUME NEW s \in States, PowerChanges(s)
      PROVE  FollowInv'
  <2>1. UNCHANGED <<led, enabled, touched, g_standby_video_port_setting, job, todo, handled, initDoneAt>>
    BY <1>1 DEF PowerChanges, queueVars, jobVars, portVars, setVars
  <2>2. /\ pc'[Connect] = "done" => pc[Connect] = "done"
        /\ pc'[Event] # "led" => pc[Event] # "led"
    BY <1>1, <1>0 DEF PowerChanges
  <2>3. QED
    BY <2>1, <2>2, NothingKept
<1>2. CASE CallbackSignal
  <2>1. UNCHANGED <<led, enabled, touched, g_standby_video_port_setting, job, todo, handled, initDoneAt>>
    BY <1>2 DEF CallbackSignal, queueVars, jobVars, portVars, setVars
  <2>2. /\ pc'[Connect] = "done" => pc[Connect] = "done"
        /\ pc'[Event] # "led" => pc[Event] # "led"
    BY <1>2, <1>0 DEF CallbackSignal, WakeEventThread
  <2>3. QED
    BY <2>1, <2>2, NothingKept
<1>3. CASE EventLoop
  <2>1. UNCHANGED <<led, enabled, touched, g_standby_video_port_setting, job, todo, handled, initDoneAt>>
    BY <1>3 DEF EventLoop, queueVars, jobVars, portVars, setVars
  <2>2. /\ pc'[Connect] = "done" => pc[Connect] = "done"
        /\ pc'[Event] # "led" => pc[Event] # "led"
    BY <1>3, <1>0 DEF EventLoop
  <2>3. QED
    BY <2>1, <2>2, NothingKept
<1>4. CASE EventDecide
  <2>1. UNCHANGED <<led, enabled, touched, g_standby_video_port_setting, job, todo, handled, initDoneAt>>
    BY <1>4 DEF EventDecide, queueVars, jobVars, portVars, setVars
  <2>2. /\ pc'[Connect] = "done" => pc[Connect] = "done"
        /\ pc'[Event] # "led" => pc[Event] # "led"
    BY <1>4, <1>0 DEF EventDecide
  <2>3. QED
    BY <2>1, <2>2, NothingKept
<1>5. CASE EventTake
  <2>1. todo'[Event] = AllPorts /\ pc'[Event] = IF Profile = "TV" THEN "ports" ELSE "led"
    BY <1>5, <1>0 DEF EventTake
  <2>2. ToSet(todo[Event])' = Ports
    BY <2>1, PortNames DEF ToSet
  <2>3. pc'[Event] # "led" => Matches(LED, job[Event])'
    BY <2>1 DEF Matches
  <2>4. QED
    BY <2>2, <2>3 DEF FollowInv
<1>6. CASE EventLed
  <2>1. /\ pc[Event] = "led" /\ pc'[Event] = "ports" /\ pc'[Connect] = pc[Connect]
        /\ led' = LedFor(job[Event]) /\ UNCHANGED <<enabled, job, todo, handled, initDoneAt, setVars>>
    BY <1>6, <1>0 DEF EventLed, SetLed, queueVars, jobVars
  <2>2. ToSet(todo[Event])' = Ports
    BY <2>1, PortNames DEF TodoInv, ToSet
  <2>3. Matches(LED, job[Event])'
    BY <2>1 DEF Matches, LedFor
  <2>4. QED
    BY <2>2, <2>3 DEF FollowInv
<1>7. CASE EventPort
  <2>1. PICK q : q = Head(todo[Event])
    OBVIOUS
  <2>2. /\ pc[Event] = "ports" /\ todo[Event] # <<>> /\ UNCHANGED <<pc, led, job, handled, initDoneAt, setVars>>
        /\ todo'[Event] = Tail(todo[Event])
        /\ \/ enabled' = Configured(q, job[Event]) /\ touched' = touched \ {q}
           \/ enabled' = enabled /\ touched' = touched \cup {q}
    BY <1>7, <1>0, <2>1 DEF EventPort, SetPort, TouchedBy, queueVars
  <2>3. todo[Event] \in Seq(Ports)
    BY <1>0 DEF Types, JobType
  <2>4. q \in Ports /\ \A p \in ToSet(todo[Event]) : p = q \/ p \in ToSet(Tail(todo[Event]))
    BY <2>1, <2>2, <2>3, NextPort
  <2>5. q # LED /\ ToSet(todo[Event])' = ToSet(Tail(todo[Event]))
    BY <2>2, <2>4, LedAssumption DEF ToSet
  <2>6. \A p : StandbySetting(p)' <=> StandbySetting(p)
    BY <2>2 DEF StandbySetting, setVars
  <2>7. q \in touched' \/ Matches(q, job[Event])'
    <3>1. CASE enabled' = enabled /\ touched' = touched \cup {q}
      BY <3>1
    <3>2. CASE enabled' = Configured(q, job[Event])
      <4>1. job'[Event] = job[Event]
        BY <2>2
      <4>2. CASE job[Event] = ON
        <5>1. q \in enabled' \/ q \in ToSet(AudioPorts) \ AudioPersist
          BY <3>2, <4>2 DEF Configured
        <5>2. QED
          BY <2>5, <4>1, <4>2, <5>1 DEF Matches
      <4>3. CASE job[Event] # ON
        <5>1. q \in enabled' => job[Event] # OFF /\ q \in ToSet(VideoPorts) /\ StandbySetting(q)
          BY <3>2, <4>3 DEF Configured
        <5>2. QED
          BY <2>5, <2>6, <4>1, <4>3, <5>1 DEF Matches
      <4>4. QED
        BY <4>2, <4>3
    <3>3. QED
      BY <2>2, <3>1, <3>2
  <2>8. \A p : p # q => (p \in touched' <=> p \in touched) /\ (p \in enabled' <=> p \in enabled)
    BY <2>2 DEF Configured
  <2>9. \A p, s : p # q => (Matches(p, s) <=> Matches(p, s)')
    BY <2>2, <2>6, <2>8, MatchKept
  <2>10. Following' => Following
    BY <2>2 DEF Following
  <2>11. job'[Event] = job[Event] /\ pc'[Event] = pc[Event]
    BY <2>2
  <2>12. ASSUME Following'
         PROVE  pc'[Event] # "led" => LED \in touched' \/ Matches(LED, job[Event])'
    BY <2>5, <2>8, <2>9, <2>10, <2>11, <2>12 DEF FollowInv
  <2>13. ASSUME Following', NEW p \in Ports
         PROVE  p \in ToSet(todo[Event])' \/ p \in touched' \/ Matches(p, job[Event])'
    <3>1. CASE p = q
      BY <3>1, <2>7
    <3>2. CASE p # q
      BY <3>2, <2>4, <2>5, <2>8, <2>9, <2>10, <2>11, <2>13 DEF FollowInv
    <3>3. QED
      BY <3>1, <3>2
  <2>14. QED
    BY <2>12, <2>13 DEF FollowInv
<1>8. CASE EventHandled
  <2>1. UNCHANGED <<led, enabled, touched, g_standby_video_port_setting, job, todo, handled, initDoneAt>>
    BY <1>8 DEF EventHandled, PortsDone, queueVars, jobVars, portVars, setVars
  <2>2. pc'[Connect] = pc[Connect] /\ pc[Event] # "led"
    BY <1>8, <1>0 DEF EventHandled, PortsDone
  <2>3. QED
    BY <2>1, <2>2, NothingKept
<1>9. CASE EventDrained
  <2>1. UNCHANGED <<led, enabled, touched, g_standby_video_port_setting, job, todo, handled, initDoneAt>>
    BY <1>9 DEF EventDrained, queueVars, jobVars, portVars, setVars
  <2>2. /\ pc'[Connect] = "done" => pc[Connect] = "done"
        /\ pc'[Event] # "led" => pc[Event] # "led"
    BY <1>9, <1>0 DEF EventDrained
  <2>3. QED
    BY <2>1, <2>2, NothingKept
<1>10. CASE EventSpuriousWakeup
  <2>1. UNCHANGED <<led, enabled, touched, g_standby_video_port_setting, job, todo, handled, initDoneAt>>
    BY <1>10 DEF EventSpuriousWakeup, queueVars, jobVars, portVars, setVars
  <2>2. /\ pc'[Connect] = "done" => pc[Connect] = "done"
        /\ pc'[Event] # "led" => pc[Event] # "led"
    BY <1>10, <1>0 DEF EventSpuriousWakeup
  <2>3. QED
    BY <2>1, <2>2, NothingKept
<1>11. CASE ConnectSucceeds
  <2>1. pc'[Connect] # "done"
    BY <1>11, <1>0 DEF ConnectSucceeds
  <2>2. QED
    BY <2>1 DEF FollowInv, Following
<1>12. CASE RegisterCallback
  <2>1. pc'[Connect] # "done"
    BY <1>12, <1>0 DEF RegisterCallback
  <2>2. QED
    BY <2>1 DEF FollowInv, Following
<1>13. CASE GetPowerState
  <2>1. pc'[Connect] # "done"
    BY <1>13, <1>0 DEF GetPowerState
  <2>2. QED
    BY <2>1 DEF FollowInv, Following
<1>14. CASE ApplyPostRebootConfig
  <2>1. pc'[Connect] # "done"
    BY <1>14, <1>0 DEF ApplyPostRebootConfig
  <2>2. QED
    BY <2>1 DEF FollowInv, Following
<1>15. CASE ConnectLed
  <2>1. pc'[Connect] # "done"
    BY <1>15, <1>0 DEF ConnectLed, SetLed
  <2>2. QED
    BY <2>1 DEF FollowInv, Following
<1>16. CASE ConnectPort
  <2>1. pc'[Connect] # "done"
    BY <1>16, <1>0 DEF ConnectPort, SetPort
  <2>2. QED
    BY <2>1 DEF FollowInv, Following
<1>17. CASE ConnectDone
  <2>1. initDoneAt' = pushed /\ UNCHANGED handled
    BY <1>17 DEF ConnectDone, queueVars
  <2>2. Len(handled) \in Nat /\ pushed \in Nat /\ handled \in Seq(Nat)
    BY BoundsAssumption DEF Types, QueueType
  <2>3. handled # <<>> => Last(handled) = Len(handled)
    BY <2>2 DEF NumberInv, Last
  <2>4. Len(handled) <= pushed
    <3>1. pc[Main] # "destroyed" => Len(handled) + Len(pwrEventQueue) = pushed
      BY DEF NumberInv
    <3>2. Len(pwrEventQueue) \in Nat
      BY DEF Types, QueueType
    <3>3. pc[Main] = "destroyed" => Len(handled) <= pushed
      BY DEF NumberInv
    <3>4. QED
      BY <2>2, <3>1, <3>2, <3>3
  <2>5. ~Following'
    BY <2>1, <2>2, <2>3, <2>4 DEF Following, Last
  <2>6. QED
    BY <2>5 DEF FollowInv
<1>18. ASSUME NEW n \in Names, NEW v \in EnableValues, SetStandbyVideoState(n, v)
      PROVE  FollowInv'
  <2>1. /\ g_standby_video_port_setting' = StandbyTable(n, v) /\ touched' = touched \cup {n}
        /\ UNCHANGED <<led, enabled, job, todo, handled, initDoneAt>>
        /\ pc'[Connect] = pc[Connect] /\ pc'[Event] = pc[Event]
    BY <1>18, <1>0 DEF SetStandbyVideoState, Call, queueVars
  <2>2. Types' /\ NamesDiffer' /\ NamesDiffer
    BY <2>1, TypeStep, StandbyTableStep DEF SettingInv
  <2>3. \A p : p # n => (StandbySetting(p) <=> \E i \in EntriesOf(p) : g_standby_video_port_setting[i].isEnabled)
    BY <2>2, SettingRead
  <2>4. \A p : p # n => (StandbySetting(p)' <=> \E i \in EntriesOf(p)' : g_standby_video_port_setting'[i].isEnabled)
    <3>1. ASSUME NEW p
          PROVE  (StandbySetting(p) <=> \E i \in EntriesOf(p) : g_standby_video_port_setting[i].isEnabled)'
      BY <2>2, SettingRead, PTL
    <3>2. QED
      BY <3>1
  <2>5. \A p : p # n => (StandbySetting(p)' <=> StandbySetting(p))
    BY <2>1, <2>2, <2>3, <2>4, StandbyTableStep
  <2>6. QED
    BY <2>1, <2>5, FollowKept
<1>19. ASSUME NEW s \in States, SetAvPortState(s)
      PROVE  FollowInv'
  <2>1. /\ UNCHANGED <<led, enabled, touched, g_standby_video_port_setting, handled, initDoneAt>>
        /\ job'[Event] = job[Event] /\ todo'[Event] = todo[Event]
        /\ pc'[Connect] = pc[Connect] /\ pc'[Event] = pc[Event]
    BY <1>19, <1>0 DEF SetAvPortState, Call, queueVars, portVars, setVars
  <2>2. \A p : StandbySetting(p)' <=> StandbySetting(p)
    BY <2>1 DEF StandbySetting
  <2>3. QED
    BY <2>1, <2>2, FollowKept
<1>20. ASSUME NEW s \in States, SetLEDState(s)
      PROVE  FollowInv'
  <2>1. /\ UNCHANGED <<enabled, g_standby_video_port_setting, job, todo, handled, initDoneAt>>
        /\ touched' = touched \cup {LED} /\ pc'[Connect] = pc[Connect] /\ pc'[Event] = pc[Event]
    BY <1>20, <1>0 DEF SetLEDState, Call, queueVars, jobVars, setVars
  <2>2. \A p : StandbySetting(p)' <=> StandbySetting(p)
    BY <2>1 DEF StandbySetting
  <2>3. QED
    BY <2>1, <2>2, FollowKept
<1>21. CASE ApplySetting
  <2>1. /\ UNCHANGED <<led, g_standby_video_port_setting, job, todo, handled, initDoneAt>>
        /\ touched' = touched \cup {param.port} /\ pc'[Connect] = pc[Connect] /\ pc'[Event] = pc[Event]
        /\ \A p : p # param.port => (p \in enabled' <=> p \in enabled)
    BY <1>21, <1>0 DEF ApplySetting, queueVars, setVars
  <2>2. \A p : StandbySetting(p)' <=> StandbySetting(p)
    BY <2>1 DEF StandbySetting
  <2>3. QED
    BY <2>1, <2>2, FollowKept
<1>22. CASE RpcPort
  <2> DEFINE q == Head(todo[Rpc])
  <2>1. /\ UNCHANGED <<led, g_standby_video_port_setting, job, handled, initDoneAt, pc>>
        /\ todo'[Event] = todo[Event] /\ touched' = touched \cup {q}
        /\ \A p : p # q => (p \in enabled' <=> p \in enabled)
    BY <1>22, <1>0 DEF RpcPort, SetPort, TouchedBy, Configured, queueVars, setVars, Rpc, Event
  <2>2. \A p : StandbySetting(p)' <=> StandbySetting(p)
    BY <2>1 DEF StandbySetting
  <2>3. QED
    BY <2>1, <2>2, FollowKept
<1>23. CASE RpcPortsDone
  <2>1. /\ UNCHANGED <<led, enabled, touched, g_standby_video_port_setting, handled, initDoneAt>>
        /\ job'[Event] = job[Event] /\ todo'[Event] = todo[Event]
        /\ pc'[Connect] = pc[Connect] /\ pc'[Event] = pc[Event]
    BY <1>23, <1>0 DEF RpcPortsDone, PortsDone, jobVars, queueVars, portVars, setVars
  <2>2. \A p : StandbySetting(p)' <=> StandbySetting(p)
    BY <2>1 DEF StandbySetting
  <2>3. QED
    BY <2>1, <2>2, FollowKept
<1>24. CASE RequestStop
  <2>1. UNCHANGED <<led, enabled, touched, g_standby_video_port_setting, job, todo, handled, initDoneAt>>
    BY <1>24 DEF RequestStop, queueVars, jobVars, portVars, setVars
  <2>2. /\ pc'[Connect] = "done" => pc[Connect] = "done"
        /\ pc'[Event] # "led" => pc[Event] # "led"
    BY <1>24, <1>0 DEF RequestStop
  <2>3. QED
    BY <2>1, <2>2, NothingKept
<1>25. CASE StopSignal
  <2>1. UNCHANGED <<led, enabled, touched, g_standby_video_port_setting, job, todo, handled, initDoneAt>>
    BY <1>25 DEF StopSignal, queueVars, jobVars, portVars, setVars
  <2>2. /\ pc'[Connect] = "done" => pc[Connect] = "done"
        /\ pc'[Event] # "led" => pc[Event] # "led"
    BY <1>25, <1>0 DEF StopSignal, WakeEventThread
  <2>3. QED
    BY <2>1, <2>2, NothingKept
<1>26. CASE StopJoin
  <2>1. UNCHANGED <<led, enabled, touched, g_standby_video_port_setting, job, todo, handled, initDoneAt>>
    BY <1>26 DEF StopJoin, queueVars, jobVars, portVars, setVars
  <2>2. /\ pc'[Connect] = "done" => pc[Connect] = "done"
        /\ pc'[Event] # "led" => pc[Event] # "led"
    BY <1>26, <1>0 DEF StopJoin
  <2>3. QED
    BY <2>1, <2>2, NothingKept
<1>27. CASE StopClear
  <2>1. UNCHANGED <<led, enabled, touched, g_standby_video_port_setting, job, todo, handled, initDoneAt>>
    BY <1>27 DEF StopClear, queueVars, jobVars, portVars, setVars
  <2>2. /\ pc'[Connect] = "done" => pc[Connect] = "done"
        /\ pc'[Event] # "led" => pc[Event] # "led"
    BY <1>27, <1>0 DEF StopClear
  <2>3. QED
    BY <2>1, <2>2, NothingKept
<1>28. CASE UNCHANGED vars
  <2>1. /\ UNCHANGED <<led, enabled, touched, g_standby_video_port_setting, job, todo, handled, initDoneAt>>
        /\ UNCHANGED pc
    BY <1>28 DEF vars, queueVars, jobVars, portVars, setVars
  <2>2. QED
    BY <2>1, NothingKept
<1>29. QED
  BY <1>1, <1>2, <1>3, <1>4, <1>5, <1>6, <1>7, <1>8, <1>9, <1>10, <1>11, <1>12, <1>13, <1>14, <1>15,
     <1>16, <1>17, <1>18, <1>19, <1>20, <1>21, <1>22, <1>23, <1>24, <1>25, <1>26, <1>27, <1>28
     DEF Next, EventNext, ConnectNext, RpcBegin, RpcNext, Names

(* Once every event is handled, the ports and the LED are as the last event's
   state asks, but for what a call or a failing port has changed since, for
   every number of power changes, calls and failures; events that came while
   the connect thread was at work are left out. *)
THEOREM PortsAreSet == Spec => []PortsFollowPower
<1> DEFINE Inv == Types /\ ExitInv /\ NumberInv /\ SettingInv
           FInv == TodoInv /\ FollowInv
<1>1. Init => FInv
  BY DEF Init, TodoInv, FollowInv, Following, Threads, Event, Connect
<1>2. Inv /\ FInv /\ [Next]_vars => FInv'
  BY TodoStep, FollowStep
<1>3. FInv => PortsFollowPower
  <2>1. ASSUME FInv, Settled, Last(handled) > initDoneAt, NEW p \in (Ports \cup {LED}) \ touched
        PROVE  Matches(p, job[Event])
    <3>1. Following /\ pc[Event] \notin {"led", "ports"}
      BY <2>1 DEF Settled, Following
    <3>2. ToSet(todo[Event]) = {}
      BY <2>1, <3>1 DEF TodoInv, ToSet
    <3>3. QED
      BY <2>1, <3>1, <3>2 DEF FollowInv
  <2>2. QED
    BY <2>1 DEF PortsFollowPower
<1>4. Spec => []Inv
  BY ChannelInvariance, SettingInvariance, PTL
<1> HIDE DEF Inv, FInv
<1>5. QED
  BY <1>1, <1>2, <1>3, <1>4, PTL DEF Spec
=============================================================================
