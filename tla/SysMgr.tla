------------------------------- MODULE SysMgr -------------------------------
(***************************************************************************)
(* The system manager daemon (sysmgr/sysMgr.c, sysMgrMain.c): a table of   *)
(* system states that peers update by broadcasting SYSTEMSTATE events and  *)
(* that anybody can read with GetSystemStates; the HDCP profile, kept as a *)
(* file; and the key code logging preference, kept in memory.              *)
(*                                                                         *)
(* The threads are main, which runs SYSMgr_Start and then sleeps for ever  *)
(* in SYSMgr_Loop (so SYSMgr_Stop is never reached), the IARM dispatch     *)
(* thread that runs _sysEventHandler, and the threads that run the calls   *)
(* of the clients.  That calls overlap one another and the events is what  *)
(* tMutexLock and hdcp_file_mutex are there for.  The read only calls      *)
(* GetHDCPProfile and GetKeyCodeLoggingPref change nothing and are left    *)
(* out.                                                                    *)
(*                                                                         *)
(* Of the forty state ids the model has one for each way an id is treated. *)
(* The n-th event carries the token Token(n), so that it can be told which *)
(* event a field of the table came from; a blank event carries the state 0 *)
(* and no payload, which a media client and GetSerialNumber take for       *)
(* unknown.                                                                *)
(***************************************************************************)
EXTENDS Integers, Sequences

CONSTANTS
    Callers,            \* threads that run calls of clients
    Ops,                \* the calls clients make
    Ids,                \* the state ids that events carry
    UseMfrForSerial,    \* USE_MFR_FOR_SERIAL
    MediaClient,        \* MEDIA_CLIENT
    CallsDuringStart,   \* clients may call as soon as a call is registered
    StartMayFail,       \* the IARM calls of SYSMgr_Start may fail
    SetMayFail,         \* the profile file or a broadcast may fail
    MaxEvents,          \* bound: events that arrive
    MaxCalls            \* bound: calls of clients

AllIds == {"CHANNELMAP", "TUNEREADY", "HDCP_ENABLED", "TIME_SOURCE", "STB_SERIAL_NO", "UNKNOWN"}
AllOps == {"GetSystemStates", "SetHDCPProfile", "SetKeyCodeLoggingPref"}

ASSUME IdsAssumption    == Ids \subseteq AllIds
ASSUME OpsAssumption    == Ops \subseteq AllOps
ASSUME FlagsAssumption  == {UseMfrForSerial, MediaClient, CallsDuringStart, StartMayFail, SetMayFail} \subseteq BOOLEAN
ASSUME SysBoundsAssumption == MaxEvents \in Nat /\ MaxCalls \in Nat

Token(n)   == 10 + n     \* what the n-th event carries
MfrSerial  == 99         \* the serial number MFRMgr answers with
Nothing    == -1         \* no broadcast so far, no answer of MFRMgr
None       == "none"     \* no thread
Main       == "main"
Dispatch   == "dispatch"
Zero       == [state |-> 0, error |-> 0, payload |-> 0]
NoEvent    == [n |-> 0, blank |-> TRUE]

ASSUME CallersAssumption == None \notin Callers

(* The fields of an entry that an event of the id stores; an id the switch
   does not know stores nothing. *)
Fields(id) ==
    CASE id = "CHANNELMAP"    -> {"state", "error", "payload"}
      [] id = "STB_SERIAL_NO" -> {"error", "payload"}
      [] id = "UNKNOWN"       -> {}
      [] OTHER                -> {"state", "error"}

(* What SYSMgr_Start registers, in this order. *)
Registrations == <<"GetSystemStates", "SYSTEMSTATE", "SetHDCPProfile", "GetHDCPProfile",
                   "GetKeyCodeLoggingPref", "SetKeyCodeLoggingPref">>

VARIABLES
    tMutexLock,         \* its holder
    hdcp_file_mutex,    \* its holder
    systemStates,       \* the table
    initialized,
    started,            \* where SYSMgr_Start is: "enter", "register", "pref", "defaults", "failed", "done"
    registered,         \* number of registrations made
    handler,            \* where the dispatch thread is: "idle", "wait", "locked", "stored"
    event,              \* the event it handles
    handled,            \* history: the last event of each id that is in the table
    pc, arg,            \* where each caller is, and the value it sets
    answer,             \* what MFRMgr answered to a caller's request for the serial number
    profile,            \* 1 if the profile file exists
    profileTold,        \* history: the profile broadcast last
    keyLogStatus,
    prevKeyLogStatus,   \* the local variable of each caller
    keyTold,            \* history: the preference broadcast last
    keySet,             \* history: the preference set last by a call that has returned
    events, calls       \* counters for the bounds

startVars == <<initialized, started, registered>>
eventVars == <<handler, event, handled, events>>
hdcpVars  == <<hdcp_file_mutex, profile, profileTold>>
keyVars   == <<keyLogStatus, prevKeyLogStatus, keyTold, keySet>>
callVars  == <<pc, arg, answer, calls>>
vars      == <<tMutexLock, systemStates, startVars, eventVars, hdcpVars, keyVars, callVars>>

Init ==
    /\ tMutexLock = None /\ hdcp_file_mutex = None
    /\ systemStates = [id \in AllIds |-> Zero]
    /\ initialized = FALSE /\ started = "enter" /\ registered = 0
    /\ handler = "idle" /\ event = [id |-> "UNKNOWN", n |-> 0, blank |-> TRUE]
    /\ handled = [id \in AllIds |-> NoEvent]
    /\ pc = [c \in Callers |-> "idle"]
    /\ arg = [c \in Callers |-> 0]
    /\ answer = [c \in Callers |-> Nothing]
    /\ profile \in {0, 1} /\ profileTold = Nothing
    /\ keyLogStatus = 1 /\ prevKeyLogStatus = [c \in Callers |-> 1]
    /\ keyTold = Nothing /\ keySet = Nothing
    /\ events = 0 /\ calls = 0

IsRegistered(name) == \E i \in 1..registered : Registrations[i] = name

Goto(c, from, to) == pc[c] = from /\ pc' = [pc EXCEPT ![c] = to]

-----------------------------------------------------------------------------
(* SYSMgr_Start, on the main thread, with the mutex from end to end. *)

(* IARM_Bus_Init, Connect and RegisterEvent. *)
StartEnter ==
    /\ started = "enter" /\ tMutexLock = None
    /\ tMutexLock' = Main
    /\ systemStates' = [id \in AllIds |-> Zero]
    /\ started' = "register"
    /\ UNCHANGED <<initialized, registered, eventVars, hdcpVars, keyVars, callVars>>

(* initialized is set, and systemd told READY, after the second registration. *)
Register ==
    /\ started = "register" /\ registered < Len(Registrations)
    /\ registered' = registered + 1
    /\ initialized' = (registered' >= 2)
    /\ started' = IF registered' = Len(Registrations) THEN "pref" ELSE "register"
    /\ UNCHANGED <<tMutexLock, systemStates, eventVars, hdcpVars, keyVars, callVars>>

(* Faulty variant: the early return leaves the mutex locked. *)
StartFailsLocked ==
    /\ StartMayFail /\ started = "register"
    /\ started' = "failed"
    /\ UNCHANGED <<tMutexLock, initialized, registered, systemStates, eventVars, hdcpVars, keyVars, callVars>>

(* UNLOCK_AND_RETURN_IF_ERROR; main does not look at the result. *)
StartFails ==
    /\ StartMayFail /\ started = "register"
    /\ started' = "failed"
    /\ tMutexLock' = None
    /\ UNCHANGED <<initialized, registered, systemStates, eventVars, hdcpVars, keyVars, callVars>>

(* Faulty variant: the mutex is released once everything is registered. *)
StartPrefUnlocks ==
    /\ started = "pref"
    /\ keyLogStatus' = 1
    /\ started' = "defaults"
    /\ tMutexLock' = None
    /\ UNCHANGED <<initialized, registered, systemStates, eventVars, hdcpVars,
                   prevKeyLogStatus, keyTold, keySet, callVars>>

StartPref ==
    /\ started = "pref"
    /\ keyLogStatus' = 1
    /\ started' = "defaults"
    /\ UNCHANGED <<tMutexLock, initialized, registered, systemStates, eventVars, hdcpVars,
                   prevKeyLogStatus, keyTold, keySet, callVars>>

StartDefaults ==
    /\ started = "defaults"
    /\ systemStates' = [id \in AllIds |-> [Zero EXCEPT !.state = IF id = "HDCP_ENABLED" THEN 1 ELSE 0]]
    /\ started' = "done"
    /\ tMutexLock' = None
    /\ UNCHANGED <<initialized, registered, eventVars, hdcpVars, keyVars, callVars>>

-----------------------------------------------------------------------------
(* _sysEventHandler, on the dispatch thread. *)

EventArrives(id, blank) ==
    /\ IsRegistered("SYSTEMSTATE") /\ handler = "idle" /\ events < MaxEvents
    /\ events' = events + 1
    /\ event' = [id |-> id, n |-> events', blank |-> blank]
    /\ handler' = "wait"
    /\ UNCHANGED <<tMutexLock, systemStates, startVars, handled, hdcpVars, keyVars, callVars>>

EventLock ==
    /\ handler = "wait" /\ tMutexLock = None
    /\ tMutexLock' = Dispatch
    /\ handler' = "locked"
    /\ UNCHANGED <<systemStates, startVars, event, handled, events, hdcpVars, keyVars, callVars>>

(* What event v carries in field f. *)
Carried(v, f) == IF f # "error" /\ v.blank THEN 0 ELSE Token(v.n)

(* The entry with the given fields stored from the event. *)
Stored(entry, fields) ==
    [f \in DOMAIN entry |-> IF f \in fields THEN Carried(event, f) ELSE entry[f]]

StoreState ==
    /\ handler = "locked"
    /\ systemStates' = [systemStates EXCEPT ![event.id] = Stored(@, Fields(event.id) \cap {"state"})]
    /\ handler' = "stored"
    /\ UNCHANGED <<tMutexLock, startVars, event, handled, events, hdcpVars, keyVars, callVars>>

StoreRest ==
    /\ handler = "stored"
    /\ systemStates' = [systemStates EXCEPT ![event.id] = Stored(@, Fields(event.id) \ {"state"})]
    /\ handled' = [handled EXCEPT ![event.id] = [n |-> event.n, blank |-> event.blank]]
    /\ handler' = "idle"
    /\ tMutexLock' = None
    /\ UNCHANGED <<startVars, event, events, hdcpVars, keyVars, callVars>>

-----------------------------------------------------------------------------
(* Calls of clients. *)

FirstStep(op) ==
    CASE op = "GetSystemStates" -> IF UseMfrForSerial THEN "serial" ELSE "copy"
      [] op = "SetHDCPProfile"  -> "profile"
      [] OTHER                  -> "pref"

Call(c, op) ==
    /\ pc[c] = "idle" /\ calls < MaxCalls
    /\ IsRegistered(op) /\ (CallsDuringStart \/ started \in {"done", "failed"})
    /\ calls' = calls + 1
    /\ pc' = [pc EXCEPT ![c] = FirstStep(op)]
    /\ \E v \in IF op = "GetSystemStates" THEN {0} ELSE {0, 1, 2} : arg' = [arg EXCEPT ![c] = v]
    /\ UNCHANGED <<tMutexLock, systemStates, startVars, eventVars, hdcpVars, keyVars, answer>>

(* GetSerialNumber up to the release of the mutex. *)
SerialCheck(c) ==
    /\ tMutexLock = None
    /\ Goto(c, "serial", IF systemStates["STB_SERIAL_NO"].payload # 0 THEN "copy" ELSE "mfr")
    /\ UNCHANGED <<tMutexLock, systemStates, startVars, eventVars, hdcpVars, keyVars, arg, answer, calls>>

(* MFRMgr answers, perhaps with bufLen 0, or the call fails; no mutex is held. *)
MfrAnswers(c) ==
    /\ Goto(c, "mfr", "serial store")
    /\ \E serial \in {MfrSerial, 0, Nothing} : answer' = [answer EXCEPT ![c] = serial]
    /\ UNCHANGED <<tMutexLock, systemStates, startVars, eventVars, hdcpVars, keyVars, arg, calls>>

(* Faulty variant: the payload is cleared before the result is looked at. *)
SerialStoreClears(c) ==
    /\ tMutexLock = None
    /\ Goto(c, "serial store", "copy")
    /\ systemStates' = [systemStates EXCEPT !["STB_SERIAL_NO"] =
           IF answer[c] # Nothing THEN [@ EXCEPT !.payload = answer[c], !.error = 0]
           ELSE [@ EXCEPT !.payload = 0, !.error = 1]]
    /\ UNCHANGED <<tMutexLock, startVars, eventVars, hdcpVars, keyVars, arg, answer, calls>>

SerialStore(c) ==
    /\ tMutexLock = None
    /\ Goto(c, "serial store", "copy")
    /\ systemStates' = [systemStates EXCEPT !["STB_SERIAL_NO"] =
           IF answer[c] # Nothing THEN [@ EXCEPT !.payload = answer[c], !.error = 0]
           ELSE [@ EXCEPT !.error = 1]]
    /\ answer' = [answer EXCEPT ![c] = Nothing]
    /\ UNCHANGED <<tMutexLock, startVars, eventVars, hdcpVars, keyVars, arg, calls>>

(* A media client reports the channel map and tuning as ready, and the time
   as known once the file of ntp_filename is there. *)
Reported(table, ntp) ==
    IF MediaClient
    THEN [table EXCEPT !["CHANNELMAP"].state = 2, !["TUNEREADY"].state = 1,
                       !["TIME_SOURCE"].state = IF @ = 0 /\ ntp THEN 1 ELSE @]
    ELSE table

(* Faulty variant: the table is copied without the mutex. *)
CopyNoLock(c) ==
    /\ Goto(c, "copy", "idle")
    /\ systemStates' = Reported(systemStates, FALSE)
    /\ UNCHANGED <<tMutexLock, startVars, eventVars, hdcpVars, keyVars, arg, answer, calls>>

(* The rest of _GetSystemStates, in one critical section. *)
Copy(c) ==
    /\ tMutexLock = None
    /\ Goto(c, "copy", "idle")
    /\ \E ntp \in BOOLEAN : systemStates' = Reported(systemStates, ntp)
    /\ UNCHANGED <<tMutexLock, startVars, eventVars, hdcpVars, keyVars, arg, answer, calls>>

(* Faulty variant: two calls may look at the file at the same time. *)
ProfileCheckNoLock(c) ==
    /\ Goto(c, "profile", IF profile # arg[c] /\ arg[c] \in {0, 1} THEN "file" ELSE "idle")
    /\ UNCHANGED <<tMutexLock, systemStates, startVars, eventVars, hdcpVars, keyVars, arg, answer, calls>>

(* _SetHDCPProfile up to the test; an unchanged or unknown profile is an
   error and the mutex is released again. *)
ProfileCheck(c) ==
    /\ hdcp_file_mutex = None
    /\ LET change == profile # arg[c] /\ arg[c] \in {0, 1} IN
       /\ Goto(c, "profile", IF change THEN "file" ELSE "idle")
       /\ hdcp_file_mutex' = IF change THEN c ELSE None
    /\ UNCHANGED <<tMutexLock, systemStates, startVars, eventVars, profile, profileTold, keyVars,
                   arg, answer, calls>>

(* unlink or open, whose failure goes unnoticed. *)
ProfileFile(c) ==
    /\ Goto(c, "file", "profile tell")
    /\ \E ok \in BOOLEAN : /\ ok \/ SetMayFail
                           /\ profile' = IF ok THEN arg[c] ELSE profile
    /\ UNCHANGED <<tMutexLock, systemStates, startVars, eventVars, hdcp_file_mutex, profileTold, keyVars,
                   arg, answer, calls>>

ProfileTell(c) ==
    /\ Goto(c, "profile tell", "idle")
    /\ \E sent \in BOOLEAN : /\ sent \/ SetMayFail
                             /\ profileTold' = IF sent THEN arg[c] ELSE profileTold
    /\ hdcp_file_mutex' = None
    /\ UNCHANGED <<tMutexLock, systemStates, startVars, eventVars, profile, keyVars, arg, answer, calls>>

(* setKeyCodeLoggingPref takes no mutex: the old value is read, *)
PrefRead(c) ==
    /\ Goto(c, "pref", "pref write")
    /\ prevKeyLogStatus' = [prevKeyLogStatus EXCEPT ![c] = keyLogStatus]
    /\ UNCHANGED <<tMutexLock, systemStates, startVars, eventVars, hdcpVars, keyLogStatus, keyTold, keySet,
                   arg, answer, calls>>

(* the new one is written, unless it is out of range, *)
PrefWrite(c) ==
    /\ Goto(c, "pref write", "pref tell")
    /\ keyLogStatus' = IF arg[c] \in {0, 1} THEN arg[c] ELSE keyLogStatus
    /\ UNCHANGED <<tMutexLock, systemStates, startVars, eventVars, hdcpVars, prevKeyLogStatus, keyTold, keySet,
                   arg, answer, calls>>

(* and a change is broadcast.  keyLogStatus is read again for that, without
   synchronisation: the compiler may use the value it knows or load it. *)
PrefTell(c) ==
    /\ Goto(c, "pref tell", "idle")
    /\ \E now \in {keyLogStatus, IF arg[c] \in {0, 1} THEN arg[c] ELSE prevKeyLogStatus[c]} :
         \E sent \in BOOLEAN :
           /\ sent \/ SetMayFail
           /\ keyTold' = IF sent /\ now # prevKeyLogStatus[c] THEN now ELSE keyTold
    /\ keySet' = IF arg[c] \in {0, 1} THEN arg[c] ELSE keySet
    /\ UNCHANGED <<tMutexLock, systemStates, startVars, eventVars, hdcpVars, keyLogStatus, prevKeyLogStatus,
                   arg, answer, calls>>

-----------------------------------------------------------------------------
Start == StartEnter \/ Register \/ StartFails \/ StartPref \/ StartDefaults

Handle == EventLock \/ StoreState \/ StoreRest

CallStep(c) ==
    \/ SerialCheck(c) \/ MfrAnswers(c) \/ SerialStore(c) \/ Copy(c)
    \/ ProfileCheck(c) \/ ProfileFile(c) \/ ProfileTell(c)
    \/ PrefRead(c) \/ PrefWrite(c) \/ PrefTell(c)

Next ==
    \/ Start
    \/ \E id \in Ids, blank \in BOOLEAN : EventArrives(id, blank)
    \/ Handle
    \/ \E c \in Callers : CallStep(c)
    \/ \E c \in Callers, op \in Ops : Call(c, op)

Spec == Init /\ [][Next]_vars

(* Every thread is scheduled again and again and a call to another process
   returns (IARM_Bus_Call has a timeout).  Arrivals are not assumed. *)
FairSpec == Spec /\ WF_vars(Start) /\ WF_vars(Handle) /\ \A c \in Callers : WF_vars(CallStep(c))

-----------------------------------------------------------------------------
Entries == [{"state", "error", "payload"} -> Nat]
Tables  == [AllIds -> Entries]
Latest  == [AllIds -> [n : 0..MaxEvents, blank : BOOLEAN]]
Bit     == {0, 1}

(* Types of the variables; the preference is never a value out of range. *)
TypeOK ==
    /\ tMutexLock \in {None, Main, Dispatch}
    /\ hdcp_file_mutex \in {None} \cup Callers
    /\ systemStates \in Tables
    /\ initialized \in BOOLEAN /\ registered \in 0..Len(Registrations)
    /\ started \in {"enter", "register", "pref", "defaults", "failed", "done"}
    /\ handler \in {"idle", "wait", "locked", "stored"}
    /\ event \in [id : AllIds, n : 0..MaxEvents, blank : BOOLEAN]
    /\ handled \in Latest
    /\ pc \in [Callers -> {"idle", "serial", "mfr", "serial store", "copy", "profile", "file",
                           "profile tell", "pref", "pref write", "pref tell"}]
    /\ arg \in [Callers -> 0..2] /\ answer \in [Callers -> {MfrSerial, 0, Nothing}]
    /\ profile \in Bit /\ profileTold \in Bit \cup {Nothing}
    /\ keyLogStatus \in Bit /\ prevKeyLogStatus \in [Callers -> Bit]
    /\ keyTold \in Bit \cup {Nothing} /\ keySet \in Bit \cup {Nothing}
    /\ events \in 0..MaxEvents /\ calls \in 0..MaxCalls

(* The states that a media client puts over what event v brought: the channel
   map and tuning are always ready, and a time source that is 0 becomes 1. *)
Overridden(id, f, value, v) ==
    /\ MediaClient /\ f = "state"
    /\ \/ id = "CHANNELMAP" /\ value = 2
       \/ id = "TUNEREADY" /\ value = 1
       \/ id = "TIME_SOURCE" /\ value = 1 /\ Carried(v, f) = 0

(* The ids that only events change; the serial number MFRMgr may answer too. *)
SharedIds == AllIds \ {"STB_SERIAL_NO"}

(* The entry e of id is the one event v brought, or has nothing of any event
   if there was none. *)
FromEvent(id, e, v) ==
    \A f \in Fields(id) :
        IF v.n = 0 THEN e[f] < Token(0)
        ELSE e[f] = Carried(v, f) \/ Overridden(id, f, e[f], v)

(* The reply of a call of _GetSystemStates is the table that its last step
   leaves. *)
Replies(c) == pc[c] = "copy" /\ pc'[c] = "idle"

(* No client is given an entry that is half of one event and half of another
   or that is out of date: each entry of a reply is, in all fields that events
   store, the last event of its id that was handled before the reply
   (_GetSystemStates 294-313 against _sysEventHandler 329-594), but for the
   states that a media client puts over it. *)
RepliesAreWhole ==
    [][\A c \in Callers : Replies(c) => \A id \in SharedIds : FromEvent(id, systemStates'[id], handled[id])]_vars

(* What the table holds when nobody is changing it is what the last event of
   each id carried: an event that was handled while SYSMgr_Start was still
   registering is not wiped out by the defaults (lines 123-163), and a media
   client puts nothing but its three states over it (303-311). *)
UpdatesStick ==
    tMutexLock = None =>
        \A id \in SharedIds : FromEvent(id, systemStates[id], handled[id])

(* A serial number that is known is lost only to an event or an answer of
   MFRMgr that is itself empty: not to a request to MFRMgr that fails after
   another has got the number or an event has brought it (lines 621-641), and
   not to the defaults. *)
Known(table) == table["STB_SERIAL_NO"].payload # 0
SerialNumberIsKept ==
    [][Known(systemStates) /\ ~Known(systemStates') =>
          \/ handler = "stored" /\ event.id = "STB_SERIAL_NO" /\ event.blank
          \/ \E c \in Callers : pc[c] = "serial store" /\ pc'[c] = "copy" /\ answer[c] = 0]_vars

(* A serial number that an event has brought stays with the error code the
   event gave it. *)
SerialEventSticks ==
    tMutexLock = None => FromEvent("STB_SERIAL_NO", systemStates["STB_SERIAL_NO"], handled["STB_SERIAL_NO"])

(* Once systemd has been told that SysMgr is ready, clients are told that
   HDCP is enabled unless an event said otherwise (line 160). *)
HdcpIsEnabledByDefault ==
    initialized /\ tMutexLock = None /\ handled["HDCP_ENABLED"].n = 0 =>
        systemStates["HDCP_ENABLED"].state = 1

(* While no profile is being set, the last one announced is the one of the
   file (_SetHDCPProfile 234-259). *)
ProfileToldIsTheFile ==
    (\A c \in Callers : pc[c] \notin {"file", "profile tell"}) /\ profileTold # Nothing
        => profileTold = profile

(* While no preference is being set, the last one announced is the one in
   force (setKeyCodeLoggingPref 650-681). *)
PrefToldIsInForce ==
    (\A c \in Callers : pc[c] \notin {"pref write", "pref tell"}) /\ keyTold # Nothing
        => keyTold = keyLogStatus

(* A preference that a client has set and nobody has changed since is in
   force once SysMgr has started. *)
PrefSetIsInForce ==
    (\A c \in Callers : pc[c] = "idle") /\ started = "done" /\ keySet # Nothing
        => keySet = keyLogStatus

(* Every call returns and every event is handled, wherever SYSMgr_Start
   failed (UNLOCK_AND_RETURN_IF_ERROR) and whoever waits for a mutex. *)
EverybodyGetsThrough ==
    /\ \A c \in Callers : []<>(pc[c] = "idle")
    /\ []<>(handler = "idle")
=============================================================================
