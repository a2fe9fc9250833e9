------------------------------- MODULE MfrMgr -------------------------------
(***************************************************************************)
(* The manufacturer library daemon (mfr/mfrMgr.c, mfrMgrMain.c): two dozen *)
(* calls, each of which finds a function of the vendor's library (RDK_     *)
(* MFRLIB_NAME) by name when it is first made and hands the request on,    *)
(* and the image jobs that WriteImage, VerifyImage and MirrorImage start   *)
(* in that library, whose reports come back through writeImageCb.          *)
(*                                                                         *)
(* A handler is a row of a table that says where its function comes from,  *)
(* which arguments it refuses, what it answers to each failure of the      *)
(* library and, for image jobs, whether it looks at lastStatus and resets  *)
(* it.  The steps that all handlers share are the actions.  What the       *)
(* library reads and writes for a caller is left out: for the daemon it is *)
(* a success or a failure.  A flag that mfrGetFSRflag left at 0xFFFF is a  *)
(* failure of the library, as it is for getFSRflag_; profileType, which    *)
(* only selects the name getSerializedData_ asks for, is left out.  The    *)
(* handlers that do not test their argument for NULL are never given one   *)
(* by the bus.                                                             *)
(*                                                                         *)
(* Calls run on threads of IARM and may overlap; the daemon has no mutex.  *)
(* The library is external.  Its jobs run on threads of their own.         *)
(***************************************************************************)
EXTENDS Integers, Sequences, FiniteSets

CONSTANTS
    Callers,            \* threads that run calls of clients
    Handlers,           \* the calls that are built in and made
    Undefined,          \* those whose function the library does not have
    Detailed,           \* jobs report VERIFYING and FLASHING, not only STARTED
    OpenMayFail,        \* dlopen may fail
    StartMayFail,       \* a step of MFRLib_Start may fail
    MaxCalls            \* bound: calls of clients

Success      == "SUCCESS"
InvalidParam == "INVALID_PARAM"
InvalidState == "INVALID_STATE"
IpcCoreFail  == "IPCCORE_FAIL"
Results      == {Success, InvalidParam, InvalidState, IpcCoreFail}

-----------------------------------------------------------------------------
(* The handlers.
     lookup   "linked": called directly; "each": func is looked up until it
              is found; "once": looked up by the first call only
     refuses  what is wrong with an argument -> the answer
     fails    how the library fails -> the answer
     busy     looks at lastStatus before anything else
     resets   sets lastStatus to NOT_STARTED before it calls the library
     job      the library starts a job that reports to writeImageCb *)

Refuses(kind, result) == [k \in {kind} |-> result]
RefusesNothing        == [k \in {} |-> InvalidParam]
Fails(result)         == [k \in {"error"} |-> result]

Handler(lookup, refuses, fails) ==
    [lookup |-> lookup, refuses |-> refuses, fails |-> fails,
     busy |-> FALSE, resets |-> FALSE, job |-> FALSE]

(* A buffer of the library that does not fit the reply is given back too. *)
getSerializedData_ ==
    Handler("linked", RefusesNothing, [error |-> IpcCoreFail, toobig |-> InvalidParam])

(* func is called without the type and the data of the caller. *)
setSerializedData_ == Handler("each", RefusesNothing, Fails(InvalidState))

deletePDRI_ == Handler("each", RefusesNothing, Fails(InvalidState))

scrubAllBanks_ == Handler("each", RefusesNothing, Fails(InvalidState))

mfrWifiEraseAllData_ == Handler("each", RefusesNothing, Fails(InvalidState))

(* WIFI_SET_CREDENTIALS refuses strings without an end; WIFI_GET_CREDENTIALS
   may be given strings that do not fit. *)
mfrWifiCredentials_ ==
    Handler("linked", [null |-> InvalidParam, unterminated |-> InvalidParam],
            [error |-> IpcCoreFail, toobig |-> InvalidParam])

(* isValidWriteImageParam, isTerminatedString *)
isValidWriteImageParam == [null |-> InvalidParam, unterminated |-> InvalidParam]

writeImage_ ==
    [Handler("each", isValidWriteImageParam, Fails(IpcCoreFail))
        EXCEPT !.busy = TRUE, !.resets = TRUE, !.job = TRUE]

verifyImage_ ==
    [Handler("each", isValidWriteImageParam, Fails(IpcCoreFail))
        EXCEPT !.busy = TRUE, !.resets = TRUE, !.job = TRUE]

setBootloaderPattern_ == Handler("once", RefusesNothing, Fails(InvalidParam))

getSecureTime_ == Handler("each", Refuses("null", InvalidState), Fails(InvalidState))

setSecureTime_ == Handler("each", Refuses("null", InvalidState), Fails(InvalidState))

mirrorImage ==
    [Handler("each", isValidWriteImageParam, Fails(IpcCoreFail)) EXCEPT !.job = TRUE]

mfrSetBlSplashScreen_ ==
    Handler("each", [null |-> InvalidParam, unterminated |-> InvalidParam], Fails(InvalidState))

mfrClearBlSplashScreen_ == Handler("each", RefusesNothing, Fails(InvalidState))

getTemperature_ == Handler("each", Refuses("null", InvalidParam), Fails(IpcCoreFail))

setTemperatureThresholds_ == Handler("each", Refuses("null", InvalidParam), Fails(IpcCoreFail))

getTemperatureThresholds_ == Handler("each", Refuses("null", InvalidParam), Fails(IpcCoreFail))

searchCPUClockSpeeds_ == Handler("each", Refuses("null", InvalidParam), Fails(IpcCoreFail))

setCPUClockSpeed_ == Handler("each", Refuses("null", InvalidParam), Fails(IpcCoreFail))

getCPUClockSpeed_ == Handler("each", Refuses("null", InvalidParam), Fails(IpcCoreFail))

setConfigData_ == Handler("each", RefusesNothing, Fails(InvalidParam))

getConfigData_ == Handler("each", RefusesNothing, Fails(InvalidParam))

setFSRflag_ == Handler("each", Refuses("null", InvalidParam), Fails(InvalidState))

getFSRflag_ == Handler("each", Refuses("null", InvalidParam), Fails(InvalidState))

Table ==
    [getSerializedData |-> getSerializedData_, setSerializedData |-> setSerializedData_,
     deletePDRI |-> deletePDRI_, scrubAllBanks |-> scrubAllBanks_,
     writeImage |-> writeImage_, setBootloaderPattern |-> setBootloaderPattern_,
     mirrorImage |-> mirrorImage, setBlSplashScreen |-> mfrSetBlSplashScreen_,
     clearBlSplashScreen |-> mfrClearBlSplashScreen_,
     wifiEraseAllData |-> mfrWifiEraseAllData_, wifiCredentials |-> mfrWifiCredentials_,
     verifyImage |-> verifyImage_, getSecureTime |-> getSecureTime_,
     setSecureTime |-> setSecureTime_, setFSRflag |-> setFSRflag_, getFSRflag |-> getFSRflag_,
     getTemperature |-> getTemperature_, setTemperatureThresholds |-> setTemperatureThresholds_,
     getTemperatureThresholds |-> getTemperatureThresholds_,
     searchCPUClockSpeeds |-> searchCPUClockSpeeds_, setCPUClockSpeed |-> setCPUClockSpeed_,
     getCPUClockSpeed |-> getCPUClockSpeed_,
     setConfigData |-> setConfigData_, getConfigData |-> getConfigData_]

(* What MFRLib_Start does one after the other; EVENT_MAX is the registration
   of the status event.  The calls of ENABLE_MFR_WIFI and of
   MFR_TEMP_CLOCK_READ are there if they are in Handlers. *)
AllSteps ==
    <<"mfr_init", "IARM_Bus_Init", "IARM_Bus_Connect",
      "getSerializedData", "setSerializedData", "deletePDRI", "scrubAllBanks", "writeImage",
      "setBootloaderPattern", "mirrorImage", "setBlSplashScreen", "clearBlSplashScreen",
      "wifiEraseAllData", "wifiCredentials", "verifyImage", "EVENT_MAX",
      "getSecureTime", "setSecureTime", "setFSRflag", "getFSRflag",
      "getTemperature", "setTemperatureThresholds", "getTemperatureThresholds",
      "searchCPUClockSpeeds", "setCPUClockSpeed", "getCPUClockSpeed",
      "setConfigData", "getConfigData">>

Steps == SelectSeq(AllSteps, LAMBDA s : s \notin DOMAIN Table \ Handlers)

ASSUME HandlersAssumption == Undefined \subseteq Handlers /\ Handlers \subseteq DOMAIN Table
ASSUME MfrFlagsAssumption ==
    {Detailed, OpenMayFail, StartMayFail} \subseteq BOOLEAN
ASSUME MfrBoundAssumption == MaxCalls \in Nat

-----------------------------------------------------------------------------
Progress == {"NOT_STARTED", "STARTED", "ABORTED", "VERIFYING", "FLASHING", "REBOOTING", "COMPLETED"}
Busy     == {"VERIFYING", "FLASHING"}
Final    == {"COMPLETED", "ABORTED"}
CallIds  == 1..MaxCalls
NoCall   == 0

VARIABLES
    starting,           \* where main is: "running", "failed", "done"
    step,               \* the number of Steps that MFRLib_Start has made
    is_connected,
    bus,                \* the process is a member of the bus and can be called
    ready,              \* systemd was told READY
    func,               \* the handlers whose static func is set
    symbol_lookup_complete,
    pc,                 \* where each thread is: "idle", "lookup", "sym", "use", "hal"
    call,               \* the handler, the argument and the number of its call
    result,             \* what each thread's last call returned
    cause,              \* history: what the current or last call of a thread met
    lastStatus,         \* lastStatus.progress
    notifyStruct,       \* the call whose argument notifyStruct.cbData points into
    job,                \* what each image job last reported, "none" if there is none
    cb,                 \* the report a job's thread has broadcast and not yet stored
    told,               \* history: the last broadcast, its job and whose cbData it carried
    calls               \* counter for the bound

startVars == <<starting, step, is_connected, bus, ready>>
funcVars  == <<func, symbol_lookup_complete>>
callVars  == <<pc, call, result, cause, calls>>
imageVars == <<lastStatus, notifyStruct, job, cb, told>>
vars      == <<startVars, funcVars, callVars, imageVars>>

NoArg == [h |-> "none", arg |-> "good", id |-> NoCall]

Init ==
    /\ starting = "running" /\ step = 0 /\ is_connected = FALSE /\ bus = FALSE /\ ready = FALSE
    /\ func = {} /\ symbol_lookup_complete = FALSE
    /\ pc = [c \in Callers |-> "idle"]
    /\ call = [c \in Callers |-> NoArg]
    /\ result = [c \in Callers |-> Success]
    /\ cause = [c \in Callers |-> "none"]
    /\ lastStatus = "NOT_STARTED" /\ notifyStruct = NoCall
    /\ job = [j \in CallIds |-> "none"]
    /\ cb = [j \in CallIds |-> "none"]
    /\ told = [job |-> NoCall, data |-> NoCall]
    /\ calls = 0

Goto(c, from, to) == pc[c] = from /\ pc' = [pc EXCEPT ![c] = to]

Return(c, from, r, why) ==
    /\ Goto(c, from, "idle")
    /\ result' = [result EXCEPT ![c] = r]
    /\ cause' = [cause EXCEPT ![c] = why]

-----------------------------------------------------------------------------
(* MFRLib_Start and main. *)

(* The next step succeeds.  Once connected, calls that are registered arrive. *)
StartStep ==
    /\ starting = "running" /\ step < Len(Steps)
    /\ step' = step + 1
    /\ bus' = (bus \/ Steps[step'] = "IARM_Bus_Connect")
    /\ is_connected' = (is_connected \/ Steps[step'] = "IARM_Bus_Connect")
    /\ starting' = IF step' = Len(Steps) THEN "done" ELSE "running"
    /\ UNCHANGED <<ready, funcVars, callVars, imageVars>>

(* The next step fails: break, IARM_Bus_Disconnect if connected, IARM_Bus_Term. *)
StartFails ==
    /\ StartMayFail /\ starting = "running"
    /\ starting' = "failed"
    /\ bus' = IF is_connected THEN FALSE ELSE bus
    /\ UNCHANGED <<step, is_connected, ready, funcVars, callVars, imageVars>>

(* main does not look at the result; then MFRLib_Loop sleeps for ever. *)
TellReady ==
    /\ starting \in {"failed", "done"} /\ ~ready
    /\ ready' = TRUE
    /\ UNCHANGED <<starting, step, is_connected, bus, funcVars, callVars, imageVars>>

Registered == {Steps[i] : i \in 1..step} \cap Handlers

-----------------------------------------------------------------------------
(* A call. *)

AllArguments == {"good", "null", "unterminated"}
Arguments(h) == {"good"} \cup DOMAIN Table[h].refuses

IsBusy == lastStatus \in Busy

(* The call arrives; a handler of images refuses it if the last report says
   that one is verified or flashed. *)
Enter(c, h, a) ==
    /\ pc[c] = "idle" /\ bus /\ calls < MaxCalls
    /\ h \in Registered /\ a \in Arguments(h)
    /\ calls' = calls + 1
    /\ call' = [call EXCEPT ![c] = [h |-> h, arg |-> a, id |-> calls']]
    /\ \/ /\ Table[h].busy /\ IsBusy
          /\ Return(c, "idle", InvalidState, "busy")
       \/ /\ ~(Table[h].busy /\ IsBusy)
          /\ Goto(c, "idle", IF Table[h].lookup = "linked" \/ h \in func THEN "use" ELSE "lookup")
          /\ cause' = [cause EXCEPT ![c] = "none"]
          /\ UNCHANGED result
    /\ UNCHANGED <<startVars, funcVars, imageVars>>

(* setBootloaderPattern_ only: an earlier call has begun the lookup. *)
LookupDone(c) ==
    /\ Return(c, "lookup", InvalidState, "earlier")
    /\ Table[call[c].h].lookup = "once" /\ symbol_lookup_complete
    /\ UNCHANGED <<startVars, funcVars, call, calls, imageVars>>

MayLookUp(c) == Table[call[c].h].lookup = "each" \/ ~symbol_lookup_complete

MarksLookup(c) == symbol_lookup_complete' = (symbol_lookup_complete \/ Table[call[c].h].lookup = "once")

(* dlopen succeeds. *)
Open(c) ==
    /\ Goto(c, "lookup", "sym")
    /\ MayLookUp(c)
    /\ MarksLookup(c)
    /\ UNCHANGED <<startVars, func, call, result, cause, calls, imageVars>>

(* dlopen fails. *)
OpenFails(c) ==
    /\ Return(c, "lookup", InvalidState, "dlopen")
    /\ OpenMayFail /\ MayLookUp(c)
    /\ MarksLookup(c)
    /\ UNCHANGED <<startVars, func, call, calls, imageVars>>

(* dlsym finds the function, which stays set; dlclose. *)
SymFound(c) ==
    /\ call[c].h \notin Undefined
    /\ Goto(c, "sym", "use")
    /\ func' = func \cup {call[c].h}
    /\ UNCHANGED <<startVars, symbol_lookup_complete, call, result, cause, calls, imageVars>>

(* dlsym does not; dlclose. *)
SymMissing(c) ==
    /\ call[c].h \in Undefined
    /\ Return(c, "sym", InvalidState, "undefined")
    /\ UNCHANGED <<startVars, funcVars, call, calls, imageVars>>

(* The argument is refused. *)
Refuse(c) ==
    /\ call[c].arg # "good"
    /\ Return(c, "use", Table[call[c].h].refuses[call[c].arg], "argument")
    /\ UNCHANGED <<startVars, funcVars, call, calls, imageVars>>

(* Faulty variant: a handler of images marks itself as busy before it calls
   the library, which may fail. *)
UseMarksBusy(c) ==
    LET h == Table[call[c].h]
    IN  /\ Goto(c, "use", "hal")
        /\ call[c].arg = "good"
        /\ notifyStruct' = IF h.job THEN call[c].id ELSE notifyStruct
        /\ lastStatus' = IF h.resets THEN "VERIFYING" ELSE lastStatus
        /\ UNCHANGED <<startVars, funcVars, call, result, cause, calls, job, cb, told>>

(* func is called; before that a handler of images puts the pointer to its
   argument into notifyStruct and all but mirrorImage reset lastStatus. *)
Use(c) ==
    LET h == Table[call[c].h]
    IN  /\ Goto(c, "use", "hal")
        /\ call[c].arg = "good"
        /\ notifyStruct' = IF h.job THEN call[c].id ELSE notifyStruct
        /\ lastStatus' = IF h.resets THEN "NOT_STARTED" ELSE lastStatus
        /\ UNCHANGED <<startVars, funcVars, call, result, cause, calls, job, cb, told>>

(* The library has done what was asked, or has the job under way. *)
HalSucceeds(c) ==
    LET j == call[c].id
    IN  /\ Return(c, "hal", Success, "hal")
        /\ Table[call[c].h].job => job[j] # "none"
        /\ UNCHANGED <<startVars, funcVars, call, calls, imageVars>>

(* It fails; no job is begun then (mfrTypes.h, mfrWriteImage, 2).  A buffer
   that does not fit the reply is freed. *)
HalFails(c) ==
    /\ pc[c] = "hal"
    /\ \E kind \in DOMAIN Table[call[c].h].fails :
          Return(c, "hal", Table[call[c].h].fails[kind], "hal")
    /\ Table[call[c].h].job => job[call[c].id] = "none"
    /\ UNCHANGED <<startVars, funcVars, call, calls, imageVars>>

-----------------------------------------------------------------------------
(* The image jobs of the library (external) and writeImageCb, which runs on
   the thread of the job. *)

JobBegins(c) ==
    LET j == call[c].id
    IN  /\ pc[c] = "hal" /\ Table[call[c].h].job /\ job[j] = "none"
        /\ job' = [job EXCEPT ![j] = "running"]
        /\ UNCHANGED <<startVars, funcVars, callVars, lastStatus, notifyStruct, cb, told>>

(* What a job may report after what it has reported. *)
Reports(s) ==
    CASE s = "running"   -> IF Detailed THEN {"VERIFYING", "ABORTED"} ELSE {"STARTED"}
      [] s = "VERIFYING" -> {"FLASHING", "COMPLETED", "ABORTED"}
      [] s = "FLASHING"  -> {"REBOOTING", "COMPLETED", "ABORTED"}
      [] s \in {"STARTED", "REBOOTING"} -> {"COMPLETED", "ABORTED"}
      [] OTHER -> {}

Live(id) == \E c \in Callers : pc[c] # "idle" /\ call[c].id = id

(* writeImageCb: the status, with the cbData of notifyStruct, is broadcast,
   whether that succeeds or not.  The argument notifyStruct points into is
   gone when its call has returned: NoCall stands for whatever is there. *)
WriteImageCb(j, s) ==
    /\ cb[j] = "none"
    /\ job' = [job EXCEPT ![j] = s]
    /\ cb' = [cb EXCEPT ![j] = s]
    /\ told' = [job |-> j, data |-> IF Live(notifyStruct) THEN notifyStruct ELSE NoCall]
    /\ UNCHANGED <<startVars, funcVars, callVars, lastStatus, notifyStruct>>

(* Faulty variant: the end of a job is left for the next call to store. *)
SaveProgressLater(j) ==
    /\ cb[j] # "none" /\ (cb[j] \in Final => \E c \in Callers : pc[c] # "idle")
    /\ cb' = [cb EXCEPT ![j] = "none"]
    /\ lastStatus' = cb[j]
    /\ UNCHANGED <<startVars, funcVars, callVars, notifyStruct, job, told>>

(* writeImageCb: lastStatus.progress = param.status.progress *)
SaveProgress(j) ==
    /\ cb[j] # "none"
    /\ cb' = [cb EXCEPT ![j] = "none"]
    /\ lastStatus' = cb[j]
    /\ UNCHANGED <<startVars, funcVars, callVars, notifyStruct, job, told>>

-----------------------------------------------------------------------------
HandlerStep(c) ==
    \/ LookupDone(c) \/ Open(c) \/ OpenFails(c) \/ SymFound(c) \/ SymMissing(c)
    \/ Refuse(c) \/ Use(c) \/ HalSucceeds(c) \/ HalFails(c)

JobStep(j) == SaveProgress(j) \/ \E s \in Reports(job[j]) : WriteImageCb(j, s)

Next ==
    \/ StartStep \/ StartFails \/ TellReady
    \/ \E c \in Callers :
          \/ \E h \in Handlers, a \in AllArguments : Enter(c, h, a)
          \/ HandlerStep(c)
          \/ JobBegins(c)
    \/ \E j \in CallIds : JobStep(j)

(* Main, the threads of the calls and the jobs of the library run on. *)
Fairness ==
    /\ WF_vars(StartStep \/ StartFails) /\ WF_vars(TellReady)
    /\ \A c \in Callers : WF_vars(HandlerStep(c) \/ JobBegins(c))
    /\ \A j \in CallIds : WF_vars(JobStep(j))

Spec == Init /\ [][Next]_vars /\ Fairness

-----------------------------------------------------------------------------
(* The type invariant. *)
TypeOK ==
    /\ starting \in {"running", "failed", "done"} /\ step \in 0..Len(Steps)
    /\ is_connected \in BOOLEAN /\ bus \in BOOLEAN /\ ready \in BOOLEAN
    /\ func \subseteq Handlers /\ symbol_lookup_complete \in BOOLEAN
    /\ pc \in [Callers -> {"idle", "lookup", "sym", "use", "hal"}]
    /\ result \in [Callers -> Results]
    /\ lastStatus \in Progress
    /\ notifyStruct \in CallIds \cup {NoCall}
    /\ job \in [CallIds -> Progress \cup {"none", "running"}]
    /\ cb \in [CallIds -> Progress \cup {"none"}]
    /\ calls \in 0..MaxCalls

Running(j) == job[j] \notin {"none"} \cup Final

(* The job is not at its end, or writeImageCb has not stored its last report. *)
Active(j) == Running(j) \/ cb[j] # "none"

(* Nobody is refused an image because of a job that is over: lastStatus says
   that an image is verified or flashed only while a job is under way or its
   end is just being stored, although jobs overlap, every call on images
   resets lastStatus, and no lock orders the calls and the reports
   (writeImageCb 436 against writeImage_ 447, 499). *)
RefusedOnlyWhileActive == IsBusy => \E j \in CallIds : Active(j)

(* A job that was reported as verified or flashed does not shut out images
   for ever: the daemon learns of its end even if the broadcast fails. *)
BusyIsNotForever == []<>~IsBusy

-----------------------------------------------------------------------------
(* What the comments and documents say and the code does not do; refuted by
   the configurations named in the README. *)

(* mfrMgr.c 446: the look at lastStatus keeps back to back calls out of the
   library, so that no report carries the cbData of another call. *)
OneJobAtATime ==
    /\ \A i, j \in CallIds : Running(i) /\ Running(j) => i = j
    /\ told.data \in {told.job, NoCall}

(* README.md: INVALID_STATE is returned when the symbol cannot be resolved. *)
UnresolvedOnly ==
    \A c \in Callers : cause[c] \in {"earlier", "undefined"} => call[c].h \in Undefined

(* mfrMgr.h: the status event carries the callback data that was passed
   through the WriteImage call. *)
StatusCarriesItsData == told.data = told.job

(* mfrMgr.c: when no image is flashed it is OK to start a new one. *)
RefusedOnlyWhileRunning ==
    [][\A c \in Callers :
          calls' # calls /\ cause'[c] = "busy" /\ call'[c].id = calls' =>
              \E j \in CallIds : Running(j)]_vars
=============================================================================
