------------------------------ MODULE MfrServer -----------------------------
(***************************************************************************)
(* The older manufacturer library daemon and its client stubs              *)
(* (mfr/common/rpc/srv/mfrSrv.c, mfr/common/rpc/cli/mfrCli.c): a function  *)
(* of the client library packs its arguments, calls the daemon over IARM   *)
(* and unpacks the answer; the daemon finds the function of the vendor's   *)
(* library by name and calls it with mfrLock held.  WriteImage keeps the   *)
(* mutex until the library has reported the end of the job.                *)
(*                                                                         *)
(* A call is a pair of rows: what the client function may refuse before    *)
(* and after the call, and what the handler refuses, whether it unlocks    *)
(* twice and what it answers.  The steps all calls share are the actions.  *)
(* find_func is a success or a failure, made again until it succeeds.      *)
(* A memcpy_s or malloc that fails unlocks once and answers an error, as a *)
(* library that fails does: the two are one failure here.                  *)
(*                                                                         *)
(* mfrLock is a mutex of the default kind: locking it twice blocks, and    *)
(* unlocking it frees it whoever holds it.  Handlers run on threads of     *)
(* IARM and may overlap; each client makes one call at a time.  The vendor *)
(* library is external.                                                    *)
(***************************************************************************)
EXTENDS Integers, FiniteSets

CONSTANTS
    Clients,            \* client processes
    Ops,                \* the calls they make besides Init
    Arguments,          \* "good", and what may be wrong with an argument
    Undefined,          \* the calls whose function the library does not have
    Detailed,           \* jobs report VERIFYING and FLASHING, not only STARTED
    StartMayFail,       \* mfr_init or IARM_Bus_Init may fail in mfrMgr_start
    MaxCalls            \* bound: calls of clients

Success      == "SUCCESS"
InvalidParam == "INVALID_PARAM"
InvalidState == "INVALID_STATE"
IpcCoreFail  == "IPCCORE_FAIL"

-----------------------------------------------------------------------------
(* The handlers of mfrSrv.c.
     refuses  what is wrong with the argument -> the answer
     twice    unlocks twice when the library has succeeded *)

NoRefusal == [k \in {} |-> InvalidParam]
BadName   == [null |-> InvalidParam, unterminated |-> InvalidParam]

Serves(refuses, twice) == [refuses |-> refuses, twice |-> twice]

(* An encryption other than mfrCrypto_Encrypt is refused, and one whose
   function is not found. *)
_mfrGetSerializedData ==
    Serves([null |-> InvalidParam, unterminated |-> InvalidParam, crypto |-> InvalidParam,
            nocrypto |-> InvalidState], FALSE)

(* Lengths that are not within 1..sizeof(buffer) are refused too. *)
_mfrSetSerializedData ==
    Serves([null |-> InvalidParam, unterminated |-> InvalidParam, length |-> InvalidParam,
            crypto |-> InvalidParam, nocrypto |-> InvalidState], FALSE)

_mfrWriteImage            == Serves(BadName, FALSE)
_mfrGetImageWriteProgress == Serves(BadName, FALSE)
_mfrSetImageWriteProgress == Serves(BadName, FALSE)
_mfrDeletePDRI            == Serves(NoRefusal, TRUE)
_mfrScrubAllBanks         == Serves(NoRefusal, TRUE)
_mfr_shutdown             == Serves(NoRefusal, TRUE)
_mfrReboot                == Serves(BadName, TRUE)
_mfrSetCableCardType      == Serves(NoRefusal, FALSE)
_mfrSetHostFirmwareInfo   == Serves(BadName, FALSE)
_mfrGetBootImageName      == Serves(NoRefusal, FALSE)
_mfrGetPathConfiguration  == Serves(NoRefusal, FALSE)
_mfrGetDFAST2Data         == Serves(NoRefusal, FALSE)
InitRow                   == Serves(NoRefusal, FALSE)

Handlers ==
    [GetSerializedData |-> _mfrGetSerializedData, SetSerializedData |-> _mfrSetSerializedData,
     WriteImage |-> _mfrWriteImage, GetImageWriteProgress |-> _mfrGetImageWriteProgress,
     SetImageWriteProgress |-> _mfrSetImageWriteProgress, DeletePDRI |-> _mfrDeletePDRI,
     ScrubAllBanks |-> _mfrScrubAllBanks, Shutdown |-> _mfr_shutdown, Reboot |-> _mfrReboot,
     SetCableCardType |-> _mfrSetCableCardType, SetHostFirmwareInfo |-> _mfrSetHostFirmwareInfo,
     GetBootImageName |-> _mfrGetBootImageName,
     GetPathConfiguration |-> _mfrGetPathConfiguration, GetDFAST2Data |-> _mfrGetDFAST2Data,
     Init |-> InitRow]

(* The functions of mfrCli.c.
     packs    may fail before the call: a string or a buffer does not fit
     unpacks  may fail after it: the answer does not fit, or there is no path
              to put it in *)

Asks(packs, unpacks) == [packs |-> packs, unpacks |-> unpacks]

(* After a failed call it goes on and copies an answer of no bytes. *)
mfrGetSerializedData     == Asks(TRUE, TRUE)
mfrSetSerializedData     == Asks(TRUE, FALSE)
mfrWriteImage            == Asks(TRUE, FALSE)
mfrSetImageWriteProgress == Asks(TRUE, FALSE)
mfrGetImageWriteProgress == Asks(TRUE, FALSE)
mfrDeletePDRI            == Asks(FALSE, FALSE)
mfrScrubAllBanks         == Asks(FALSE, FALSE)
mfr_shutdown             == Asks(FALSE, FALSE)
mfrReboot                == Asks(TRUE, FALSE)
mfrSetCableCardType      == Asks(FALSE, FALSE)
mfrSetHostFirmwareInfo   == Asks(TRUE, FALSE)
mfrGetBootImageName      == Asks(FALSE, TRUE)
mfrGetPathConfiguration  == Asks(FALSE, TRUE)
mfrGetDFAST2Data         == Asks(TRUE, FALSE)
mfr_init                 == Asks(FALSE, FALSE)

Stubs ==
    [GetSerializedData |-> mfrGetSerializedData, SetSerializedData |-> mfrSetSerializedData,
     WriteImage |-> mfrWriteImage, GetImageWriteProgress |-> mfrGetImageWriteProgress,
     SetImageWriteProgress |-> mfrSetImageWriteProgress, DeletePDRI |-> mfrDeletePDRI,
     ScrubAllBanks |-> mfrScrubAllBanks, Shutdown |-> mfr_shutdown, Reboot |-> mfrReboot,
     SetCableCardType |-> mfrSetCableCardType, SetHostFirmwareInfo |-> mfrSetHostFirmwareInfo,
     GetBootImageName |-> mfrGetBootImageName,
     GetPathConfiguration |-> mfrGetPathConfiguration, GetDFAST2Data |-> mfrGetDFAST2Data,
     Init |-> mfr_init]

ASSUME OpsAssumption == Ops \subseteq DOMAIN Handlers \ {"Init"} /\ Undefined \subseteq Ops
ASSUME ArgumentsAssumption ==
    Arguments \subseteq {"good", "null", "unterminated", "length", "crypto", "nocrypto"}
ASSUME ServerFlagsAssumption == {Detailed, StartMayFail} \subseteq BOOLEAN
ASSUME ServerBoundAssumption == MaxCalls \in Nat
ASSUME ClientsAssumption == "main" \notin Clients /\ "none" \notin Clients

-----------------------------------------------------------------------------
Progress == {"NOT_STARTED", "STARTED", "ABORTED", "VERIFYING", "FLASHING", "COMPLETED"}
Final    == {"COMPLETED", "ABORTED"}
Main     == "main"
None     == "none"
NoOp     == "none"

VARIABLES
    mfrLock,            \* its holder
    server,             \* where mfrMgr_start is: "start", "failed", "shutdown", "done"
    bus,                \* the daemon is on the bus
    m_initialized,      \* the calls other than Init are registered
    lastStatus,         \* lastStatus.progress
    pc,                 \* where the call of each client is
    op, arg,            \* the call under way and what is wrong with its argument, or "good"
    result,             \* what the handler answers
    err,                \* what the client function returned last
    job,                \* what the image job of each client last reported, "none" without one
    cb,                 \* a report that is broadcast and not yet in lastStatus
    listens,            \* _eventHandler of the client is registered
    cb_notify,          \* the client's callback is set
    heard,              \* history: the callback was called during the client's current write
    stray,              \* history: a second unlock has freed the mutex of somebody else
    shut,               \* history: _mfr_shutdown was called
    calls               \* counter for the bound

startVars  == <<server, bus, m_initialized>>
clientVars == <<listens, cb_notify, heard>>
callVars   == <<pc, op, arg, result, err, calls>>
jobVars    == <<lastStatus, job, cb>>
vars       == <<mfrLock, startVars, clientVars, callVars, jobVars, stray, shut>>

Init ==
    /\ mfrLock = None /\ server = "start" /\ bus = FALSE /\ m_initialized = FALSE
    /\ lastStatus = "NOT_STARTED"
    /\ pc = [c \in Clients |-> "idle"]
    /\ op = [c \in Clients |-> NoOp] /\ arg = [c \in Clients |-> "good"]
    /\ result = [c \in Clients |-> Success]
    /\ err = [c \in Clients |-> "NONE"]
    /\ job = [c \in Clients |-> "none"] /\ cb = [c \in Clients |-> "none"]
    /\ listens = [c \in Clients |-> FALSE]
    /\ cb_notify = [c \in Clients |-> FALSE]
    /\ heard = [c \in Clients |-> FALSE]
    /\ stray = FALSE /\ shut = FALSE /\ calls = 0

Goto(c, from, to) == pc[c] = from /\ pc' = [pc EXCEPT ![c] = to]
Answer(c, r)      == result' = [result EXCEPT ![c] = r]

-----------------------------------------------------------------------------
(* mfrMgr_start, on the main thread. *)

(* mfr_init is not found or fails: the daemon stays up and is not on the bus. *)
StartFails ==
    /\ StartMayFail /\ server = "start"
    /\ server' = "failed"
    /\ UNCHANGED <<mfrLock, bus, m_initialized, clientVars, callVars, jobVars, stray, shut>>

(* IARM_Bus_Init fails: the mutex is unlocked, and _mfr_shutdown, which locks
   it twice, never returns. *)
BusInitFails ==
    /\ StartMayFail /\ server = "start"
    /\ server' = "shutdown"
    /\ mfrLock' = Main
    /\ shut' = TRUE
    /\ UNCHANGED <<bus, m_initialized, clientVars, callVars, jobVars, stray>>

(* IARM_Bus_Init, Connect, and Init is registered. *)
Start ==
    /\ server = "start"
    /\ server' = "done"
    /\ bus' = TRUE
    /\ UNCHANGED <<mfrLock, m_initialized, clientVars, callVars, jobVars, stray, shut>>

-----------------------------------------------------------------------------
(* The client function. *)

Reachable(o) == bus /\ (o = "Init" \/ m_initialized)

ClientStays == UNCHANGED <<mfrLock, startVars, jobVars, stray, shut>>

Begin(c) ==
    /\ pc[c] = "idle" /\ calls < MaxCalls
    /\ calls' = calls + 1

(* The call reaches the daemon, on a thread of its own. *)
Call(c, o, a) ==
    /\ Begin(c)
    /\ op' = [op EXCEPT ![c] = o] /\ arg' = [arg EXCEPT ![c] = a]
    /\ Reachable(o) /\ a \in {"good"} \cup DOMAIN Handlers[o].refuses
    /\ pc' = [pc EXCEPT ![c] = "wait"]
    /\ heard' = [heard EXCEPT ![c] = FALSE]
    /\ UNCHANGED <<result, err, listens, cb_notify>> /\ ClientStays

(* It does not: the arguments do not fit, or the daemon does not serve the
   call.  mfr_init registers _eventHandler when it has failed, and only then. *)
CallFails(c, o) ==
    /\ Begin(c)
    /\ Stubs[o].packs \/ ~Reachable(o)
    /\ err' = [err EXCEPT ![c] = "GENERAL"]
    /\ listens' = [listens EXCEPT ![c] = @ \/ o = "Init"]
    /\ UNCHANGED <<pc, op, arg, result, cb_notify, heard>> /\ ClientStays

(* The answer is there.  mfrWriteImage sets cb_notify now. *)
Return(c) ==
    /\ Goto(c, "reply", "idle")
    /\ \E e \in {IF result[c] = Success THEN "NONE" ELSE "GENERAL"}
             \cup {x \in {"GENERAL"} : Stubs[op[c]].unpacks} :
          err' = [err EXCEPT ![c] = e]
    /\ cb_notify' = [cb_notify EXCEPT ![c] = @ \/ (op[c] = "WriteImage" /\ result[c] = Success)]
    /\ listens' = [listens EXCEPT ![c] = @ \/ (op[c] = "Init" /\ result[c] # Success)]
    /\ op' = [op EXCEPT ![c] = NoOp] /\ arg' = [arg EXCEPT ![c] = "good"]
    /\ Answer(c, Success)
    /\ UNCHANGED <<calls, heard>> /\ ClientStays

-----------------------------------------------------------------------------
(* The handler. *)

Lock(c) ==
    /\ Goto(c, "wait", CASE op[c] = "Init" -> "init" [] op[c] = "Shutdown" -> "shut" [] OTHER -> "locked")
    /\ mfrLock = None /\ mfrLock' = c
    /\ UNCHANGED <<startVars, clientVars, op, arg, result, err, calls, jobVars, stray, shut>>

(* _mfr_init: the first call registers the others; it always succeeds. *)
_mfr_init(c) ==
    /\ Goto(c, "init", "unlock")
    /\ m_initialized' = TRUE
    /\ Answer(c, Success)
    /\ UNCHANGED <<mfrLock, server, bus, clientVars, op, arg, err, calls, jobVars, stray, shut>>

(* Faulty variant: an early return keeps the mutex. *)
RefuseLocked(c) ==
    /\ pc[c] = "locked"
    /\ arg[c] # "good" \/ op[c] \in Undefined
    /\ Goto(c, "locked", "reply")
    /\ Answer(c, IF op[c] \in Undefined THEN InvalidState ELSE Handlers[op[c]].refuses[arg[c]])
    /\ UNCHANGED <<mfrLock, startVars, clientVars, op, arg, err, calls, jobVars, stray, shut>>

(* The function is not found, or the argument is refused. *)
Refuse(c) ==
    /\ pc[c] = "locked"
    /\ arg[c] # "good" \/ op[c] \in Undefined
    /\ Goto(c, "locked", "unlock")
    /\ Answer(c, IF op[c] \in Undefined THEN InvalidState ELSE Handlers[op[c]].refuses[arg[c]])
    /\ UNCHANGED <<mfrLock, startVars, clientVars, op, arg, err, calls, jobVars, stray, shut>>

(* Faulty variant: lastStatus keeps what the last write left. *)
UseKeepsStatus(c) ==
    /\ Goto(c, "locked", "lib")
    /\ arg[c] = "good" /\ op[c] \notin Undefined
    /\ job' = [job EXCEPT ![c] = "none"]
    /\ UNCHANGED <<mfrLock, startVars, clientVars, op, arg, result, err, calls, lastStatus, cb, stray, shut>>

(* Faulty variant: the mutex is not kept over the call. *)
UseUnlocked(c) ==
    /\ Goto(c, "locked", "lib")
    /\ arg[c] = "good" /\ op[c] \notin Undefined
    /\ mfrLock' = None
    /\ lastStatus' = IF op[c] = "WriteImage" THEN "NOT_STARTED" ELSE lastStatus
    /\ job' = IF op[c] = "WriteImage" THEN [job EXCEPT ![c] = "none"] ELSE job
    /\ UNCHANGED <<startVars, clientVars, op, arg, result, err, calls, cb, stray, shut>>

(* The library is called; a write has reset lastStatus before. *)
Use(c) ==
    /\ Goto(c, "locked", "lib")
    /\ arg[c] = "good" /\ op[c] \notin Undefined
    /\ lastStatus' = IF op[c] = "WriteImage" THEN "NOT_STARTED" ELSE lastStatus
    /\ job' = IF op[c] = "WriteImage" THEN [job EXCEPT ![c] = "none"] ELSE job
    /\ UNCHANGED <<mfrLock, startVars, clientVars, op, arg, result, err, calls, cb, stray, shut>>

(* The library returns, with an error or not; a write that it accepted is
   polled for. *)
LibraryFails(c) ==
    /\ Goto(c, "lib", "unlock")
    /\ job[c] = "none" \/ op[c] # "WriteImage"
    /\ Answer(c, InvalidState)
    /\ UNCHANGED <<mfrLock, startVars, clientVars, op, arg, err, calls, jobVars, stray, shut>>

LibrarySucceeds(c) ==
    /\ Goto(c, "lib", CASE op[c] = "WriteImage" -> "poll1"
                        [] op[c] # "WriteImage" /\ Handlers[op[c]].twice -> "unlock1"
                        [] OTHER -> "unlock")
    /\ op[c] = "WriteImage" => job[c] # "none"
    /\ Answer(c, Success)
    /\ UNCHANGED <<mfrLock, startVars, clientVars, op, arg, err, calls, jobVars, stray, shut>>

(* The loops of sleep(1), left when lastStatus is seen to have changed. *)
PollStarted(c) ==
    /\ lastStatus # "NOT_STARTED"
    /\ Goto(c, "poll1", "poll2")
    /\ UNCHANGED <<mfrLock, startVars, clientVars, op, arg, result, err, calls, jobVars, stray, shut>>

(* Faulty variant: the second loop is missing. *)
PollEndedAtOnce(c) ==
    /\ Goto(c, "poll2", "ended")
    /\ UNCHANGED <<mfrLock, startVars, clientVars, op, arg, result, err, calls, jobVars, stray, shut>>

PollEnded(c) ==
    /\ lastStatus # "STARTED"
    /\ Goto(c, "poll2", "ended")
    /\ UNCHANGED <<mfrLock, startVars, clientVars, op, arg, result, err, calls, jobVars, stray, shut>>

WriteEnds(c) ==
    /\ Goto(c, "ended", "unlock")
    /\ Answer(c, IF lastStatus = "COMPLETED" THEN Success ELSE IpcCoreFail)
    /\ UNCHANGED <<mfrLock, startVars, clientVars, op, arg, err, calls, jobVars, stray, shut>>

(* IARM_Bus_Unlock: frees the mutex whoever holds it. *)
Unlock(c, from, to) ==
    /\ Goto(c, from, to)
    /\ mfrLock' = None
    /\ stray' = (stray \/ mfrLock \notin {c, None})
    /\ UNCHANGED <<startVars, clientVars, op, arg, result, err, calls, jobVars, shut>>

(* _mfrDeletePDRI, _mfrScrubAllBanks, _mfrReboot and _mfr_shutdown unlock
   after the success of the library and again at the end. *)
UnlockEarly(c) == Unlock(c, "unlock1", "unlock")
UnlockLast(c)  == Unlock(c, "unlock", "reply")

(* _mfr_shutdown: with the mutex, the daemon leaves the bus and locks again. *)
ShutDown(c) ==
    /\ Goto(c, "shut", "relock")
    /\ bus' = FALSE
    /\ shut' = TRUE
    /\ UNCHANGED <<mfrLock, server, m_initialized, clientVars, op, arg, result, err, calls, jobVars, stray>>

(* Only a stray unlock of another handler lets it go on. *)
LockAgain(c) ==
    /\ Goto(c, "relock", "locked")
    /\ mfrLock = None /\ mfrLock' = c
    /\ UNCHANGED <<startVars, clientVars, op, arg, result, err, calls, jobVars, stray, shut>>

-----------------------------------------------------------------------------
(* The image job in the library (external), writeImageCb on its thread, and
   _eventHandler in the clients. *)

JobBegins(c) ==
    /\ pc[c] = "lib" /\ op[c] = "WriteImage" /\ job[c] = "none" /\ cb[c] = "none"
    /\ job' = [job EXCEPT ![c] = "running"]
    /\ UNCHANGED <<mfrLock, startVars, clientVars, callVars, lastStatus, cb, stray, shut>>

Reports(s) ==
    CASE s = "running"   -> IF Detailed THEN {"VERIFYING", "ABORTED"} ELSE {"STARTED"}
      [] s = "VERIFYING" -> {"FLASHING", "ABORTED"}
      [] s \in {"STARTED", "FLASHING"} -> Final
      [] OTHER -> {}

(* The status is broadcast: a client that listens calls its callback, if it
   has one. *)
WriteImageCb(c, s) ==
    /\ cb[c] = "none"
    /\ job' = [job EXCEPT ![c] = s]
    /\ cb' = [cb EXCEPT ![c] = s]
    /\ heard' = [heard EXCEPT ![c] = @ \/ (listens[c] /\ cb_notify[c])]
    /\ UNCHANGED <<mfrLock, startVars, listens, cb_notify, callVars, lastStatus, stray, shut>>

SaveStatus(c) ==
    /\ cb[c] # "none"
    /\ cb' = [cb EXCEPT ![c] = "none"]
    /\ lastStatus' = cb[c]
    /\ UNCHANGED <<mfrLock, startVars, clientVars, callVars, job, stray, shut>>

-----------------------------------------------------------------------------
HandlerStep(c) ==
    \/ Lock(c) \/ _mfr_init(c) \/ Refuse(c) \/ Use(c) \/ LibraryFails(c) \/ LibrarySucceeds(c)
    \/ PollStarted(c) \/ PollEnded(c) \/ WriteEnds(c) \/ UnlockEarly(c) \/ UnlockLast(c)
    \/ ShutDown(c) \/ LockAgain(c) \/ JobBegins(c) \/ Return(c)

JobStep(c) == SaveStatus(c) \/ \E s \in Reports(job[c]) : WriteImageCb(c, s)

Next ==
    \/ StartFails \/ BusInitFails \/ Start
    \/ \E c \in Clients :
          \/ \E o \in Ops \cup {"Init"} : CallFails(c, o) \/ \E a \in Arguments : Call(c, o, a)
          \/ HandlerStep(c)
          \/ JobStep(c)

(* Threads of calls and jobs of the library run on.  Weak fairness is enough
   for the mutex because the calls are bounded. *)
Fairness ==
    /\ WF_vars(Start \/ StartFails \/ BusInitFails)
    /\ \A c \in Clients : WF_vars(HandlerStep(c)) /\ WF_vars(JobStep(c))

Spec == Init /\ [][Next]_vars /\ Fairness

-----------------------------------------------------------------------------
(* The type invariant. *)
TypeOK ==
    /\ mfrLock \in Clients \cup {None, Main}
    /\ server \in {"start", "failed", "shutdown", "done"}
    /\ bus \in BOOLEAN /\ m_initialized \in BOOLEAN
    /\ lastStatus \in Progress
    /\ pc \in [Clients -> {"idle", "wait", "init", "shut", "relock", "locked", "lib", "poll1", "poll2",
                           "ended", "unlock1", "unlock", "reply"}]
    /\ op \in [Clients -> Ops \cup {"Init", NoOp}]
    /\ arg \in [Clients -> Arguments \cup {"good"}]
    /\ result \in [Clients -> {Success, InvalidParam, InvalidState, IpcCoreFail}]
    /\ err \in [Clients -> {"NONE", "GENERAL"}]
    /\ job \in [Clients -> Progress \cup {"none", "running"}]
    /\ cb \in [Clients -> Progress \cup {"none"}]
    /\ stray \in BOOLEAN /\ shut \in BOOLEAN
    /\ calls \in 0..MaxCalls

InLibrary(c) == pc[c] \in {"lib", "poll1", "poll2"}

(* The library, which is not thread safe, is used by one handler at a time,
   until a second unlock has taken the mutex away from somebody. *)
AloneInLibrary == ~stray => Cardinality({c \in Clients : InLibrary(c)}) <= 1

(* A write is answered when its job has ended, and with the way that job
   ended: a report left by an earlier job, or one still to come, is not taken
   for it. *)
WriteAnswerIsItsEnd ==
    \A c \in Clients :
        ~stray /\ pc[c] = "reply" /\ op[c] = "WriteImage" =>
            /\ result[c] = Success => job[c] = "COMPLETED"
            /\ result[c] = IpcCoreFail => job[c] = "ABORTED"

(* Every call of a client ends, whatever the other clients call, unless the
   daemon was shut down or a mutex was taken away. *)
CallsEnd == \A c \in Clients : pc[c] # "idle" ~> (pc[c] = "idle" \/ stray \/ shut)

-----------------------------------------------------------------------------
(* What the documents say and the code does not do; refuted by the
   configurations named in the README. *)

(* The mutex keeps the handlers apart. *)
AlwaysAlone == Cardinality({c \in Clients : InLibrary(c)}) <= 1

(* mfrTypes.h, mfrWriteImage: the notify function is called at regular
   intervals, so the writer has heard of its write when that has succeeded. *)
WriterHears ==
    \A c \in Clients :
        pc[c] = "reply" /\ op[c] = "WriteImage" /\ result[c] = Success => heard[c]

(* A shutdown returns. *)
ShutdownEnds == \A c \in Clients : pc[c] = "relock" ~> pc[c] = "idle"
=============================================================================
