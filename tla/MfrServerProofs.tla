--------------------------- MODULE MfrServerProofs --------------------------
(***************************************************************************)
(* Proofs about MfrServer, for every set of clients, calls and arguments   *)
(* and every number of calls.                                              *)
(*                                                                         *)
(* AloneInLibrary and WriteAnswerIsItsEnd are not inductive.  The first    *)
(* needs to know who holds mfrLock at which place of a handler, the second *)
(* what the report under way, lastStatus and the job say of one another    *)
(* while a write is polled for, and that nobody else's report is under     *)
(* way meanwhile.                                                          *)
(***************************************************************************)
EXTENDS MfrServer, FiniteSetTheorems, TLAPS

(* The places of a handler that has locked mfrLock and not yet unlocked it. *)
Critical == {"init", "shut", "relock", "locked", "lib", "poll1", "poll2", "ended", "unlock1"}

(* Until the daemon is on the bus nobody calls. *)
QuietUntilStarted == server # "done" => ~bus /\ \A c \in Clients : pc[c] = "idle"

(* What is called decides which places its handler can be at. *)
PlaceFitsOp ==
    \A c \in Clients :
        /\ pc[c] # "idle" => op[c] \in Ops \cup {"Init"}
        /\ pc[c] # "idle" => arg[c] \in {"good"} \cup DOMAIN Handlers[op[c]].refuses
        /\ pc[c] = "init" => op[c] = "Init"
        /\ pc[c] \in {"shut", "relock"} => op[c] = "Shutdown"
        /\ pc[c] \in {"poll1", "poll2", "ended"} => op[c] = "WriteImage"
        /\ pc[c] = "unlock1" => op[c] # "WriteImage"

(* A handler between its lock and its unlock holds the mutex, until a second
   unlock of another has taken it away. *)
CriticalHoldsLock == ~stray => \A c \in Clients : pc[c] \in Critical => mfrLock = c

-----------------------------------------------------------------------------
(* The writes. *)

Writing(c) == op[c] = "WriteImage" /\ pc[c] \in {"lib", "poll1", "poll2", "ended"}

(* What lastStatus says once all reports of a job are stored. *)
Shown(s) == IF s \in {"none", "running"} THEN "NOT_STARTED" ELSE s

(* A client that does not write has no job that could still report. *)
NoLateReports ==
    \A c \in Clients : ~Writing(c) => cb[c] = "none" /\ job[c] \in {"none"} \cup Final

(* lastStatus is one report behind the job if a report is under way, and what
   the job reported last otherwise. *)
StatusIsTheWriters ==
    \A c \in Clients : Writing(c) =>
        /\ job[c] \in {"none", "running", "STARTED"} \cup Final
        /\ cb[c] = "none" => lastStatus = Shown(job[c])
        /\ cb[c] # "none" => job[c] = cb[c]
        /\ cb[c] = "STARTED" => lastStatus = "NOT_STARTED"
        /\ cb[c] \in Final => lastStatus = "STARTED"
        /\ pc[c] # "lib" => job[c] # "none"
        /\ pc[c] \in {"poll2", "ended"} => lastStatus # "NOT_STARTED"
        /\ pc[c] = "ended" => lastStatus # "STARTED"

(* The answer is the end of the job from the moment it is decided. *)
AnswerIsEnd ==
    \A c \in Clients : op[c] = "WriteImage" /\ pc[c] \in {"unlock", "reply"} =>
        /\ result[c] = Success => job[c] = "COMPLETED"
        /\ result[c] = IpcCoreFail => job[c] = "ABORTED"

WriteInv == ~stray => NoLateReports /\ StatusIsTheWriters /\ AnswerIsEnd

LockInv == TypeOK /\ QuietUntilStarted /\ PlaceFitsOp /\ CriticalHoldsLock

IInv == LockInv /\ WriteInv

-----------------------------------------------------------------------------
(* The rows of the table: what a handler refuses with is an error of the
   caller or of the library, and a write is refused for its name only. *)
LEMMA RefusalsAreErrors ==
    ASSUME NEW o \in DOMAIN Handlers, NEW a \in DOMAIN Handlers[o].refuses
    PROVE  Handlers[o].refuses[a] \in {InvalidParam, InvalidState}
<1> USE DEF Serves, InvalidParam, InvalidState
<1> DEFINE Good(r) == \A x \in DOMAIN r.refuses : r.refuses[x] \in {InvalidParam, InvalidState}
<1>1. Good(_mfrGetSerializedData) /\ Good(_mfrSetSerializedData)
  BY DEF _mfrGetSerializedData, _mfrSetSerializedData
<1>2. Good(_mfrWriteImage) /\ Good(_mfrGetImageWriteProgress) /\ Good(_mfrSetImageWriteProgress)
      /\ Good(_mfrReboot) /\ Good(_mfrSetHostFirmwareInfo)
  BY DEF _mfrWriteImage, _mfrGetImageWriteProgress, _mfrSetImageWriteProgress, _mfrReboot,
         _mfrSetHostFirmwareInfo, BadName
<1>3. Good(_mfrDeletePDRI) /\ Good(_mfrScrubAllBanks) /\ Good(_mfr_shutdown)
      /\ Good(_mfrSetCableCardType) /\ Good(_mfrGetBootImageName) /\ Good(_mfrGetPathConfiguration)
      /\ Good(_mfrGetDFAST2Data) /\ Good(InitRow)
  BY DEF _mfrDeletePDRI, _mfrScrubAllBanks, _mfr_shutdown, _mfrSetCableCardType,
         _mfrGetBootImageName, _mfrGetPathConfiguration, _mfrGetDFAST2Data, InitRow, NoRefusal
<1> HIDE DEF Good
<1>4. Good(Handlers[o])
  BY <1>1, <1>2, <1>3 DEF Handlers
<1>5. QED
  BY <1>4 DEF Good

(* The calls are rows of the table. *)
LEMMA OpsAreRows == Ops \cup {"Init"} \subseteq DOMAIN Handlers /\ NoOp \notin DOMAIN Handlers
BY OpsAssumption DEF Handlers, NoOp

-----------------------------------------------------------------------------
(* Types. *)

LEMMA InitType == Init => TypeOK
<1> SUFFICES ASSUME Init PROVE TypeOK
  OBVIOUS
<1>1. 0 \in 0..MaxCalls
  BY ServerBoundAssumption
<1>2. QED
  BY <1>1 DEF Init, TypeOK, Progress, Final, None, Main, NoOp, Success

(* What a job may report next is a progress. *)
LEMMA ReportsAreProgress == \A s : Reports(s) \subseteq Progress
BY DEF Reports, Progress, Final

LEMMA TypeStep == TypeOK /\ PlaceFitsOp /\ [Next]_vars => TypeOK'
<1> SUFFICES ASSUME TypeOK, PlaceFitsOp, [Next]_vars PROVE TypeOK'
  OBVIOUS
<1> USE ServerBoundAssumption
<1> USE DEF TypeOK, Progress, Final, None, Main, NoOp, Success, InvalidParam, InvalidState,
            IpcCoreFail,
            Goto, Answer, startVars, clientVars, callVars, jobVars, ClientStays, Begin
<1>1. CASE StartFails
  BY <1>1 DEF StartFails
<1>2. CASE BusInitFails
  BY <1>2 DEF BusInitFails
<1>3. CASE Start
  BY <1>3 DEF Start
<1>4. ASSUME NEW c \in Clients, NEW o \in Ops \cup {"Init"}, CallFails(c, o)
      PROVE  TypeOK'
  BY <1>4 DEF CallFails
<1>5. ASSUME NEW c \in Clients, NEW o \in Ops \cup {"Init"}, NEW a \in Arguments, Call(c, o, a)
      PROVE  TypeOK'
  BY <1>5 DEF Call
<1>6. ASSUME NEW c \in Clients, Lock(c)
      PROVE  TypeOK'
  BY <1>6 DEF Lock
<1>7. ASSUME NEW c \in Clients, _mfr_init(c)
      PROVE  TypeOK'
  BY <1>7 DEF _mfr_init
<1>8. ASSUME NEW c \in Clients, Refuse(c)
      PROVE  TypeOK'
  BY <1>8, RefusalsAreErrors, OpsAreRows DEF Refuse, PlaceFitsOp
<1>9. ASSUME NEW c \in Clients, Use(c)
      PROVE  TypeOK'
  BY <1>9 DEF Use
<1>10. ASSUME NEW c \in Clients, LibraryFails(c)
      PROVE  TypeOK'
  BY <1>10 DEF LibraryFails
<1>11. ASSUME NEW c \in Clients, LibrarySucceeds(c)
      PROVE  TypeOK'
  BY <1>11 DEF LibrarySucceeds
<1>12. ASSUME NEW c \in Clients, PollStarted(c)
      PROVE  TypeOK'
  BY <1>12 DEF PollStarted
<1>13. ASSUME NEW c \in Clients, PollEnded(c)
      PROVE  TypeOK'
  BY <1>13 DEF PollEnded
<1>14. ASSUME NEW c \in Clients, WriteEnds(c)
      PROVE  TypeOK'
  BY <1>14 DEF WriteEnds
<1>15. ASSUME NEW c \in Clients, UnlockEarly(c)
      PROVE  TypeOK'
  BY <1>15 DEF UnlockEarly, Unlock
<1>16. ASSUME NEW c \in Clients, UnlockLast(c)
      PROVE  TypeOK'
  BY <1>16 DEF UnlockLast, Unlock
<1>17. ASSUME NEW c \in Clients, ShutDown(c)
      PROVE  TypeOK'
  BY <1>17 DEF ShutDown
<1>18. ASSUME NEW c \in Clients, LockAgain(c)
      PROVE  TypeOK'
  BY <1>18 DEF LockAgain
<1>19. ASSUME NEW c \in Clients, JobBegins(c)
      PROVE  TypeOK'
  BY <1>19 DEF JobBegins
<1>20. ASSUME NEW c \in Clients, Return(c)
      PROVE  TypeOK'
  BY <1>20 DEF Return
<1>21. ASSUME NEW c \in Clients, SaveStatus(c)
      PROVE  TypeOK'
  BY <1>21 DEF SaveStatus
<1>22. ASSUME NEW c \in Clients, NEW s \in Reports(job[c]), WriteImageCb(c, s)
      PROVE  TypeOK'
  BY <1>22, ReportsAreProgress DEF WriteImageCb
<1>23. CASE UNCHANGED vars
  BY <1>23 DEF vars
<1>24. QED
  BY <1>1, <1>2, <1>3, <1>4, <1>5, <1>6, <1>7, <1>8, <1>9, <1>10, <1>11, <1>12, <1>13, <1>14, <1>15,
     <1>16, <1>17, <1>18, <1>19, <1>20, <1>21, <1>22, <1>23
     DEF Next, HandlerStep, JobStep

-----------------------------------------------------------------------------
(* The mutex. *)

LEMMA InitLock == Init => QuietUntilStarted /\ PlaceFitsOp /\ CriticalHoldsLock
BY DEF Init, QuietUntilStarted, PlaceFitsOp, CriticalHoldsLock, Critical

LEMMA QuietStep == LockInv /\ [Next]_vars => QuietUntilStarted'
<1> SUFFICES ASSUME LockInv, [Next]_vars PROVE QuietUntilStarted'
  OBVIOUS
<1> USE DEF LockInv, TypeOK, QuietUntilStarted, Goto, Answer, startVars, clientVars, callVars,
            jobVars,
            ClientStays, Begin
<1>1. CASE StartFails
  BY <1>1 DEF StartFails
<1>2. CASE BusInitFails
  BY <1>2 DEF BusInitFails
<1>3. CASE Start
  BY <1>3 DEF Start
<1>4. ASSUME NEW c \in Clients, NEW o \in Ops \cup {"Init"}, CallFails(c, o)
      PROVE  QuietUntilStarted'
  BY <1>4 DEF CallFails
<1>5. ASSUME NEW c \in Clients, NEW o \in Ops \cup {"Init"}, NEW a \in Arguments, Call(c, o, a)
      PROVE  QuietUntilStarted'
  BY <1>5 DEF Call, Reachable
<1>6. ASSUME NEW c \in Clients, Lock(c)
      PROVE  QuietUntilStarted'
  BY <1>6 DEF Lock
<1>7. ASSUME NEW c \in Clients, _mfr_init(c)
      PROVE  QuietUntilStarted'
  BY <1>7 DEF _mfr_init
<1>8. ASSUME NEW c \in Clients, Refuse(c)
      PROVE  QuietUntilStarted'
  BY <1>8 DEF Refuse
<1>9. ASSUME NEW c \in Clients, Use(c)
      PROVE  QuietUntilStarted'
  BY <1>9 DEF Use
<1>10. ASSUME NEW c \in Clients, LibraryFails(c)
      PROVE  QuietUntilStarted'
  BY <1>10 DEF LibraryFails
<1>11. ASSUME NEW c \in Clients, LibrarySucceeds(c)
      PROVE  QuietUntilStarted'
  BY <1>11 DEF LibrarySucceeds
<1>12. ASSUME NEW c \in Clients, PollStarted(c)
      PROVE  QuietUntilStarted'
  BY <1>12 DEF PollStarted
<1>13. ASSUME NEW c \in Clients, PollEnded(c)
      PROVE  QuietUntilStarted'
  BY <1>13 DEF PollEnded
<1>14. ASSUME NEW c \in Clients, WriteEnds(c)
      PROVE  QuietUntilStarted'
  BY <1>14 DEF WriteEnds
<1>15. ASSUME NEW c \in Clients, UnlockEarly(c)
      PROVE  QuietUntilStarted'
  BY <1>15 DEF UnlockEarly, Unlock
<1>16. ASSUME NEW c \in Clients, UnlockLast(c)
      PROVE  QuietUntilStarted'
  BY <1>16 DEF UnlockLast, Unlock
<1>17. ASSUME NEW c \in Clients, ShutDown(c)
      PROVE  QuietUntilStarted'
  BY <1>17 DEF ShutDown
<1>18. ASSUME NEW c \in Clients, LockAgain(c)
      PROVE  QuietUntilStarted'
  BY <1>18 DEF LockAgain
<1>19. ASSUME NEW c \in Clients, JobBegins(c)
      PROVE  QuietUntilStarted'
  BY <1>19 DEF JobBegins
<1>20. ASSUME NEW c \in Clients, Return(c)
      PROVE  QuietUntilStarted'
  BY <1>20 DEF Return
<1>21. ASSUME NEW c \in Clients, SaveStatus(c)
      PROVE  QuietUntilStarted'
  BY <1>21 DEF SaveStatus
<1>22. ASSUME NEW c \in Clients, NEW s \in Reports(job[c]), WriteImageCb(c, s)
      PROVE  QuietUntilStarted'
  BY <1>22 DEF WriteImageCb
<1>23. CASE UNCHANGED vars
  BY <1>23 DEF vars
<1>24. QED
  BY <1>1, <1>2, <1>3, <1>4, <1>5, <1>6, <1>7, <1>8, <1>9, <1>10, <1>11, <1>12, <1>13, <1>14, <1>15,
     <1>16, <1>17, <1>18, <1>19, <1>20, <1>21, <1>22, <1>23
     DEF Next, HandlerStep, JobStep

LEMMA PlaceStep == LockInv /\ [Next]_vars => PlaceFitsOp'
<1> SUFFICES ASSUME LockInv, [Next]_vars PROVE PlaceFitsOp'
  OBVIOUS
<1> USE DEF LockInv, TypeOK, PlaceFitsOp, Goto, Answer, startVars, clientVars, callVars, jobVars,
            ClientStays, Begin
<1>1. CASE StartFails
  BY <1>1 DEF StartFails
<1>2. CASE BusInitFails
  BY <1>2 DEF BusInitFails
<1>3. CASE Start
  BY <1>3 DEF Start
<1>4. ASSUME NEW c \in Clients, NEW o \in Ops \cup {"Init"}, CallFails(c, o)
      PROVE  PlaceFitsOp'
  BY <1>4 DEF CallFails
<1>5. ASSUME NEW c \in Clients, NEW o \in Ops \cup {"Init"}, NEW a \in Arguments, Call(c, o, a)
      PROVE  PlaceFitsOp'
  BY <1>5 DEF Call
<1>6. ASSUME NEW c \in Clients, Lock(c)
      PROVE  PlaceFitsOp'
  BY <1>6 DEF Lock
<1>7. ASSUME NEW c \in Clients, _mfr_init(c)
      PROVE  PlaceFitsOp'
  BY <1>7 DEF _mfr_init
<1>8. ASSUME NEW c \in Clients, Refuse(c)
      PROVE  PlaceFitsOp'
  BY <1>8 DEF Refuse
<1>9. ASSUME NEW c \in Clients, Use(c)
      PROVE  PlaceFitsOp'
  BY <1>9 DEF Use
<1>10. ASSUME NEW c \in Clients, LibraryFails(c)
      PROVE  PlaceFitsOp'
  BY <1>10 DEF LibraryFails
<1>11. ASSUME NEW c \in Clients, LibrarySucceeds(c)
      PROVE  PlaceFitsOp'
  BY <1>11 DEF LibrarySucceeds
<1>12. ASSUME NEW c \in Clients, PollStarted(c)
      PROVE  PlaceFitsOp'
  BY <1>12 DEF PollStarted
<1>13. ASSUME NEW c \in Clients, PollEnded(c)
      PROVE  PlaceFitsOp'
  BY <1>13 DEF PollEnded
<1>14. ASSUME NEW c \in Clients, WriteEnds(c)
      PROVE  PlaceFitsOp'
  BY <1>14 DEF WriteEnds
<1>15. ASSUME NEW c \in Clients, UnlockEarly(c)
      PROVE  PlaceFitsOp'
  BY <1>15 DEF UnlockEarly, Unlock
<1>16. ASSUME NEW c \in Clients, UnlockLast(c)
      PROVE  PlaceFitsOp'
  BY <1>16 DEF UnlockLast, Unlock
<1>17. ASSUME NEW c \in Clients, ShutDown(c)
      PROVE  PlaceFitsOp'
  BY <1>17 DEF ShutDown
<1>18. ASSUME NEW c \in Clients, LockAgain(c)
      PROVE  PlaceFitsOp'
  BY <1>18 DEF LockAgain
<1>19. ASSUME NEW c \in Clients, JobBegins(c)
      PROVE  PlaceFitsOp'
  BY <1>19 DEF JobBegins
<1>20. ASSUME NEW c \in Clients, Return(c)
      PROVE  PlaceFitsOp'
  BY <1>20 DEF Return
<1>21. ASSUME NEW c \in Clients, SaveStatus(c)
      PROVE  PlaceFitsOp'
  BY <1>21 DEF SaveStatus
<1>22. ASSUME NEW c \in Clients, NEW s \in Reports(job[c]), WriteImageCb(c, s)
      PROVE  PlaceFitsOp'
  BY <1>22 DEF WriteImageCb
<1>23. CASE UNCHANGED vars
  BY <1>23 DEF vars
<1>24. QED
  BY <1>1, <1>2, <1>3, <1>4, <1>5, <1>6, <1>7, <1>8, <1>9, <1>10, <1>11, <1>12, <1>13, <1>14, <1>15,
     <1>16, <1>17, <1>18, <1>19, <1>20, <1>21, <1>22, <1>23
     DEF Next, HandlerStep, JobStep

LEMMA LockStep == LockInv /\ [Next]_vars => CriticalHoldsLock'
<1> SUFFICES ASSUME LockInv, [Next]_vars PROVE CriticalHoldsLock'
  OBVIOUS
<1> USE ClientsAssumption
<1> USE DEF LockInv, TypeOK, CriticalHoldsLock, Critical, None, Main, Goto, Answer,
            startVars, clientVars, callVars, jobVars, ClientStays, Begin
<1>1. CASE StartFails
  BY <1>1 DEF StartFails
<1>2. CASE BusInitFails
  BY <1>2 DEF BusInitFails, QuietUntilStarted
<1>3. CASE Start
  BY <1>3 DEF Start
<1>4. ASSUME NEW c \in Clients, NEW o \in Ops \cup {"Init"}, CallFails(c, o)
      PROVE  CriticalHoldsLock'
  BY <1>4 DEF CallFails
<1>5. ASSUME NEW c \in Clients, NEW o \in Ops \cup {"Init"}, NEW a \in Arguments, Call(c, o, a)
      PROVE  CriticalHoldsLock'
  BY <1>5 DEF Call
<1>6. ASSUME NEW c \in Clients, Lock(c)
      PROVE  CriticalHoldsLock'
  BY <1>6 DEF Lock
<1>7. ASSUME NEW c \in Clients, _mfr_init(c)
      PROVE  CriticalHoldsLock'
  BY <1>7 DEF _mfr_init
<1>8. ASSUME NEW c \in Clients, Refuse(c)
      PROVE  CriticalHoldsLock'
  BY <1>8 DEF Refuse
<1>9. ASSUME NEW c \in Clients, Use(c)
      PROVE  CriticalHoldsLock'
  BY <1>9 DEF Use
<1>10. ASSUME NEW c \in Clients, LibraryFails(c)
      PROVE  CriticalHoldsLock'
  BY <1>10 DEF LibraryFails
<1>11. ASSUME NEW c \in Clients, LibrarySucceeds(c)
      PROVE  CriticalHoldsLock'
  BY <1>11 DEF LibrarySucceeds
<1>12. ASSUME NEW c \in Clients, PollStarted(c)
      PROVE  CriticalHoldsLock'
  BY <1>12 DEF PollStarted
<1>13. ASSUME NEW c \in Clients, PollEnded(c)
      PROVE  CriticalHoldsLock'
  BY <1>13 DEF PollEnded
<1>14. ASSUME NEW c \in Clients, WriteEnds(c)
      PROVE  CriticalHoldsLock'
  BY <1>14 DEF WriteEnds
<1>15. ASSUME NEW c \in Clients, UnlockEarly(c)
      PROVE  CriticalHoldsLock'
  BY <1>15 DEF UnlockEarly, Unlock
<1>16. ASSUME NEW c \in Clients, UnlockLast(c)
      PROVE  CriticalHoldsLock'
  BY <1>16 DEF UnlockLast, Unlock
<1>17. ASSUME NEW c \in Clients, ShutDown(c)
      PROVE  CriticalHoldsLock'
  BY <1>17 DEF ShutDown
<1>18. ASSUME NEW c \in Clients, LockAgain(c)
      PROVE  CriticalHoldsLock'
  BY <1>18 DEF LockAgain
<1>19. ASSUME NEW c \in Clients, JobBegins(c)
      PROVE  CriticalHoldsLock'
  BY <1>19 DEF JobBegins
<1>20. ASSUME NEW c \in Clients, Return(c)
      PROVE  CriticalHoldsLock'
  BY <1>20 DEF Return
<1>21. ASSUME NEW c \in Clients, SaveStatus(c)
      PROVE  CriticalHoldsLock'
  BY <1>21 DEF SaveStatus
<1>22. ASSUME NEW c \in Clients, NEW s \in Reports(job[c]), WriteImageCb(c, s)
      PROVE  CriticalHoldsLock'
  BY <1>22 DEF WriteImageCb
<1>23. CASE UNCHANGED vars
  BY <1>23 DEF vars
<1>24. QED
  BY <1>1, <1>2, <1>3, <1>4, <1>5, <1>6, <1>7, <1>8, <1>9, <1>10, <1>11, <1>12, <1>13, <1>14, <1>15,
     <1>16, <1>17, <1>18, <1>19, <1>20, <1>21, <1>22, <1>23
     DEF Next, HandlerStep, JobStep

(* Who holds the mutex, for every behaviour. *)
LEMMA LockInvariance == Spec => []LockInv
<1>1. Init => LockInv
  BY InitType, InitLock DEF LockInv
<1>2. LockInv /\ [Next]_vars => LockInv'
  BY TypeStep, QuietStep, PlaceStep, LockStep DEF LockInv
<1>3. QED
  BY <1>1, <1>2, PTL DEF Spec

-----------------------------------------------------------------------------
(* The writes, with a library that reports as mfrTypes.h documents it. *)

LEMMA InitWrite == Init => WriteInv
BY DEF Init, WriteInv, NoLateReports, StatusIsTheWriters, AnswerIsEnd, Writing, NoOp

(* What a job reports after what. *)
LEMMA ReportOrder ==
    ASSUME Detailed = FALSE
    PROVE  /\ Reports("none") = {} /\ Reports("running") = {"STARTED"} /\ Reports("STARTED") = Final
           /\ \A s \in Final : Reports(s) = {}
BY DEF Reports, Final

(* A mutex that was taken away counts for ever. *)
LEMMA StrayStays == [Next]_vars /\ stray => stray'
BY
   DEF Next, HandlerStep, JobStep, StartFails, BusInitFails, Start, CallFails, Call, Begin,
       ClientStays,
       Lock, _mfr_init, Refuse, Use, LibraryFails, LibrarySucceeds, PollStarted, PollEnded, WriteEnds,
       UnlockEarly, UnlockLast, Unlock, ShutDown, LockAgain, JobBegins, Return, SaveStatus, WriteImageCb, vars

LEMMA NoLateReportsStep ==
    ASSUME Detailed = FALSE, LockInv, WriteInv, ~stray', [Next]_vars
    PROVE  NoLateReports'
<1> USE DEF LockInv, TypeOK, NoLateReports, Writing, Final, Goto, Answer, startVars, clientVars,
            callVars,
            jobVars, ClientStays, Begin
<1>0. ~stray /\ NoLateReports
  BY StrayStays DEF WriteInv
<1>1. CASE StartFails
  BY <1>1, <1>0 DEF StartFails
<1>2. CASE BusInitFails
  BY <1>2, <1>0 DEF BusInitFails
<1>3. CASE Start
  BY <1>3, <1>0 DEF Start
<1>4. ASSUME NEW c \in Clients, NEW o \in Ops \cup {"Init"}, CallFails(c, o)
      PROVE  NoLateReports'
  BY <1>4, <1>0 DEF CallFails
<1>5. ASSUME NEW c \in Clients, NEW o \in Ops \cup {"Init"}, NEW a \in Arguments, Call(c, o, a)
      PROVE  NoLateReports'
  BY <1>5, <1>0 DEF Call
<1>6. ASSUME NEW c \in Clients, Lock(c)
      PROVE  NoLateReports'
  BY <1>6, <1>0 DEF Lock
<1>7. ASSUME NEW c \in Clients, _mfr_init(c)
      PROVE  NoLateReports'
  BY <1>7, <1>0 DEF _mfr_init, PlaceFitsOp
<1>8. ASSUME NEW c \in Clients, Refuse(c)
      PROVE  NoLateReports'
  BY <1>8, <1>0 DEF Refuse
<1>9. ASSUME NEW c \in Clients, Use(c)
      PROVE  NoLateReports'
  BY <1>9, <1>0 DEF Use
<1>10. ASSUME NEW c \in Clients, LibraryFails(c)
      PROVE  NoLateReports'
  BY <1>10, <1>0 DEF LibraryFails, WriteInv, StatusIsTheWriters
<1>11. ASSUME NEW c \in Clients, LibrarySucceeds(c)
      PROVE  NoLateReports'
  BY <1>11, <1>0 DEF LibrarySucceeds
<1>12. ASSUME NEW c \in Clients, PollStarted(c)
      PROVE  NoLateReports'
  BY <1>12, <1>0 DEF PollStarted
<1>13. ASSUME NEW c \in Clients, PollEnded(c)
      PROVE  NoLateReports'
  BY <1>13, <1>0 DEF PollEnded
<1>14. ASSUME NEW c \in Clients, WriteEnds(c)
      PROVE  NoLateReports'
  BY <1>14, <1>0 DEF WriteEnds, WriteInv, StatusIsTheWriters, PlaceFitsOp, Shown, Progress
<1>15. ASSUME NEW c \in Clients, UnlockEarly(c)
      PROVE  NoLateReports'
  BY <1>15, <1>0 DEF UnlockEarly, Unlock, PlaceFitsOp
<1>16. ASSUME NEW c \in Clients, UnlockLast(c)
      PROVE  NoLateReports'
  BY <1>16, <1>0 DEF UnlockLast, Unlock
<1>17. ASSUME NEW c \in Clients, ShutDown(c)
      PROVE  NoLateReports'
  BY <1>17, <1>0 DEF ShutDown
<1>18. ASSUME NEW c \in Clients, LockAgain(c)
      PROVE  NoLateReports'
  BY <1>18, <1>0 DEF LockAgain
<1>19. ASSUME NEW c \in Clients, JobBegins(c)
      PROVE  NoLateReports'
  BY <1>19, <1>0 DEF JobBegins
<1>20. ASSUME NEW c \in Clients, Return(c)
      PROVE  NoLateReports'
  BY <1>20, <1>0 DEF Return
<1>21. ASSUME NEW c \in Clients, SaveStatus(c)
      PROVE  NoLateReports'
  BY <1>21, <1>0 DEF SaveStatus
<1>22. ASSUME NEW c \in Clients, NEW s \in Reports(job[c]), WriteImageCb(c, s)
      PROVE  NoLateReports'
  BY <1>22, <1>0, ReportOrder DEF WriteImageCb
<1>23. CASE UNCHANGED vars
  BY <1>23, <1>0 DEF vars
<1>24. QED
  BY <1>1, <1>2, <1>3, <1>4, <1>5, <1>6, <1>7, <1>8, <1>9, <1>10, <1>11, <1>12, <1>13, <1>14, <1>15,
     <1>16, <1>17, <1>18, <1>19, <1>20, <1>21, <1>22, <1>23
     DEF Next, HandlerStep, JobStep

(* lastStatus follows the job of the writer, and nobody else writes it. *)
LEMMA StatusStep ==
    ASSUME Detailed = FALSE, LockInv, WriteInv, ~stray', [Next]_vars
    PROVE  StatusIsTheWriters'
<1> USE DEF LockInv, TypeOK, StatusIsTheWriters, Writing, Shown, Final, Progress, Goto, Answer,
            startVars, clientVars, callVars,
            jobVars, ClientStays, Begin
<1>0. ~stray /\ NoLateReports /\ StatusIsTheWriters
  BY StrayStays DEF WriteInv
<1>a. \A c, d \in Clients : Writing(c) /\ pc[d] \in Critical => c = d
  BY <1>0 DEF CriticalHoldsLock, Critical
<1>1. CASE StartFails
  BY <1>1, <1>0 DEF StartFails
<1>2. CASE BusInitFails
  BY <1>2, <1>0 DEF BusInitFails
<1>3. CASE Start
  BY <1>3, <1>0 DEF Start
<1>4. ASSUME NEW c \in Clients, NEW o \in Ops \cup {"Init"}, CallFails(c, o)
      PROVE  StatusIsTheWriters'
  BY <1>4, <1>0 DEF CallFails
<1>5. ASSUME NEW c \in Clients, NEW o \in Ops \cup {"Init"}, NEW a \in Arguments, Call(c, o, a)
      PROVE  StatusIsTheWriters'
  BY <1>5, <1>0 DEF Call
<1>6. ASSUME NEW c \in Clients, Lock(c)
      PROVE  StatusIsTheWriters'
  BY <1>6, <1>0 DEF Lock
<1>7. ASSUME NEW c \in Clients, _mfr_init(c)
      PROVE  StatusIsTheWriters'
  BY <1>7, <1>0 DEF _mfr_init
<1>8. ASSUME NEW c \in Clients, Refuse(c)
      PROVE  StatusIsTheWriters'
  BY <1>8, <1>0 DEF Refuse
<1>9. ASSUME NEW c \in Clients, Use(c)
      PROVE  StatusIsTheWriters'
  BY <1>9, <1>0, <1>a DEF Use, NoLateReports, Critical
<1>10. ASSUME NEW c \in Clients, LibraryFails(c)
      PROVE  StatusIsTheWriters'
  BY <1>10, <1>0 DEF LibraryFails
<1>11. ASSUME NEW c \in Clients, LibrarySucceeds(c)
      PROVE  StatusIsTheWriters'
  BY <1>11, <1>0 DEF LibrarySucceeds
<1>12. ASSUME NEW c \in Clients, PollStarted(c)
      PROVE  StatusIsTheWriters'
  BY <1>12, <1>0 DEF PollStarted
<1>13. ASSUME NEW c \in Clients, PollEnded(c)
      PROVE  StatusIsTheWriters'
  BY <1>13, <1>0 DEF PollEnded
<1>14. ASSUME NEW c \in Clients, WriteEnds(c)
      PROVE  StatusIsTheWriters'
  BY <1>14, <1>0 DEF WriteEnds
<1>15. ASSUME NEW c \in Clients, UnlockEarly(c)
      PROVE  StatusIsTheWriters'
  BY <1>15, <1>0 DEF UnlockEarly, Unlock
<1>16. ASSUME NEW c \in Clients, UnlockLast(c)
      PROVE  StatusIsTheWriters'
  BY <1>16, <1>0 DEF UnlockLast, Unlock
<1>17. ASSUME NEW c \in Clients, ShutDown(c)
      PROVE  StatusIsTheWriters'
  BY <1>17, <1>0 DEF ShutDown
<1>18. ASSUME NEW c \in Clients, LockAgain(c)
      PROVE  StatusIsTheWriters'
  BY <1>18, <1>0 DEF LockAgain
<1>19. ASSUME NEW c \in Clients, JobBegins(c)
      PROVE  StatusIsTheWriters'
  BY <1>19, <1>0 DEF JobBegins
<1>20. ASSUME NEW c \in Clients, Return(c)
      PROVE  StatusIsTheWriters'
  BY <1>20, <1>0 DEF Return
<1>21. ASSUME NEW c \in Clients, SaveStatus(c)
      PROVE  StatusIsTheWriters'
  BY <1>21, <1>0, <1>a DEF SaveStatus, NoLateReports, Critical
<1>22. ASSUME NEW c \in Clients, NEW s \in Reports(job[c]), WriteImageCb(c, s)
      PROVE  StatusIsTheWriters'
  <2>1. job[c] \in {"none", "running", "STARTED"} \cup Final
    BY <1>0 DEF NoLateReports, StatusIsTheWriters
  <2>2. job[c] \in {"running", "STARTED"}
    BY <1>22, <2>1, ReportOrder
  <2>3. \/ job[c] = "running" /\ s = "STARTED"
        \/ job[c] = "STARTED" /\ s \in Final
    BY <1>22, <2>2, ReportOrder
  <2>4. Writing(c)
    BY <1>0, <2>2 DEF NoLateReports
  <2>5. QED
    BY <1>22, <1>0, <2>3, <2>4 DEF WriteImageCb
<1>23. CASE UNCHANGED vars
  BY <1>23, <1>0 DEF vars
<1>24. QED
  BY <1>1, <1>2, <1>3, <1>4, <1>5, <1>6, <1>7, <1>8, <1>9, <1>10, <1>11, <1>12, <1>13, <1>14, <1>15,
     <1>16, <1>17, <1>18, <1>19, <1>20, <1>21, <1>22, <1>23
     DEF Next, HandlerStep, JobStep

LEMMA AnswerStep ==
    ASSUME Detailed = FALSE, LockInv, WriteInv, ~stray', [Next]_vars
    PROVE  AnswerIsEnd'
<1> USE DEF LockInv, TypeOK, AnswerIsEnd, Writing, Final, Progress, Goto, Answer, startVars,
            clientVars, callVars,
            jobVars, ClientStays, Begin, Success, IpcCoreFail, InvalidParam, InvalidState
<1>0. ~stray /\ NoLateReports /\ StatusIsTheWriters /\ AnswerIsEnd
  BY StrayStays DEF WriteInv
<1>1. CASE StartFails
  BY <1>1, <1>0 DEF StartFails
<1>2. CASE BusInitFails
  BY <1>2, <1>0 DEF BusInitFails
<1>3. CASE Start
  BY <1>3, <1>0 DEF Start
<1>4. ASSUME NEW c \in Clients, NEW o \in Ops \cup {"Init"}, CallFails(c, o)
      PROVE  AnswerIsEnd'
  BY <1>4, <1>0 DEF CallFails
<1>5. ASSUME NEW c \in Clients, NEW o \in Ops \cup {"Init"}, NEW a \in Arguments, Call(c, o, a)
      PROVE  AnswerIsEnd'
  BY <1>5, <1>0 DEF Call
<1>6. ASSUME NEW c \in Clients, Lock(c)
      PROVE  AnswerIsEnd'
  BY <1>6, <1>0 DEF Lock
<1>7. ASSUME NEW c \in Clients, _mfr_init(c)
      PROVE  AnswerIsEnd'
  BY <1>7, <1>0 DEF _mfr_init, PlaceFitsOp
<1>8. ASSUME NEW c \in Clients, Refuse(c)
      PROVE  AnswerIsEnd'
  BY <1>8, <1>0, RefusalsAreErrors, OpsAreRows DEF Refuse, PlaceFitsOp
<1>9. ASSUME NEW c \in Clients, Use(c)
      PROVE  AnswerIsEnd'
  BY <1>9, <1>0 DEF Use
<1>10. ASSUME NEW c \in Clients, LibraryFails(c)
      PROVE  AnswerIsEnd'
  BY <1>10, <1>0 DEF LibraryFails
<1>11. ASSUME NEW c \in Clients, LibrarySucceeds(c)
      PROVE  AnswerIsEnd'
  BY <1>11, <1>0 DEF LibrarySucceeds
<1>12. ASSUME NEW c \in Clients, PollStarted(c)
      PROVE  AnswerIsEnd'
  BY <1>12, <1>0 DEF PollStarted
<1>13. ASSUME NEW c \in Clients, PollEnded(c)
      PROVE  AnswerIsEnd'
  BY <1>13, <1>0 DEF PollEnded
<1>14. ASSUME NEW c \in Clients, WriteEnds(c)
      PROVE  AnswerIsEnd'
  BY <1>14, <1>0 DEF WriteEnds, StatusIsTheWriters, Shown
<1>15. ASSUME NEW c \in Clients, UnlockEarly(c)
      PROVE  AnswerIsEnd'
  BY <1>15, <1>0 DEF UnlockEarly, Unlock, PlaceFitsOp
<1>16. ASSUME NEW c \in Clients, UnlockLast(c)
      PROVE  AnswerIsEnd'
  BY <1>16, <1>0 DEF UnlockLast, Unlock
<1>17. ASSUME NEW c \in Clients, ShutDown(c)
      PROVE  AnswerIsEnd'
  BY <1>17, <1>0 DEF ShutDown
<1>18. ASSUME NEW c \in Clients, LockAgain(c)
      PROVE  AnswerIsEnd'
  BY <1>18, <1>0 DEF LockAgain
<1>19. ASSUME NEW c \in Clients, JobBegins(c)
      PROVE  AnswerIsEnd'
  BY <1>19, <1>0 DEF JobBegins
<1>20. ASSUME NEW c \in Clients, Return(c)
      PROVE  AnswerIsEnd'
  BY <1>20, <1>0 DEF Return
<1>21. ASSUME NEW c \in Clients, SaveStatus(c)
      PROVE  AnswerIsEnd'
  BY <1>21, <1>0 DEF SaveStatus
<1>22. ASSUME NEW c \in Clients, NEW s \in Reports(job[c]), WriteImageCb(c, s)
      PROVE  AnswerIsEnd'
  <2>1. job[c] \in {"none", "running", "STARTED"} \cup Final
    BY <1>0 DEF NoLateReports, StatusIsTheWriters
  <2>2. job[c] \in {"running", "STARTED"}
    BY <1>22, <2>1, ReportOrder
  <2>3. \/ job[c] = "running" /\ s = "STARTED"
        \/ job[c] = "STARTED" /\ s \in Final
    BY <1>22, <2>2, ReportOrder
  <2>4. Writing(c)
    BY <1>0, <2>2 DEF NoLateReports
  <2>5. QED
    BY <1>22, <1>0, <2>3, <2>4 DEF WriteImageCb
<1>23. CASE UNCHANGED vars
  BY <1>23, <1>0 DEF vars
<1>24. QED
  BY <1>1, <1>2, <1>3, <1>4, <1>5, <1>6, <1>7, <1>8, <1>9, <1>10, <1>11, <1>12, <1>13, <1>14, <1>15,
     <1>16, <1>17, <1>18, <1>19, <1>20, <1>21, <1>22, <1>23
     DEF Next, HandlerStep, JobStep

-----------------------------------------------------------------------------
(* The variables keep their types. *)
THEOREM TypeCorrectness == Spec => []TypeOK
<1>1. Spec => []LockInv
  BY LockInvariance, PTL
<1>2. LockInv => TypeOK
  BY DEF LockInv
<1>3. QED
  BY <1>1, <1>2, PTL

(* mfrLock keeps the handlers of mfrSrv.c apart: at most one of them is in
   the vendor's library until the second unlock of DeletePDRI, ScrubAllBanks,
   Reboot or a shutdown has freed the mutex of another. *)
THEOREM OneInLibrary == Spec => []AloneInLibrary
<1>1. LockInv => AloneInLibrary
  <2> SUFFICES ASSUME LockInv, ~stray
               PROVE  Cardinality({c \in Clients : InLibrary(c)}) <= 1
    BY DEF AloneInLibrary
  <2> DEFINE S == {c \in Clients : InLibrary(c)}
  <2>1. \A c \in S : c = mfrLock
    BY DEF LockInv, CriticalHoldsLock, Critical, InLibrary
  <2>2. S = {} \/ S = {mfrLock}
    BY <2>1
  <2>3. Cardinality({}) = 0 /\ Cardinality({mfrLock}) = 1
    BY FS_EmptySet, FS_Singleton
  <2>4. QED
    BY <2>2, <2>3
<1>2. QED
  BY <1>1, LockInvariance, PTL

(* With a library that reports as mfrTypes.h says, STARTED until it is done
   and then COMPLETED or ABORTED, _mfrWriteImage answers with the end of its
   own job: neither what an earlier write left in lastStatus nor a report
   that is still under way is taken for it. *)
THEOREM WriteIsAnswered ==
    ASSUME Detailed = FALSE
    PROVE  Spec => []WriteAnswerIsItsEnd
<1>1. Init => WriteInv
  BY InitWrite
<1>2. LockInv /\ WriteInv /\ [Next]_vars => WriteInv'
  BY NoLateReportsStep, StatusStep, AnswerStep DEF WriteInv
<1>3. WriteInv => WriteAnswerIsItsEnd
  BY DEF WriteInv, AnswerIsEnd, WriteAnswerIsItsEnd
<1>4. QED
  BY <1>1, <1>2, <1>3, LockInvariance, PTL DEF Spec
=============================================================================
