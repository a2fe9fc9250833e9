---------------------------- MODULE MfrMgrProofs ----------------------------
(***************************************************************************)
(* Proofs about MfrMgr, for every set of callers, of handlers and of       *)
(* functions the library lacks, any number of calls and either way in      *)
(* which the library reports.                                              *)
(*                                                                         *)
(* Calls and jobs overlap freely and share lastStatus without a lock.      *)
(* That a job which is over cannot leave lastStatus busy rests on the      *)
(* order of writeImageCb: a report is stored by the thread of its job, one *)
(* after the other, so a busy lastStatus is the last report that some job  *)
(* has stored, and that job has either said nothing since or is about to   *)
(* store what it said.                                                     *)
(***************************************************************************)
EXTENDS MfrMgr, TLAPS

(* The report a job has broadcast and not stored is its last one. *)
ReportInv ==
    /\ DOMAIN job = CallIds /\ DOMAIN cb = CallIds
    /\ \A j \in CallIds : cb[j] # "none" => cb[j] = job[j]

(* A busy lastStatus is the last report of a job, or will be overwritten. *)
StatusInv ==
    lastStatus \in Busy => \E j \in CallIds : cb[j] # "none" \/ job[j] = lastStatus

IInv == ReportInv /\ StatusInv

-----------------------------------------------------------------------------
LEMMA ReportsAreReports == \A s : "none" \notin Reports(s)
BY DEF Reports

LEMMA NotBusy == "none" \notin Busy /\ "NOT_STARTED" \notin Busy
BY DEF Busy

LEMMA InitInv == Init => IInv
BY NotBusy DEF Init, IInv, ReportInv, StatusInv

LEMMA ImagesKept ==
    ASSUME IInv, UNCHANGED <<job, cb>>, lastStatus' = lastStatus \/ lastStatus' = "NOT_STARTED"
    PROVE  IInv'
BY NotBusy DEF IInv, ReportInv, StatusInv

(* A job begins where there was none, so that lastStatus is not about it. *)
LEMMA BeginStep ==
    ASSUME IInv, NEW c \in Callers, JobBegins(c)
    PROVE  IInv'
<1> DEFINE j == call[c].id
<1>1. job[j] = "none" /\ job' = [job EXCEPT ![j] = "running"] /\ UNCHANGED <<lastStatus, cb>>
  BY DEF JobBegins
<1> HIDE DEF j
<1>2. \A i \in CallIds : i # j => job'[i] = job[i]
  BY <1>1 DEF IInv, ReportInv
<1>3. j \in CallIds => cb[j] = "none"
  BY <1>1 DEF IInv, ReportInv
<1>4. ReportInv'
  BY <1>1, <1>2, <1>3 DEF IInv, ReportInv
<1>5. StatusInv'
  <2>1. SUFFICES ASSUME lastStatus \in Busy
                 PROVE  \E i \in CallIds : cb[i] # "none" \/ job'[i] = lastStatus
    BY <1>1 DEF StatusInv
  <2>2. PICK i \in CallIds : cb[i] # "none" \/ job[i] = lastStatus
    BY <2>1 DEF IInv, StatusInv
  <2>3. i # j
    BY <1>1, <1>3, <2>1, <2>2, NotBusy
  <2>4. QED
    BY <1>2, <2>2, <2>3
<1>6. QED
  BY <1>4, <1>5 DEF IInv

(* A report makes its job the one that is about to overwrite lastStatus. *)
LEMMA CbStep ==
    ASSUME IInv, NEW j \in CallIds, NEW s \in Reports(job[j]), WriteImageCb(j, s)
    PROVE  IInv'
<1>1. job' = [job EXCEPT ![j] = s] /\ cb' = [cb EXCEPT ![j] = s] /\ UNCHANGED lastStatus
  BY DEF WriteImageCb
<1>2. s # "none"
  BY ReportsAreReports
<1>3. QED
  BY <1>1, <1>2 DEF IInv, ReportInv, StatusInv

(* Storing it makes lastStatus the last report of the job. *)
LEMMA SaveStep ==
    ASSUME IInv, NEW j \in CallIds, SaveProgress(j)
    PROVE  IInv'
<1>1. /\ cb[j] # "none" /\ cb' = [cb EXCEPT ![j] = "none"] /\ lastStatus' = cb[j] /\ UNCHANGED job
  BY DEF SaveProgress
<1>2. job'[j] = lastStatus'
  BY <1>1 DEF IInv, ReportInv
<1>3. QED
  BY <1>1, <1>2 DEF IInv, ReportInv, StatusInv

LEMMA NextStep == IInv /\ [Next]_vars => IInv'
<1> SUFFICES ASSUME IInv, [Next]_vars PROVE IInv'
  OBVIOUS
<1>1. CASE UNCHANGED imageVars
  BY <1>1, ImagesKept DEF imageVars
<1>2. CASE StartStep \/ StartFails \/ TellReady \/ UNCHANGED vars
  BY <1>1, <1>2 DEF StartStep, StartFails, TellReady, vars
<1>3. ASSUME NEW c \in Callers, NEW h \in Handlers, NEW a \in AllArguments, Enter(c, h, a)
      PROVE  IInv'
  BY <1>1, <1>3 DEF Enter
<1>4. ASSUME NEW c \in Callers, HandlerStep(c)
      PROVE  IInv'
  <2>1. CASE Use(c)
    BY <2>1, ImagesKept DEF Use
  <2>2. CASE ~Use(c)
    BY <1>1, <1>4, <2>2 DEF HandlerStep, LookupDone, Open, OpenFails, SymFound, SymMissing, Refuse,
       HalSucceeds, HalFails
  <2>3. QED
    BY <2>1, <2>2
<1>5. ASSUME NEW c \in Callers, JobBegins(c)
      PROVE  IInv'
  BY <1>5, BeginStep
<1>6. ASSUME NEW j \in CallIds, JobStep(j)
      PROVE  IInv'
  BY <1>6, SaveStep, CbStep DEF JobStep
<1>7. QED
  BY <1>2, <1>3, <1>4, <1>5, <1>6 DEF Next

(* Nobody is refused an image because of a job that is over (mfrMgr.c,
   writeImageCb, writeImage_, verifyImage_), for every library that reports
   in one of the two ways and however its jobs and the calls overlap. *)
THEOREM RefusalsAreDue == Spec => []RefusedOnlyWhileActive
<1>1. IInv => RefusedOnlyWhileActive
  BY DEF IInv, StatusInv, RefusedOnlyWhileActive, IsBusy, Active, Running, Busy, Final
<1>2. QED
  BY <1>1, InitInv, NextStep, PTL DEF Spec
=============================================================================
