-------------------------- MODULE DsMgrBootPattern --------------------------
(***************************************************************************)
(* The bootloader pattern, which tells the bootloader to show or suppress  *)
(* the splash screen and the LED at the next boot (ux_controller in        *)
(* dsmgr/dsMgrProductTraitsHandler.cpp).  It is written through MFRMgr by  *)
(* the connect thread after a reboot, by the event thread at each power    *)
(* event of a TV, by the IARM call SetRebootConfig and, if MFRMgr is not   *)
(* up yet when the connect thread calls it, by a detached thread that      *)
(* tries again every five seconds for a minute.                            *)
(*                                                                         *)
(* Of the profiles only TV and EU set top box are ever instantiated        *)
(* (dsMgrPwrEventListener.c 114-123).  firstPowerTransitionComplete is     *)
(* read only by sync_display_ports_with_reboot_reason, which nothing       *)
(* calls, so it is left out; the ports and the LED are the subject of      *)
(* DsMgrPower.  The mutex of ux_controller is held across a step only by   *)
(* the retry thread, which calls MFRMgr with it.                           *)
(***************************************************************************)
EXTENDS Naturals, Sequences

CONSTANTS
    Profile,        \* "TV" or "STB_EU"
    States,         \* the power states that occur
    MaxRetries,     \* remaining_retries at the start of the retry thread
    MaxChanges,     \* bound: power changes
    MaxReboots      \* bound: calls of SetRebootConfig

ON == "ON"
Standbys == {"STANDBY", "STANDBY_LIGHT_SLEEP", "STANDBY_DEEP_SLEEP"}

ASSUME StatesAssumption  == States \subseteq {ON, "OFF"} \cup Standbys
ASSUME ProfileAssumption == Profile \in {"TV", "STB_EU"}
ASSUME RetriesAssumption == MaxRetries \in Nat \ {0}
ASSUME BoundsAssumption  == MaxChanges \in Nat /\ MaxReboots \in Nat

Normal       == "NORMAL"
Silent       == "SILENT"
SilentLedOn  == "SILENT_LED_ON"
Patterns     == {Normal, Silent, SilentLedOn}

Connect == "connect thread"
Event   == "event thread"
Rpc     == "IARM call"
Retry   == "retry thread"
Threads == {Connect, Event, Rpc, Retry}

VARIABLES
    pattern,          \* the pattern MFRMgr has stored
    mfrUp,            \* MFRMgr answers calls
    power,            \* PowerController's power state
    queue,            \* power events the event thread has still to handle
    changes, reboots, \* counters for the bounds
    pc,               \* where each thread is
    want,             \* the pattern each thread is setting
    remaining_retries,
    invalidateAsyncBootloaderPattern,
    late,             \* history: the event or call under way began after the connect thread ended
    set               \* history: the last pattern an event or a call has set, and if it was late

envVars == <<mfrUp, power, queue, changes, reboots>>
uxVars  == <<remaining_retries, invalidateAsyncBootloaderPattern>>
vars    == <<pattern, envVars, pc, want, uxVars, late, set>>

NotSet == [pattern |-> Normal, late |-> FALSE, by |-> Connect]

Init ==
    /\ pattern \in {Normal, IF Profile = "TV" THEN SilentLedOn ELSE Silent}
    /\ mfrUp \in BOOLEAN
    /\ power \in States
    /\ queue = <<>>
    /\ changes = 0 /\ reboots = 0
    /\ pc = [t \in Threads |-> IF t = Connect THEN "get state" ELSE "idle"]
    /\ want = [t \in Threads |-> Normal]
    /\ remaining_retries = MaxRetries
    /\ invalidateAsyncBootloaderPattern = FALSE
    /\ late = [t \in {Event, Rpc} |-> FALSE]
    /\ set = NotSet

Goto(t, from, to) == pc[t] = from /\ pc' = [pc EXCEPT ![t] = to]

(* Faulty variant: the mutex does not cover the retry thread's call. *)
NoMutex == TRUE

MutexFree == pc[Retry] # "locked"

(* _set_bootloader_pattern: the call fails as long as MFRMgr is not up, and may
   fail when it is. *)
CallMfr(t, ok) ==
    /\ ok => mfrUp
    /\ pattern' = IF ok THEN want[t] ELSE pattern

-----------------------------------------------------------------------------
(* Outside DSMgr. *)

MfrStarts ==
    /\ ~mfrUp /\ mfrUp' = TRUE
    /\ UNCHANGED <<pattern, power, queue, changes, reboots, pc, want, uxVars, late, set>>

PowerChanges(s) ==
    /\ changes < MaxChanges /\ s # power
    /\ changes' = changes + 1
    /\ power' = s
    /\ queue' = Append(queue, s)
    /\ UNCHANGED <<pattern, mfrUp, reboots, pc, want, uxVars, late, set>>

-----------------------------------------------------------------------------
(* Connect thread: the callback is registered, the power state is read and
   applyPostRebootConfig is called. *)

(* A set top box gets the normal pattern, a TV the one of its power state. *)
PostRebootPattern(s) == IF Profile = "TV" /\ s \in Standbys THEN SilentLedOn ELSE Normal

(* If the power state cannot be read, curState is still off. *)
GetPowerState ==
    /\ Goto(Connect, "get state", "call")
    /\ \E curState \in {power, "OFF"} :
          want' = [want EXCEPT ![Connect] = PostRebootPattern(curState)]
    /\ UNCHANGED <<pattern, envVars, uxVars, late, set>>

(* Faulty variant: a failing call is not tried again. *)
ConnectCallOnce ==
    /\ Goto(Connect, "call", "done")
    /\ \E ok \in BOOLEAN : CallMfr(Connect, ok)
    /\ UNCHANGED <<envVars, want, uxVars, late, set>>

(* set_bootloader_pattern_fault_tolerant. *)
ConnectCall ==
    /\ \E ok \in BOOLEAN :
          /\ Goto(Connect, "call", IF ok THEN "done" ELSE "allow retry")
          /\ CallMfr(Connect, ok)
    /\ UNCHANGED <<envVars, want, uxVars, late, set>>

AllowRetry ==
    /\ MutexFree /\ Goto(Connect, "allow retry", "spawn")
    /\ invalidateAsyncBootloaderPattern' = FALSE
    /\ UNCHANGED <<pattern, envVars, want, remaining_retries, late, set>>

SpawnRetry ==
    /\ pc[Connect] = "spawn"
    /\ pc' = [pc EXCEPT ![Connect] = "done", ![Retry] = "sleep"]
    /\ want' = [want EXCEPT ![Retry] = want[Connect]]
    /\ UNCHANGED <<pattern, envVars, uxVars, late, set>>

-----------------------------------------------------------------------------
(* Retry thread: _set_bootloader_pattern_async. *)

(* After five seconds the mutex is taken; an invalidated pattern is given up. *)
RetryCheck ==
    /\ Goto(Retry, "sleep", IF invalidateAsyncBootloaderPattern THEN "done" ELSE "locked")
    /\ UNCHANGED <<pattern, envVars, want, uxVars, late, set>>

(* Faulty variant: the retries are not counted. *)
RetryCallForever ==
    /\ pc[Retry] = "locked"
    /\ \E ok \in BOOLEAN :
          /\ CallMfr(Retry, ok)
          /\ pc' = [pc EXCEPT ![Retry] = IF ok THEN "done" ELSE "sleep"]
    /\ UNCHANGED <<envVars, want, uxVars, late, set>>

(* Faulty variant: the counter is tested before it is decremented. *)
RetryCallUnbounded ==
    /\ pc[Retry] = "locked"
    /\ \E ok \in BOOLEAN :
          /\ CallMfr(Retry, ok)
          /\ remaining_retries' = IF ok THEN remaining_retries ELSE remaining_retries - 1
          /\ pc' = [pc EXCEPT ![Retry] = IF ok \/ remaining_retries = 0 THEN "done" ELSE "sleep"]
    /\ UNCHANGED <<envVars, want, invalidateAsyncBootloaderPattern, late, set>>

(* MFRMgr is called with the mutex held, which is then released. *)
RetryCall ==
    /\ pc[Retry] = "locked"
    /\ \E ok \in BOOLEAN :
          /\ CallMfr(Retry, ok)
          /\ remaining_retries' = IF ok THEN remaining_retries ELSE remaining_retries - 1
          /\ pc' = [pc EXCEPT ![Retry] = IF ok \/ remaining_retries' = 0 THEN "done" ELSE "sleep"]
    /\ UNCHANGED <<envVars, want, invalidateAsyncBootloaderPattern, late, set>>

-----------------------------------------------------------------------------
(* Event thread and IARM call: set_bootloader_pattern. *)

Begin(t, p) ==
    /\ Goto(t, "idle", "invalidate")
    /\ want' = [want EXCEPT ![t] = p]
    /\ late' = [late EXCEPT ![t] = pc[Connect] = "done"]
    /\ UNCHANGED <<pattern, mfrUp, power, uxVars, set>>

(* applyPowerStateChangeConfig: only a TV sets the pattern. *)
HandleEvent ==
    /\ queue # <<>> /\ queue' = Tail(queue)
    /\ UNCHANGED <<changes, reboots>>
    /\ IF Profile = "TV"
         THEN Begin(Event, IF Head(queue) = ON THEN Normal ELSE SilentLedOn)
         ELSE /\ pc[Event] = "idle"
              /\ UNCHANGED <<pattern, mfrUp, power, pc, want, uxVars, late, set>>

(* _SetRebootConfig for maintenance: with the power state of its argument. *)
SetRebootConfig(s) ==
    /\ reboots < MaxReboots /\ reboots' = reboots + 1
    /\ s # ON
    /\ Begin(Rpc, IF Profile = "TV" THEN SilentLedOn ELSE Silent)
    /\ UNCHANGED <<queue, changes>>

(* Faulty variant: the retry is not cancelled. *)
InvalidateNothing(t) ==
    /\ MutexFree /\ Goto(t, "invalidate", "call")
    /\ UNCHANGED <<pattern, envVars, want, uxVars, late, set>>

Invalidate(t) ==
    /\ MutexFree /\ Goto(t, "invalidate", "call")
    /\ invalidateAsyncBootloaderPattern' = TRUE
    /\ UNCHANGED <<pattern, envVars, want, remaining_retries, late, set>>

(* A failure is reported to the caller, which drops it. *)
Call(t) ==
    /\ t \in {Event, Rpc} /\ Goto(t, "call", "idle")
    /\ \E ok \in BOOLEAN :
          /\ CallMfr(t, ok)
          /\ set' = IF ok THEN [pattern |-> want[t], late |-> late[t], by |-> t] ELSE set
    /\ UNCHANGED <<envVars, want, uxVars, late>>

-----------------------------------------------------------------------------
ConnectNext == GetPowerState \/ ConnectCall \/ AllowRetry \/ SpawnRetry
RetryNext   == RetryCheck \/ RetryCall
Set(t)      == Invalidate(t) \/ Call(t)

Next ==
    \/ MfrStarts \/ \E s \in States : PowerChanges(s)
    \/ ConnectNext \/ RetryNext
    \/ HandleEvent \/ \E s \in States : SetRebootConfig(s)
    \/ \E t \in {Event, Rpc} : Set(t)

Spec == Init /\ [][Next]_vars

(* Threads that can run do; nothing forces MFRMgr to start, nor the mutex to be
   granted to one that waits while the retry thread takes it again and again. *)
Fairness ==
    /\ WF_vars(ConnectNext) /\ WF_vars(RetryNext) /\ WF_vars(HandleEvent)
    /\ \A t \in {Event, Rpc} : WF_vars(Set(t))

FairSpec == Spec /\ Fairness

-----------------------------------------------------------------------------
(* Where the threads are, the counters, and the data. *)
PositionsOK ==
    /\ pc = [t \in Threads |-> pc[t]]
    /\ pc[Connect] \in {"get state", "call", "allow retry", "spawn", "done"}
    /\ pc[Event] \in {"idle", "invalidate", "call"} /\ pc[Rpc] \in {"idle", "invalidate", "call"}
    /\ pc[Retry] \in {"idle", "sleep", "locked", "done"}
    /\ pc[Connect] # "done" => pc[Retry] = "idle"

CountersOK ==
    /\ changes \in 0..MaxChanges /\ reboots \in 0..MaxReboots
    /\ remaining_retries \in 0..MaxRetries
    /\ pc[Retry] # "done" => remaining_retries > 0

DataOK ==
    /\ pattern \in Patterns /\ want \in [Threads -> Patterns]
    /\ mfrUp \in BOOLEAN /\ power \in States /\ queue \in Seq(States)
    /\ invalidateAsyncBootloaderPattern \in BOOLEAN
    /\ late \in [{Event, Rpc} -> BOOLEAN]
    /\ set \in [pattern : Patterns, late : BOOLEAN, by : {Connect, Event, Rpc}]

(* Type of the state: the members of ux_controller, the threads' positions, and
   retries left as long as the retry thread runs (remaining_retries is unsigned
   and is decremented before it is tested, 171). *)
TypeOK == PositionsOK /\ CountersOK /\ DataOK

(* The pattern that a power event or a reboot request has set, if it began after
   the connect thread ended, is not overwritten by the retry thread with the
   older one, wherever that thread is (dsMgrProductTraitsHandler.cpp 123-129,
   158-171). *)
LatestRequestStands == set.late => pattern = set.pattern

(* Why: a late request has cancelled the retry before it calls MFRMgr, and a
   retry that holds the mutex has seen no cancellation. *)
Cancelled == invalidateAsyncBootloaderPattern /\ pc[Retry] # "locked"
RetryIsCancelled ==
    /\ \A t \in {Event, Rpc} : late[t] => pc[Connect] = "done"
    /\ \A t \in {Event, Rpc} : late[t] /\ pc[t] = "call" => Cancelled
    /\ set.late => pc[Connect] = "done" /\ Cancelled

(* Nobody but the threads of the boot has asked for a pattern. *)
Undisturbed ==
    set = NotSet /\ ~invalidateAsyncBootloaderPattern /\ pc[Event] # "call" /\ pc[Rpc] # "call"

(* If nobody else asks for a pattern and MFRMgr answers before the retries are
   used up, the pattern of the boot is in place once the threads are through,
   whenever MFRMgr starts (dsMgrProductTraitsHandler.cpp 151-193). *)
BootPatternStands ==
    /\ pc[Connect] = "done" /\ pc[Retry] \in {"idle", "done"}
    /\ Undisturbed /\ remaining_retries > 0
    => pattern = want[Connect]

(* A power event and a reboot request get past the mutex and end, although the
   retry thread holds it during its calls and MFRMgr may never start: the
   number of retries is bounded (dsMgrProductTraitsHandler.cpp 154-171). *)
RequestsEnd ==
    \A t \in {Event, Rpc} : (pc[t] = "invalidate") ~> (pc[t] = "idle")

(* The comment at dsMgrProductTraitsHandler.cpp 179: the fault tolerant setter is
   used "immediately after a reboot, when setting bootloader pattern for the
   first time": when its retry sets the pattern, nobody else has set one. *)
RetryIsFirst ==
    [][pc[Retry] = "locked" /\ pc'[Retry] = "done" /\ remaining_retries' > 0 => set = NotSet]_vars

(* The comment at dsMgrProductTraitsHandler.cpp 457: "Silent reboot only applies
   if maintenance reboot is triggered while TV is in one of the standby states."
   A TV that is on after an event that came when the connect thread had ended,
   with MFRMgr up and no thread at work, has the normal pattern. *)
SilentOnlyInStandby ==
    /\ Profile = "TV" /\ power = ON /\ queue = <<>> /\ mfrUp
    /\ pc[Connect] = "done" /\ \A t \in {Event, Rpc, Retry} : pc[t] \in {"idle", "done"}
    /\ reboots = 0 /\ late[Event]
    => pattern = Normal
=============================================================================
