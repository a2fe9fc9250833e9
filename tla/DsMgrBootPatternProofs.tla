----------------------- MODULE DsMgrBootPatternProofs -----------------------
(***************************************************************************)
(* That the retry thread cannot overwrite a later request's pattern, and   *)
(* that it does set the one of the boot, for any number of retries, power  *)
(* changes and reboot requests.                                            *)
(***************************************************************************)
EXTENDS DsMgrBootPattern, TLAPS

(* The constants' assumptions in the form the steps use. *)
LEMMA Constants ==
    /\ MaxRetries \in Nat /\ MaxRetries > 0
    /\ MaxChanges \in Nat /\ MaxReboots \in Nat
BY RetriesAssumption, BoundsAssumption

(* Initially the state is well typed. *)
LEMMA TypeInit == Init => TypeOK
<1> SUFFICES ASSUME Init PROVE TypeOK
    OBVIOUS
<1>1. PositionsOK
    BY DEF Init, PositionsOK, Threads, Connect, Event, Rpc, Retry
<1>2. changes = 0 /\ reboots = 0 /\ remaining_retries = MaxRetries
    BY DEF Init
<1>3. CountersOK
    BY <1>2, Constants DEF CountersOK
<1>4. pattern \in Patterns /\ want \in [Threads -> Patterns] /\ set = NotSet
    BY DEF Init, Patterns
<1>5. set \in [pattern : Patterns, late : BOOLEAN, by : {Connect, Event, Rpc}]
    BY <1>4 DEF NotSet, Patterns
<1>6. late = [t \in {Event, Rpc} |-> FALSE] /\ queue = <<>>
    BY DEF Init
<1>7. late \in [{Event, Rpc} -> BOOLEAN]
    BY <1>6
<1>8. queue \in Seq(States)
    BY <1>6
<1>9. DataOK
    BY <1>4, <1>5, <1>7, <1>8 DEF Init, DataOK
<1> QED
    BY <1>1, <1>3, <1>9 DEF TypeOK

(* Every step keeps the threads at known places. *)
LEMMA PositionsStep == PositionsOK /\ [Next]_vars => PositionsOK'
<1> SUFFICES ASSUME PositionsOK, [Next]_vars PROVE PositionsOK'
    OBVIOUS
<1> USE DEF PositionsOK
<1>1. CASE MfrStarts
    BY <1>1 DEF MfrStarts, envVars, uxVars
<1>2. ASSUME NEW s \in States, PowerChanges(s) PROVE PositionsOK'
    BY <1>2 DEF PowerChanges, envVars, uxVars
<1>3. CASE GetPowerState
    BY <1>3 DEF GetPowerState, Goto, envVars, uxVars, Threads, Connect, Event, Rpc, Retry
<1>4. CASE ConnectCall
    BY <1>4 DEF ConnectCall, Goto, envVars, uxVars, Threads, Connect, Event, Rpc, Retry
<1>5. CASE AllowRetry
    BY <1>5 DEF AllowRetry, Goto, envVars, uxVars, Threads, Connect, Event, Rpc, Retry
<1>6. CASE SpawnRetry
    BY <1>6 DEF SpawnRetry, envVars, uxVars, Threads, Connect, Event, Rpc, Retry
<1>7. CASE RetryCheck
    BY <1>7 DEF RetryCheck, Goto, envVars, uxVars, Threads, Connect, Event, Rpc, Retry
<1>8. CASE RetryCall
    BY <1>8 DEF RetryCall, envVars, uxVars, Threads, Connect, Event, Rpc, Retry
<1>9. CASE HandleEvent
    BY <1>9 DEF HandleEvent, Begin, Goto, envVars, uxVars, Threads, Connect, Event, Rpc, Retry
<1>10. ASSUME NEW s \in States, SetRebootConfig(s) PROVE PositionsOK'
    BY <1>10 DEF SetRebootConfig, Begin, Goto, envVars, uxVars, Threads, Connect, Event,
       Rpc, Retry
<1>11. ASSUME NEW t \in {Event, Rpc}, Invalidate(t) PROVE PositionsOK'
    BY <1>11 DEF Invalidate, Goto, envVars, uxVars, Threads, Connect, Event, Rpc, Retry
<1>12. ASSUME NEW t \in {Event, Rpc}, Call(t) PROVE PositionsOK'
    BY <1>12 DEF Call, Goto, envVars, uxVars, Threads, Connect, Event, Rpc, Retry
<1>13. CASE UNCHANGED vars
    BY <1>13 DEF vars, envVars, uxVars
<1> QED
    BY <1>1, <1>2, <1>3, <1>4, <1>5, <1>6, <1>7, <1>8, <1>9, <1>10, <1>11, <1>12, <1>13
       DEF Next, ConnectNext, RetryNext, Set

(* Every step keeps the counters in their bounds. *)
LEMMA CountersStep == PositionsOK /\ CountersOK /\ [Next]_vars => CountersOK'
<1> SUFFICES ASSUME PositionsOK, CountersOK, [Next]_vars PROVE CountersOK'
    OBVIOUS
<1> USE DEF CountersOK
<1>1. CASE MfrStarts
    BY <1>1 DEF MfrStarts, envVars, uxVars, PositionsOK, Threads, Connect, Event, Rpc, Retry
<1>2. ASSUME NEW s \in States, PowerChanges(s) PROVE CountersOK'
    BY <1>2, Constants DEF PowerChanges, uxVars
<1>3. CASE GetPowerState
    BY <1>3 DEF GetPowerState, Goto, envVars, uxVars, PositionsOK, Threads, Connect, Event,
       Rpc, Retry
<1>4. CASE ConnectCall
    BY <1>4 DEF ConnectCall, Goto, envVars, uxVars, PositionsOK, Threads, Connect, Event,
       Rpc, Retry
<1>5. CASE AllowRetry
    BY <1>5 DEF AllowRetry, Goto, envVars, uxVars, PositionsOK, Threads, Connect, Event,
       Rpc, Retry
<1>6. CASE SpawnRetry
    BY <1>6 DEF SpawnRetry, envVars, uxVars, PositionsOK, Threads, Connect, Event, Rpc, Retry
<1>7. CASE RetryCheck
    BY <1>7 DEF RetryCheck, Goto, envVars, uxVars, PositionsOK, Threads, Connect, Event,
       Rpc, Retry
<1>8. CASE RetryCall
    <2>1. /\ changes' = changes /\ reboots' = reboots
          /\ remaining_retries > 0
          /\ remaining_retries' = remaining_retries \/ remaining_retries' = remaining_retries - 1
        BY <1>8 DEF RetryCall, envVars
    <2>2. pc'[Retry] # "done" => remaining_retries' # 0
        <3>1. PICK ok \in BOOLEAN :
                 /\ remaining_retries' = IF ok THEN remaining_retries ELSE remaining_retries - 1
                 /\ pc' = [pc EXCEPT ![Retry] = IF ok \/ remaining_retries' = 0 THEN "done" ELSE "sleep"]
            BY <1>8 DEF RetryCall
        <3>2. CASE ok
            BY <3>1, <3>2 DEF PositionsOK, Threads
        <3>3. CASE ~ok
            BY <3>1, <3>3 DEF PositionsOK, Threads
        <3> QED
            BY <3>2, <3>3
    <2> QED
        BY <2>1, <2>2, Constants
<1>9. CASE HandleEvent
    <2>1. changes' = changes /\ reboots' = reboots /\ remaining_retries' = remaining_retries
        BY <1>9 DEF HandleEvent, Begin, uxVars
    <2>2. pc'[Retry] = pc[Retry]
        BY <1>9 DEF HandleEvent, Begin, Goto, PositionsOK, Threads, Connect, Event, Rpc, Retry
    <2> QED
        BY <2>1, <2>2
<1>10. ASSUME NEW s \in States, SetRebootConfig(s) PROVE CountersOK'
    <2>1. /\ changes' = changes /\ remaining_retries' = remaining_retries
          /\ reboots < MaxReboots /\ reboots' = reboots + 1
        BY <1>10 DEF SetRebootConfig, Begin, uxVars
    <2>2. pc'[Retry] = pc[Retry]
        BY <1>10 DEF SetRebootConfig, Begin, Goto, PositionsOK, Threads, Connect, Event,
           Rpc, Retry
    <2> QED
        BY <2>1, <2>2, Constants
<1>11. ASSUME NEW t \in {Event, Rpc}, Invalidate(t) PROVE CountersOK'
    BY <1>11 DEF Invalidate, Goto, envVars, uxVars, PositionsOK, Threads, Connect, Event,
       Rpc, Retry
<1>12. ASSUME NEW t \in {Event, Rpc}, Call(t) PROVE CountersOK'
    BY <1>12 DEF Call, Goto, envVars, uxVars, PositionsOK, Threads, Connect, Event, Rpc, Retry
<1>13. CASE UNCHANGED vars
    BY <1>13 DEF vars, envVars, uxVars
<1> QED
    BY <1>1, <1>2, <1>3, <1>4, <1>5, <1>6, <1>7, <1>8, <1>9, <1>10, <1>11, <1>12, <1>13
       DEF Next, ConnectNext, RetryNext, Set

(* Every step keeps the data's types. *)
LEMMA DataStep == DataOK /\ [Next]_vars => DataOK'
<1> SUFFICES ASSUME DataOK, [Next]_vars PROVE DataOK'
    OBVIOUS
<1> USE DEF DataOK
<1>1. CASE MfrStarts
    BY <1>1 DEF MfrStarts, envVars, uxVars, CallMfr, Patterns, PostRebootPattern, Threads,
       Connect, Event, Rpc, Retry
<1>2. ASSUME NEW s \in States, PowerChanges(s) PROVE DataOK'
    <2>1. queue' \in Seq(States) /\ power' \in States
        BY <1>2 DEF PowerChanges
    <2> QED
        BY <1>2, <2>1 DEF PowerChanges, uxVars
<1>3. CASE GetPowerState
    BY <1>3 DEF GetPowerState, Goto, envVars, uxVars, CallMfr, Patterns, PostRebootPattern,
       Threads, Connect, Event, Rpc, Retry
<1>4. CASE ConnectCall
    BY <1>4 DEF ConnectCall, Goto, envVars, uxVars, CallMfr, Patterns, PostRebootPattern,
       Threads, Connect, Event, Rpc, Retry
<1>5. CASE AllowRetry
    BY <1>5 DEF AllowRetry, Goto, envVars, uxVars, CallMfr, Patterns, PostRebootPattern,
       Threads, Connect, Event, Rpc, Retry
<1>6. CASE SpawnRetry
    BY <1>6 DEF SpawnRetry, envVars, uxVars, CallMfr, Patterns, PostRebootPattern, Threads,
       Connect, Event, Rpc, Retry
<1>7. CASE RetryCheck
    BY <1>7 DEF RetryCheck, Goto, envVars, uxVars, CallMfr, Patterns, PostRebootPattern,
       Threads, Connect, Event, Rpc, Retry
<1>8. CASE RetryCall
    BY <1>8 DEF RetryCall, envVars, uxVars, CallMfr, Patterns, PostRebootPattern, Threads,
       Connect, Event, Rpc, Retry
<1>9. CASE HandleEvent
    <2>1. queue # <<>> /\ queue' = Tail(queue)
        BY <1>9 DEF HandleEvent
    <2>2. queue' \in Seq(States)
        BY <2>1
    <2>3. want' \in [Threads -> Patterns] /\ late' \in [{Event, Rpc} -> BOOLEAN]
        BY <1>9 DEF HandleEvent, Begin, Patterns, Threads
    <2>4. UNCHANGED <<pattern, mfrUp, power, invalidateAsyncBootloaderPattern, set>>
        BY <1>9 DEF HandleEvent, Begin, uxVars
    <2> QED
        BY <2>2, <2>3, <2>4
<1>10. ASSUME NEW s \in States, SetRebootConfig(s) PROVE DataOK'
    BY <1>10 DEF SetRebootConfig, Begin, Goto, envVars, uxVars, CallMfr, Patterns,
       PostRebootPattern, Threads, Connect, Event, Rpc, Retry
<1>11. ASSUME NEW t \in {Event, Rpc}, Invalidate(t) PROVE DataOK'
    BY <1>11 DEF Invalidate, Goto, envVars, uxVars, CallMfr, Patterns, PostRebootPattern,
       Threads, Connect, Event, Rpc, Retry
<1>12. ASSUME NEW t \in {Event, Rpc}, Call(t) PROVE DataOK'
    <2>1. PICK ok \in BOOLEAN :
             /\ CallMfr(t, ok)
             /\ set' = IF ok THEN [pattern |-> want[t], late |-> late[t], by |-> t] ELSE set
        BY <1>12 DEF Call
    <2>2. want[t] \in Patterns /\ late[t] \in BOOLEAN
        BY DEF Threads
    <2>3. pattern' \in Patterns
        BY <2>1, <2>2 DEF CallMfr
    <2>4. set' \in [pattern : Patterns, late : BOOLEAN, by : {Connect, Event, Rpc}]
        BY <2>1, <2>2
    <2> QED
        BY <1>12, <2>3, <2>4 DEF Call, envVars, uxVars
<1>13. CASE UNCHANGED vars
    BY <1>13 DEF vars, envVars, uxVars
<1> QED
    BY <1>1, <1>2, <1>3, <1>4, <1>5, <1>6, <1>7, <1>8, <1>9, <1>10, <1>11, <1>12, <1>13
       DEF Next, ConnectNext, RetryNext, Set

(* Initially no request has been made. *)
LEMMA CancelInit == Init => RetryIsCancelled /\ LatestRequestStands
<1> SUFFICES ASSUME Init PROVE RetryIsCancelled /\ LatestRequestStands
    OBVIOUS
<1>1. late = [t \in {Event, Rpc} |-> FALSE] /\ set = NotSet
    BY DEF Init
<1>2. set.late = FALSE /\ \A t \in {Event, Rpc} : late[t] = FALSE
    BY <1>1 DEF NotSet
<1> QED
    BY <1>2 DEF RetryIsCancelled, LatestRequestStands

(* A late request cancels the retry before it calls MFRMgr, and no step undoes
   that: only the connect thread allows the retry again, and it has ended. *)
LEMMA CancelStep == TypeOK /\ RetryIsCancelled /\ [Next]_vars => RetryIsCancelled'
<1> SUFFICES ASSUME PositionsOK, DataOK, RetryIsCancelled, [Next]_vars PROVE RetryIsCancelled'
    BY DEF TypeOK
<1> USE DEF RetryIsCancelled, Cancelled
<1>1. CASE MfrStarts
    BY <1>1 DEF MfrStarts, uxVars, PositionsOK, DataOK, Threads, Connect, Event, Rpc, Retry
<1>2. ASSUME NEW s \in States, PowerChanges(s) PROVE RetryIsCancelled'
    BY <1>2 DEF PowerChanges, uxVars, PositionsOK, DataOK, Threads, Connect, Event, Rpc, Retry
<1>3. CASE GetPowerState
    BY <1>3 DEF GetPowerState, Goto, uxVars, PositionsOK, DataOK, Threads, Connect, Event,
       Rpc, Retry
<1>4. CASE ConnectCall
    BY <1>4 DEF ConnectCall, Goto, uxVars, PositionsOK, DataOK, Threads, Connect, Event,
       Rpc, Retry
<1>5. CASE AllowRetry
    BY <1>5 DEF AllowRetry, Goto, uxVars, PositionsOK, DataOK, Threads, Connect, Event, Rpc,
       Retry
<1>6. CASE SpawnRetry
    BY <1>6 DEF SpawnRetry, uxVars, PositionsOK, DataOK, Threads, Connect, Event, Rpc, Retry
<1>7. CASE RetryCheck
    BY <1>7 DEF RetryCheck, Goto, uxVars, PositionsOK, DataOK, Threads, Connect, Event, Rpc,
       Retry
<1>8. CASE RetryCall
    BY <1>8 DEF RetryCall, uxVars, PositionsOK, DataOK, Threads, Connect, Event, Rpc, Retry
<1>9. CASE HandleEvent
    BY <1>9 DEF HandleEvent, Begin, Goto, uxVars, PositionsOK, DataOK, Threads, Connect,
       Event, Rpc, Retry
<1>10. ASSUME NEW s \in States, SetRebootConfig(s) PROVE RetryIsCancelled'
    BY <1>10 DEF SetRebootConfig, Begin, Goto, uxVars, PositionsOK, DataOK, Threads,
       Connect, Event, Rpc, Retry
<1>11. ASSUME NEW t \in {Event, Rpc}, Invalidate(t) PROVE RetryIsCancelled'
    BY <1>11 DEF Invalidate, MutexFree, Goto, uxVars, PositionsOK, DataOK, Threads, Connect,
       Event, Rpc, Retry
<1>12. ASSUME NEW t \in {Event, Rpc}, Call(t) PROVE RetryIsCancelled'
    <2>1. PICK ok \in BOOLEAN :
             set' = IF ok THEN [pattern |-> want[t], late |-> late[t], by |-> t] ELSE set
        BY <1>12 DEF Call
    <2>2. /\ pc[t] = "call" /\ late' = late
          /\ invalidateAsyncBootloaderPattern' = invalidateAsyncBootloaderPattern
          /\ \A u \in Threads : u # t => pc'[u] = pc[u]
          /\ pc'[t] = "idle"
        BY <1>12 DEF Call, Goto, uxVars, PositionsOK, Threads
    <2>3. pc'[Connect] = pc[Connect] /\ pc'[Retry] = pc[Retry]
        BY <2>2 DEF Threads, Connect, Event, Rpc, Retry
    <2>4. set'.late => late[t] \/ set.late
        BY <2>1
    <2>5. \A u \in {Event, Rpc} : pc'[u] = "call" => pc[u] = "call"
        BY <2>2 DEF Threads
    <2> QED
        BY <2>2, <2>3, <2>4, <2>5
<1>13. CASE UNCHANGED vars
    BY <1>13 DEF vars, envVars, uxVars
<1> QED
    BY <1>1, <1>2, <1>3, <1>4, <1>5, <1>6, <1>7, <1>8, <1>9, <1>10, <1>11, <1>12, <1>13
       DEF Next, ConnectNext, RetryNext, Set

(* A step that changes the pattern after a late request is a request's own. *)
LEMMA StandsStep ==
    TypeOK /\ RetryIsCancelled /\ LatestRequestStands /\ [Next]_vars => LatestRequestStands'
<1> SUFFICES ASSUME PositionsOK, DataOK, RetryIsCancelled, LatestRequestStands, [Next]_vars
             PROVE  LatestRequestStands'
    BY DEF TypeOK
<1> USE DEF LatestRequestStands
<1>1. CASE MfrStarts
    BY <1>1 DEF MfrStarts, CallMfr, RetryIsCancelled, Cancelled, DataOK
<1>2. ASSUME NEW s \in States, PowerChanges(s) PROVE LatestRequestStands'
    BY <1>2 DEF PowerChanges, CallMfr, RetryIsCancelled, Cancelled, DataOK
<1>3. CASE GetPowerState
    BY <1>3 DEF GetPowerState, Goto, CallMfr, RetryIsCancelled, Cancelled, DataOK
<1>4. CASE ConnectCall
    BY <1>4 DEF ConnectCall, Goto, CallMfr, RetryIsCancelled, Cancelled, DataOK
<1>5. CASE AllowRetry
    BY <1>5 DEF AllowRetry, Goto, CallMfr, RetryIsCancelled, Cancelled, DataOK
<1>6. CASE SpawnRetry
    BY <1>6 DEF SpawnRetry, CallMfr, RetryIsCancelled, Cancelled, DataOK
<1>7. CASE RetryCheck
    BY <1>7 DEF RetryCheck, Goto, CallMfr, RetryIsCancelled, Cancelled, DataOK
<1>8. CASE RetryCall
    BY <1>8 DEF RetryCall, CallMfr, RetryIsCancelled, Cancelled, DataOK
<1>9. CASE HandleEvent
    BY <1>9 DEF HandleEvent, Begin, Goto, CallMfr, RetryIsCancelled, Cancelled, DataOK
<1>10. ASSUME NEW s \in States, SetRebootConfig(s) PROVE LatestRequestStands'
    BY <1>10 DEF SetRebootConfig, Begin, Goto, CallMfr, RetryIsCancelled, Cancelled, DataOK
<1>11. ASSUME NEW t \in {Event, Rpc}, Invalidate(t) PROVE LatestRequestStands'
    BY <1>11 DEF Invalidate, MutexFree, Goto, CallMfr, RetryIsCancelled, Cancelled, DataOK
<1>12. ASSUME NEW t \in {Event, Rpc}, Call(t) PROVE LatestRequestStands'
    BY <1>12 DEF Call, Goto, CallMfr, RetryIsCancelled, Cancelled, DataOK
<1>13. CASE UNCHANGED vars
    BY <1>13 DEF vars, envVars, uxVars
<1> QED
    BY <1>1, <1>2, <1>3, <1>4, <1>5, <1>6, <1>7, <1>8, <1>9, <1>10, <1>11, <1>12, <1>13
       DEF Next, ConnectNext, RetryNext, Set

(* The types and the cancellation of the retry are invariant together. *)
IInv == TypeOK /\ RetryIsCancelled /\ LatestRequestStands

(* The inductive invariant holds in every state: what the three theorems below
   are read off from (dsMgrProductTraitsHandler.cpp 123-193). *)
THEOREM Invariance == Spec => []IInv
<1>1. Init => IInv
    BY TypeInit, CancelInit DEF IInv
<1>2. IInv /\ [Next]_vars => IInv'
    BY PositionsStep, CountersStep, DataStep, CancelStep, StandsStep DEF IInv, TypeOK
<1> QED
    BY <1>1, <1>2, PTL DEF Spec

(* The state is well typed, and a running retry thread has retries left: the
   unsigned remaining_retries never wraps. *)
THEOREM TypeCorrectness == Spec => []TypeOK
BY Invariance, PTL DEF IInv

(* A late request has cancelled the retry before MFRMgr is called. *)
THEOREM LateRequestCancels == Spec => []RetryIsCancelled
BY Invariance, PTL DEF IInv

(* The pattern of a power event or reboot request that began after the connect
   thread ended is not overwritten with the boot's, for any number of retries. *)
THEOREM LatestRequestWins == Spec => []LatestRequestStands
BY Invariance, PTL DEF IInv

-----------------------------------------------------------------------------
(* The pattern of the boot, as long as no request has set another: it is in
   place when the connect thread was answered at once; the retry thread wants
   the same one, and has set it when it ends with retries left and was not
   cancelled. *)
BootInv ==
    /\ pc[Retry] # "idle" => want[Retry] = want[Connect]
    /\ set = NotSet =>
          /\ pc[Connect] = "done" /\ pc[Retry] = "idle" => pattern = want[Connect]
          /\ pc[Retry] = "done" /\ ~invalidateAsyncBootloaderPattern /\ remaining_retries > 0
                => pattern = want[Connect]

LEMMA BootStep == PositionsOK /\ DataOK /\ BootInv /\ [Next]_vars => BootInv'
<1> SUFFICES ASSUME PositionsOK, DataOK, BootInv, [Next]_vars PROVE BootInv'
  OBVIOUS
<1>0. \A t \in {Event, Rpc} : t # Connect /\ t # Retry
  BY DEF Connect, Event, Rpc, Retry
<1>01. DOMAIN want = Threads /\ Connect \in Threads /\ Retry \in Threads /\ Connect # Retry
  BY DEF DataOK, Threads, Connect, Retry
<1>02. /\ pc = [t \in Threads |-> pc[t]]
       /\ pc[Connect] # "done" => pc[Retry] = "idle"
       /\ Event \in {Event, Rpc} /\ Rpc \in {Event, Rpc}
  BY DEF PositionsOK
<1> USE DEF BootInv, Goto, envVars, uxVars
<1>1. CASE MfrStarts
  BY <1>1, <1>0, <1>01, <1>02 DEF MfrStarts
<1>2. ASSUME NEW s \in States, PowerChanges(s)
      PROVE  BootInv'
  BY <1>2, <1>0, <1>01, <1>02 DEF PowerChanges
<1>3. CASE GetPowerState
  BY <1>3, <1>0, <1>01, <1>02 DEF GetPowerState
<1>4. CASE ConnectCall
  BY <1>4, <1>0, <1>01, <1>02 DEF ConnectCall, CallMfr
<1>5. CASE AllowRetry
  BY <1>5, <1>0, <1>01, <1>02 DEF AllowRetry
<1>6. CASE SpawnRetry
  BY <1>6, <1>0, <1>01, <1>02 DEF SpawnRetry
<1>7. CASE RetryCheck
  BY <1>7, <1>0, <1>01, <1>02 DEF RetryCheck
<1>8. CASE RetryCall
  BY <1>8, <1>0, <1>01, <1>02 DEF RetryCall, CallMfr
<1>9. CASE HandleEvent
  BY <1>9, <1>0, <1>01, <1>02 DEF HandleEvent, Begin
<1>10. ASSUME NEW s \in States, SetRebootConfig(s)
      PROVE  BootInv'
  BY <1>10, <1>0, <1>01, <1>02 DEF SetRebootConfig, Begin
<1>11. ASSUME NEW t \in {Event, Rpc}, Invalidate(t)
      PROVE  BootInv'
  BY <1>11, <1>0, <1>01, <1>02 DEF Invalidate
<1>12. ASSUME NEW t \in {Event, Rpc}, Call(t)
      PROVE  BootInv'
  <2>1. UNCHANGED <<want, uxVars>> /\ pc'[Connect] = pc[Connect] /\ pc'[Retry] = pc[Retry]
    BY <1>12, <1>0, <1>02 DEF Call
  <2>0. PICK ok \in BOOLEAN :
           /\ CallMfr(t, ok)
           /\ set' = IF ok THEN [pattern |-> want[t], late |-> late[t], by |-> t] ELSE set
    BY <1>12 DEF Call
  <2>2. CASE ok
    <3>1. set'.by = t
      BY <2>0, <2>2
    <3>2. set' # NotSet
      BY <1>0, <3>1 DEF NotSet
    <3>3. QED
      BY <2>1, <3>2
  <2>3. CASE ~ok
    BY <2>0, <2>1, <2>3 DEF CallMfr
  <2>4. QED
    BY <2>2, <2>3
<1>13. CASE UNCHANGED vars
  BY <1>13, <1>0, <1>01, <1>02 DEF vars
<1>14. QED
  BY <1>1, <1>2, <1>3, <1>4, <1>5, <1>6, <1>7, <1>8, <1>9, <1>10, <1>11, <1>12, <1>13
     DEF Next, ConnectNext, RetryNext, Set

(* If nobody else asks for a pattern and MFRMgr answers before the retries are
   used up, the pattern of the boot is in place once the threads are through,
   for any number of retries and whenever MFRMgr starts. *)
THEOREM BootPatternIsSet == Spec => []BootPatternStands
<1>1. Init => BootInv
  BY DEF Init, BootInv, Threads, Connect, Retry
<1>2. IInv /\ BootInv /\ [Next]_vars => BootInv'
  BY BootStep DEF IInv, TypeOK
<1>3. BootInv => BootPatternStands
  BY DEF BootInv, BootPatternStands, Undisturbed
<1>4. QED
  BY <1>1, <1>2, <1>3, Invariance, PTL DEF Spec
=============================================================================
