---------------------------- MODULE SysMgrProofs ----------------------------
(***************************************************************************)
(* Proofs about SysMgr, for every set of callers, every kind of build and  *)
(* every number of events and calls.                                       *)
(*                                                                         *)
(* The table is whole, and holds what the last events brought, only while  *)
(* nobody is between the two stores of an event.  So the inductive         *)
(* invariant says who holds tMutexLock when, what the table is while       *)
(* SYSMgr_Start holds it, and what is true of the other entries while the  *)
(* dispatch thread is half way through one.                                *)
(***************************************************************************)
EXTENDS SysMgr, TLAPS

FieldNames == {"state", "error", "payload"}
Empty      == [id \in AllIds |-> Zero]
Starting   == {"enter", "register", "pref", "defaults"}

(* Who holds tMutexLock. *)
MutexFits ==
    /\ tMutexLock = Dispatch <=> handler \in {"locked", "stored"}
    /\ tMutexLock = Main <=> started \in Starting \ {"enter"}

(* Nothing is called and nothing handled before it is registered, and while
   SYSMgr_Start has the mutex nothing reaches the table. *)
StartIsAlone ==
    /\ started = "enter" => registered = 0 /\ handler = "idle" /\ \A c \in Callers : pc[c] = "idle"
    /\ started \in Starting => systemStates = Empty /\ \A id \in AllIds : handled[id] = NoEvent

EventInv == handler # "idle" => event.n > 0

LockInv == MutexFits /\ StartIsAlone /\ EventInv

-----------------------------------------------------------------------------
HalfStored(id) == handler = "stored" /\ id = event.id

(* Between the two stores of an event its entry has the event's state, and
   all the other entries are those of the last events. *)
TableInv ==
    /\ \A id \in SharedIds : ~HalfStored(id) => FromEvent(id, systemStates[id], handled[id])
    /\ handler = "stored" /\ "state" \in Fields(event.id) =>
          systemStates[event.id]["state"] = Carried(event, "state")

-----------------------------------------------------------------------------
(* The HDCP profile: one call at a time is between its test and its
   announcement, and the file has what it is about to announce. *)
ProfileInv ==
    /\ \A c \in Callers : pc[c] \in {"file", "profile tell"} => hdcp_file_mutex = c
    /\ \A c \in Callers : pc[c] = "profile tell" => profile = arg[c]
    /\ (\A c \in Callers : pc[c] # "profile tell") /\ profileTold # Nothing => profileTold = profile

-----------------------------------------------------------------------------
(* The operators on entries and tables. *)

LEMMA ZeroEntry == Zero \in Entries /\ Empty \in Tables /\ \A f \in FieldNames : Zero[f] = 0
BY DEF Zero, Entries, Tables, Empty, FieldNames

LEMMA FieldsAreNames == \A id : Fields(id) \subseteq FieldNames
BY DEF Fields, FieldNames

LEMMA CarriedType == \A v, f : v.n \in Nat => Carried(v, f) \in Nat
BY DEF Carried, Token

(* Storing an event replaces the given fields and leaves the others. *)
LEMMA StoredEntry ==
    ASSUME NEW e \in Entries, NEW F, event.n \in Nat
    PROVE  /\ Stored(e, F) \in Entries
           /\ \A f \in FieldNames : Stored(e, F)[f] = IF f \in F THEN Carried(event, f) ELSE e[f]
BY CarriedType DEF Stored, Entries, FieldNames

LEMMA StoredTable ==
    ASSUME NEW table \in Tables, NEW F, NEW id \in AllIds, event.n \in Nat
    PROVE  [table EXCEPT ![id] = Stored(@, F)] \in Tables
BY StoredEntry DEF Tables

LEMMA DefaultEntry ==
    [id \in AllIds |-> [Zero EXCEPT !.state = IF id = "HDCP_ENABLED" THEN 1 ELSE 0]] \in Tables
BY DEF Zero, Entries, Tables

(* What a media client reports differs in its three states only. *)
LEMMA ReportedTable ==
    ASSUME NEW table \in Tables, NEW ntp \in BOOLEAN
    PROVE  /\ Reported(table, ntp) \in Tables
           /\ \A id \in AllIds, f \in FieldNames :
                 \/ Reported(table, ntp)[id][f] = table[id][f]
                 \/ /\ MediaClient /\ f = "state"
                    /\ \/ id = "CHANNELMAP" /\ Reported(table, ntp)[id][f] = 2
                       \/ id = "TUNEREADY" /\ Reported(table, ntp)[id][f] = 1
                       \/ id = "TIME_SOURCE" /\ table[id][f] = 0 /\ Reported(table, ntp)[id][f] = 1
BY DEF Reported, Tables, Entries, FieldNames, AllIds

-----------------------------------------------------------------------------
(* Types.  A step disturbs a few parts of TypeOK and leaves the others. *)

LockType    == tMutexLock \in {None, Main, Dispatch}
TableType   == systemStates \in Tables
StartType   == /\ initialized \in BOOLEAN /\ registered \in 0..Len(Registrations)
               /\ started \in {"enter", "register", "pref", "defaults", "failed", "done"}
EventType   == /\ handler \in {"idle", "wait", "locked", "stored"}
               /\ event \in [id : AllIds, n : 0..MaxEvents, blank : BOOLEAN]
               /\ handled \in Latest /\ events \in 0..MaxEvents
PcType      == pc \in [Callers -> {"idle", "serial", "mfr", "serial store", "copy", "profile", "file",
                                   "profile tell", "pref", "pref write", "pref tell"}]
ArgType     == arg \in [Callers -> 0..2] /\ calls \in 0..MaxCalls
MfrType     == answer \in [Callers -> {MfrSerial, 0, Nothing}]
ProfileType == /\ hdcp_file_mutex \in {None} \cup Callers
               /\ profile \in Bit /\ profileTold \in Bit \cup {Nothing}
KeyType     == /\ keyLogStatus \in Bit /\ prevKeyLogStatus \in [Callers -> Bit]
               /\ keyTold \in Bit \cup {Nothing} /\ keySet \in Bit \cup {Nothing}

(* A profile is tested before it is set. *)
ArgFits     == \A c \in Callers : pc[c] \in {"file", "profile tell"} => arg[c] \in Bit

Types == /\ LockType /\ TableType /\ StartType /\ EventType /\ PcType
         /\ ArgType /\ MfrType /\ ProfileType /\ KeyType /\ ArgFits

LEMMA TypesImplyTypeOK == Types => TypeOK
BY DEF TypeOK, Types, LockType, TableType, StartType, EventType, PcType,
       ArgType, MfrType, ProfileType, KeyType

LEMMA InitType == Init => Types
<1> SUFFICES ASSUME Init PROVE Types
  OBVIOUS
<1>1. 0 \in 0..MaxEvents /\ 0 \in 0..MaxCalls /\ 0 \in 0..Len(Registrations)
  BY SysBoundsAssumption DEF Registrations
<1>2. TableType
  BY ZeroEntry DEF Init, Empty, TableType
<1>3. EventType
  BY <1>1 DEF Init, AllIds, NoEvent, Latest, EventType
<1>4. LockType /\ ProfileType /\ KeyType
  BY DEF Init, LockType, ProfileType, KeyType, None, Bit, Nothing
<1>5. StartType /\ PcType
  BY <1>1 DEF Init, StartType, PcType
<1>6. ArgType
  BY <1>1 DEF Init, ArgType
<1>7. MfrType
  BY DEF Init, MfrType
<1>8. ArgFits
  BY DEF Init, ArgFits
<1>9. QED
  BY <1>2, <1>3, <1>4, <1>5, <1>6, <1>7, <1>8 DEF Types

(* Each part depends on its own variables only. *)
LEMMA TypesKept ==
    ASSUME Types
    PROVE  /\ UNCHANGED tMutexLock => LockType'
           /\ UNCHANGED systemStates => TableType'
           /\ UNCHANGED startVars => StartType'
           /\ UNCHANGED eventVars => EventType'
           /\ UNCHANGED pc => PcType'
           /\ UNCHANGED <<arg, calls>> => ArgType'
           /\ UNCHANGED answer => MfrType'
           /\ UNCHANGED hdcpVars => ProfileType'
           /\ UNCHANGED keyVars => KeyType'
           /\ UNCHANGED <<pc, arg>> => ArgFits'
<1>1. UNCHANGED tMutexLock => LockType'
  BY DEF Types, LockType
<1>2. UNCHANGED systemStates => TableType'
  BY DEF Types, TableType
<1>3. UNCHANGED startVars => StartType'
  BY DEF Types, StartType, startVars
<1>4. UNCHANGED eventVars => EventType'
  BY DEF Types, EventType, eventVars
<1>5. UNCHANGED pc => PcType'
  BY DEF Types, PcType
<1>6. UNCHANGED <<arg, calls>> => ArgType'
  BY DEF Types, ArgType
<1>7. UNCHANGED answer => MfrType'
  BY DEF Types, MfrType
<1>8. UNCHANGED hdcpVars => ProfileType'
  BY DEF Types, ProfileType, hdcpVars
<1>9. UNCHANGED keyVars => KeyType'
  BY DEF Types, KeyType, keyVars
<1>10. UNCHANGED <<pc, arg>> => ArgFits'
  BY DEF Types, ArgFits
<1>11. QED
  BY <1>1, <1>2, <1>3, <1>4, <1>5, <1>6, <1>7, <1>8, <1>9, <1>10

LEMMA TypeStep == Types /\ [Next]_vars => Types'
<1> SUFFICES ASSUME Types, [Next]_vars PROVE Types'
  OBVIOUS
<1> USE TypesKept
<1> USE DEF Types, Goto, callVars, startVars, eventVars, hdcpVars, keyVars
<1>1. CASE StartEnter
  BY <1>1, ZeroEntry DEF StartEnter, Empty, Main, LockType, TableType, StartType
<1>2. CASE Register
  BY <1>2 DEF Register, Registrations, StartType
<1>3. CASE StartFails
  BY <1>3 DEF StartFails, None, LockType, StartType
<1>4. CASE StartPref
  BY <1>4 DEF StartPref, Bit, KeyType, StartType
<1>5. CASE StartDefaults
  BY <1>5, DefaultEntry DEF StartDefaults, None, LockType, TableType, StartType
<1>6. ASSUME NEW id \in Ids, NEW blank \in BOOLEAN, EventArrives(id, blank)
      PROVE  Types'
  BY <1>6, SysBoundsAssumption, IdsAssumption DEF EventArrives, EventType
<1>7. CASE EventLock
  BY <1>7 DEF EventLock, Dispatch, LockType, EventType
<1>8. CASE StoreState
  <2>1. event.id \in AllIds /\ event.n \in Nat
    BY SysBoundsAssumption DEF EventType
  <2>2. TableType'
    BY <1>8, <2>1, StoredTable DEF StoreState, TableType
  <2>3. EventType'
    BY <1>8 DEF StoreState, EventType
  <2>4. QED
    BY <1>8, <2>2, <2>3 DEF StoreState
<1>9. CASE StoreRest
  <2>1. event.id \in AllIds /\ event.n \in Nat
    BY SysBoundsAssumption DEF EventType
  <2>2. TableType'
    BY <1>9, <2>1, StoredTable DEF StoreRest, TableType
  <2>3. EventType'
    BY <1>9 DEF StoreRest, Latest, EventType
  <2>4. LockType'
    BY <1>9 DEF StoreRest, LockType
  <2>5. QED
    BY <1>9, <2>2, <2>3, <2>4 DEF StoreRest
<1>10. ASSUME NEW c \in Callers, SerialCheck(c)
      PROVE  Types'
  BY <1>10 DEF SerialCheck, PcType, ArgFits
<1>11. ASSUME NEW c \in Callers, MfrAnswers(c)
      PROVE  Types'
  BY <1>11 DEF MfrAnswers, PcType, ArgFits, MfrType
<1>12. ASSUME NEW c \in Callers, SerialStore(c)
      PROVE  Types'
  <2>1. PcType' /\ ArgFits' /\ MfrType'
    BY <1>12 DEF SerialStore, PcType, ArgFits, MfrType
  <2>2. answer[c] # Nothing => answer[c] \in Nat
    BY DEF MfrType, MfrSerial
  <2>3. TableType'
    BY <1>12, <2>2 DEF SerialStore, TableType, Tables, Entries, AllIds
  <2>4. QED
    BY <1>12, <2>1, <2>3 DEF SerialStore
<1>13. ASSUME NEW c \in Callers, Copy(c)
      PROVE  Types'
  <2>1. PICK ntp \in BOOLEAN : systemStates' = Reported(systemStates, ntp)
    BY <1>13 DEF Copy
  <2>2. TableType'
    BY <2>1, ReportedTable DEF TableType
  <2>3. PcType' /\ ArgFits'
    BY <1>13 DEF Copy, PcType, ArgFits
  <2>4. QED
    BY <1>13, <2>2, <2>3 DEF Copy
<1>14. ASSUME NEW c \in Callers, ProfileCheck(c)
      PROVE  Types'
  BY <1>14 DEF ProfileCheck, PcType, ArgFits, ProfileType, Bit
<1>15. ASSUME NEW c \in Callers, ProfileFile(c)
      PROVE  Types'
  <2>1. PcType' /\ ArgFits'
    BY <1>15 DEF ProfileFile, PcType, ArgFits
  <2>2. pc[c] \in {"file", "profile tell"} => arg[c] \in Bit
    BY DEF ArgFits
  <2>3. ProfileType'
    BY <1>15, <2>2 DEF ProfileFile, ProfileType
  <2>4. QED
    BY <1>15, <2>1, <2>3 DEF ProfileFile
<1>16. ASSUME NEW c \in Callers, ProfileTell(c)
      PROVE  Types'
  <2>1. PcType' /\ ArgFits'
    BY <1>16 DEF ProfileTell, PcType, ArgFits
  <2>2. pc[c] \in {"file", "profile tell"} => arg[c] \in Bit
    BY DEF ArgFits
  <2>3. ProfileType'
    BY <1>16, <2>2 DEF ProfileTell, ProfileType
  <2>4. QED
    BY <1>16, <2>1, <2>3 DEF ProfileTell
<1>17. ASSUME NEW c \in Callers, PrefRead(c)
      PROVE  Types'
  BY <1>17 DEF PrefRead, PcType, ArgFits, KeyType
<1>18. ASSUME NEW c \in Callers, PrefWrite(c)
      PROVE  Types'
  BY <1>18 DEF PrefWrite, PcType, ArgFits, KeyType, ArgType, Bit
<1>19. ASSUME NEW c \in Callers, PrefTell(c)
      PROVE  Types'
  BY <1>19 DEF PrefTell, PcType, ArgFits, KeyType, ArgType, Bit
<1>20. ASSUME NEW c \in Callers, NEW op \in Ops, Call(c, op)
      PROVE  Types'
  <2>1. PcType'
    BY <1>20 DEF Call, FirstStep, PcType
  <2>2. ArgType'
    BY <1>20, SysBoundsAssumption DEF Call, ArgType
  <2>3. ArgFits'
    BY <1>20 DEF Call, FirstStep, PcType, ArgType, ArgFits
  <2>4. QED
    BY <1>20, <2>1, <2>2, <2>3 DEF Call
<1>21. CASE UNCHANGED vars
  BY <1>21 DEF vars
<1>22. QED
  BY <1>1, <1>2, <1>3, <1>4, <1>5, <1>6, <1>7, <1>8, <1>9, <1>10, <1>11, <1>12, <1>13, <1>14, <1>15,
     <1>16, <1>17, <1>18, <1>19, <1>20, <1>21
     DEF Next, Start, Handle, CallStep

(* TypeOK holds in every state of SysMgr. *)
THEOREM TypeCorrectness == Spec => []TypeOK
<1>1. Types /\ [Next]_vars => Types'
  BY TypeStep
<1>2. QED
  BY InitType, <1>1, TypesImplyTypeOK, PTL DEF Spec

-----------------------------------------------------------------------------
(* Who holds the mutex. *)

LEMMA InitLock == Init => LockInv
BY DEF Init, LockInv, MutexFits, StartIsAlone, EventInv, Starting, Empty, None, Main, Dispatch

(* Nothing happens before SYSMgr_Start has registered something. *)
LEMMA RegisteredInTime ==
    ASSUME Types, LockInv, NEW name, IsRegistered(name)
    PROVE  started # "enter"
BY DEF Types, StartType, LockInv, StartIsAlone, IsRegistered

(* Who holds or is about to take the mutex finds SYSMgr_Start ended. *)
LEMMA TableIsFree ==
    ASSUME Types, LockInv,
           \/ handler \in {"locked", "stored"}
           \/ tMutexLock = None /\ \E c \in Callers : pc[c] # "idle"
    PROVE  started \notin Starting
BY DEF Types, LockType, StartType, LockInv, MutexFits, StartIsAlone, Starting, None, Main, Dispatch

LEMMA LockStep == Types /\ LockInv /\ [Next]_vars => LockInv'
<1> SUFFICES ASSUME Types, LockInv, [Next]_vars PROVE LockInv'
  OBVIOUS
<1> USE DEF LockInv, MutexFits, StartIsAlone, EventInv, Starting,
            Goto, startVars, eventVars, callVars
<1>1. CASE StartEnter
  BY <1>1 DEF StartEnter, Empty, None, Main, Dispatch, Types, LockType
<1>2. CASE Register
  BY <1>2 DEF Register, Types, StartType
<1>3. CASE StartFails
  BY <1>3 DEF StartFails, Types, LockType, None, Main, Dispatch
<1>4. CASE StartPref
  BY <1>4 DEF StartPref
<1>5. CASE StartDefaults
  BY <1>5 DEF StartDefaults, Types, LockType, None, Main, Dispatch
<1>6. ASSUME NEW id \in Ids, NEW blank \in BOOLEAN, EventArrives(id, blank)
      PROVE  LockInv'
  BY <1>6, RegisteredInTime DEF EventArrives, Types, EventType
<1>7. CASE EventLock
  BY <1>7 DEF EventLock, None, Main, Dispatch, Types, EventType
<1>8. CASE StoreState
  BY <1>8, TableIsFree DEF StoreState, Types
<1>9. CASE StoreRest
  BY <1>9, TableIsFree DEF StoreRest, None, Main, Dispatch
<1>10. ASSUME NEW c \in Callers, SerialCheck(c)
      PROVE  LockInv'
  BY <1>10 DEF SerialCheck
<1>11. ASSUME NEW c \in Callers, MfrAnswers(c)
      PROVE  LockInv'
  BY <1>11 DEF MfrAnswers
<1>12. ASSUME NEW c \in Callers, SerialStore(c)
      PROVE  LockInv'
  BY <1>12, TableIsFree DEF SerialStore
<1>13. ASSUME NEW c \in Callers, Copy(c)
      PROVE  LockInv'
  BY <1>13, TableIsFree DEF Copy
<1>14. ASSUME NEW c \in Callers, ProfileCheck(c)
      PROVE  LockInv'
  BY <1>14 DEF ProfileCheck
<1>15. ASSUME NEW c \in Callers, ProfileFile(c)
      PROVE  LockInv'
  BY <1>15 DEF ProfileFile
<1>16. ASSUME NEW c \in Callers, ProfileTell(c)
      PROVE  LockInv'
  BY <1>16 DEF ProfileTell
<1>17. ASSUME NEW c \in Callers, PrefRead(c)
      PROVE  LockInv'
  BY <1>17 DEF PrefRead
<1>18. ASSUME NEW c \in Callers, PrefWrite(c)
      PROVE  LockInv'
  BY <1>18 DEF PrefWrite
<1>19. ASSUME NEW c \in Callers, PrefTell(c)
      PROVE  LockInv'
  BY <1>19 DEF PrefTell
<1>20. ASSUME NEW c \in Callers, NEW op \in Ops, Call(c, op)
      PROVE  LockInv'
  BY <1>20, RegisteredInTime DEF Call
<1>21. CASE UNCHANGED vars
  BY <1>21 DEF vars
<1>22. QED
  BY <1>1, <1>2, <1>3, <1>4, <1>5, <1>6, <1>7, <1>8, <1>9, <1>10, <1>11, <1>12, <1>13, <1>14, <1>15,
     <1>16, <1>17, <1>18, <1>19, <1>20, <1>21
     DEF Next, Start, Handle, CallStep

-----------------------------------------------------------------------------
(* The table. *)

LEMMA NothingYet ==
    \A id \in SharedIds :
        /\ FromEvent(id, Zero, NoEvent)
        /\ FromEvent(id, [Zero EXCEPT !.state = IF id = "HDCP_ENABLED" THEN 1 ELSE 0], NoEvent)
BY FieldsAreNames DEF FromEvent, NoEvent, Zero, Token, FieldNames

(* What a media client makes of the entry of an event is still that entry. *)
LEMMA ReportedIsFromEvent ==
    ASSUME NEW table \in Tables, NEW ntp \in BOOLEAN, NEW id \in AllIds,
           NEW v, v.n \in Nat, FromEvent(id, table[id], v)
    PROVE  FromEvent(id, Reported(table, ntp)[id], v)
<1> DEFINE new == Reported(table, ntp)
<1> SUFFICES ASSUME NEW f \in Fields(id)
             PROVE  IF v.n = 0 THEN new[id][f] < Token(0)
                    ELSE new[id][f] = Carried(v, f) \/ Overridden(id, f, new[id][f], v)
  BY DEF FromEvent
<1>1. \/ new[id][f] = table[id][f]
      \/ /\ MediaClient /\ f = "state"
         /\ \/ id = "CHANNELMAP" /\ new[id][f] = 2
            \/ id = "TUNEREADY" /\ new[id][f] = 1
            \/ id = "TIME_SOURCE" /\ table[id][f] = 0 /\ new[id][f] = 1
  BY ReportedTable, FieldsAreNames
<1>2. IF v.n = 0 THEN table[id][f] < Token(0)
      ELSE table[id][f] = Carried(v, f) \/ Overridden(id, f, table[id][f], v)
  BY DEF FromEvent
<1> HIDE DEF new
<1>3. CASE v.n = 0
  BY <1>1, <1>2, <1>3 DEF Token
<1>4. CASE v.n # 0
  BY <1>1, <1>2, <1>4 DEF Overridden
<1>5. QED
  BY <1>3, <1>4

LEMMA InitTable == Init => TableInv
<1> SUFFICES ASSUME Init PROVE TableInv
  OBVIOUS
<1>1. \A id \in SharedIds : systemStates[id] = Zero /\ handled[id] = NoEvent
  BY DEF Init, SharedIds
<1>2. QED
  BY <1>1, NothingYet DEF Init, TableInv

(* What the table depends on. *)
LEMMA TableKept ==
    ASSUME TableInv, UNCHANGED <<systemStates, handler, event, handled>>
    PROVE  TableInv'
BY DEF TableInv, HalfStored, FromEvent, Overridden, Carried, Token

(* While nobody is half way through an entry, all of them are whole. *)
LEMMA TableByEntry ==
    ASSUME handler' # "stored",
           \A id \in SharedIds : FromEvent(id, systemStates'[id], handled'[id])
    PROVE  TableInv'
BY DEF TableInv, FromEvent, Overridden, Carried, Token

(* The table that a call copies has the last event of every id. *)
LEMMA TableIsCopied ==
    ASSUME Types, LockInv, TableInv, NEW c \in Callers, Copy(c)
    PROVE  /\ handler' # "stored"
           /\ \A id \in SharedIds : FromEvent(id, systemStates'[id], handled[id])
           /\ UNCHANGED handled
<1>0. systemStates \in Tables /\ \A id \in AllIds : handled[id].n \in Nat
  BY SysBoundsAssumption DEF Types, TableType, EventType, Latest
<1>1. PICK ntp \in BOOLEAN : systemStates' = Reported(systemStates, ntp)
  BY DEF Copy
<1>2. handler # "stored" /\ UNCHANGED <<handler, handled>>
  BY DEF Copy, eventVars, LockInv, MutexFits, None, Dispatch
<1>3. \A id \in SharedIds : FromEvent(id, systemStates[id], handled[id])
  BY <1>2 DEF TableInv, HalfStored
<1>4. QED
  BY <1>0, <1>1, <1>2, <1>3, ReportedIsFromEvent DEF SharedIds

LEMMA TableStep == Types /\ LockInv /\ TableInv /\ [Next]_vars => TableInv'
<1> SUFFICES ASSUME Types, LockInv, TableInv, [Next]_vars PROVE TableInv'
  OBVIOUS
<1>0. /\ systemStates \in Tables /\ event.id \in AllIds /\ event.n \in Nat
      /\ DOMAIN handled = AllIds /\ \A id \in AllIds : handled[id].n \in Nat
  BY SysBoundsAssumption DEF Types, TableType, EventType, Latest
<1> USE DEF Goto, startVars, eventVars, callVars
<1>1. CASE StartEnter
  <2>1. systemStates' = systemStates
    BY <1>1 DEF StartEnter, LockInv, StartIsAlone, Starting, Empty
  <2>2. QED
    BY <1>1, <2>1, TableKept DEF StartEnter
<1>2. CASE Register
  BY <1>2, TableKept DEF Register
<1>3. CASE StartFails
  BY <1>3, TableKept DEF StartFails
<1>4. CASE StartPref
  BY <1>4, TableKept DEF StartPref
<1>5. CASE StartDefaults
  <2>1. \A id \in SharedIds : FromEvent(id, systemStates'[id], handled'[id])
    BY <1>5, NothingYet DEF StartDefaults, LockInv, StartIsAlone, Starting, SharedIds
  <2>2. handler' # "stored"
    BY <1>5, TableIsFree DEF StartDefaults, Starting
  <2>3. QED
    BY <2>1, <2>2, TableByEntry
<1>6. ASSUME NEW id \in Ids, NEW blank \in BOOLEAN, EventArrives(id, blank)
      PROVE  TableInv'
  BY <1>6, TableByEntry DEF EventArrives, TableInv, HalfStored
<1>7. CASE EventLock
  BY <1>7, TableByEntry DEF EventLock, TableInv, HalfStored
<1>8. CASE StoreState
  <2>1. \A id \in AllIds \ {event.id} : systemStates'[id] = systemStates[id]
    BY <1>8, <1>0 DEF StoreState, Tables
  <2>2. "state" \in Fields(event.id) => systemStates'[event.id]["state"] = Carried(event, "state")
    BY <1>8, <1>0, StoredEntry DEF StoreState, Tables, FieldNames
  <2>3. handler # "stored" /\ UNCHANGED <<event, handled>>
    BY <1>8 DEF StoreState
  <2>4. \A id \in SharedIds \ {event.id} : FromEvent(id, systemStates'[id], handled'[id])
    BY <2>1, <2>3 DEF TableInv, HalfStored, SharedIds
  <2>5. QED
    BY <1>8, <2>2, <2>3, <2>4
       DEF StoreState, TableInv, HalfStored, FromEvent, Overridden, Carried, Token
<1>9. CASE StoreRest
  <2>1. \A id \in AllIds \ {event.id} : systemStates'[id] = systemStates[id] /\ handled'[id] = handled[id]
    BY <1>9, <1>0 DEF StoreRest, Tables
  <2>2. handled'[event.id] = [n |-> event.n, blank |-> event.blank] /\ handler' # "stored"
    BY <1>9, <1>0 DEF StoreRest
  <2>3. \A f : Carried(handled'[event.id], f) = Carried(event, f)
    BY <2>2 DEF Carried
  <2>4. event.n # 0
    BY <1>9 DEF StoreRest, LockInv, EventInv
  <2>5. FromEvent(event.id, systemStates'[event.id], handled'[event.id])
    <3> SUFFICES ASSUME NEW f \in Fields(event.id)
                 PROVE  systemStates'[event.id][f] = Carried(event, f)
      BY <2>2, <2>3, <2>4 DEF FromEvent
    <3>1. systemStates'[event.id] = Stored(systemStates[event.id], Fields(event.id) \ {"state"})
      BY <1>9, <1>0 DEF StoreRest, Tables
    <3>2. systemStates[event.id] \in Entries /\ f \in FieldNames
      BY <1>0, FieldsAreNames DEF Tables
    <3>3. f = "state" => systemStates[event.id][f] = Carried(event, f)
      BY <1>9 DEF StoreRest, TableInv
    <3>4. QED
      BY <3>1, <3>2, <3>3, <1>0, StoredEntry
  <2>6. \A id \in SharedIds : FromEvent(id, systemStates'[id], handled'[id])
    BY <1>9, <2>1, <2>5 DEF StoreRest, TableInv, HalfStored, SharedIds
  <2>7. QED
    BY <2>2, <2>6, TableByEntry
<1>10. ASSUME NEW c \in Callers, SerialCheck(c)
      PROVE  TableInv'
  BY <1>10, TableKept DEF SerialCheck
<1>11. ASSUME NEW c \in Callers, MfrAnswers(c)
      PROVE  TableInv'
  BY <1>11, TableKept DEF MfrAnswers
<1>12. ASSUME NEW c \in Callers, SerialStore(c)
      PROVE  TableInv'
  <2>1. \A id \in SharedIds : systemStates'[id] = systemStates[id]
    BY <1>12, <1>0 DEF SerialStore, Tables, SharedIds
  <2>2. handler # "stored" /\ UNCHANGED <<handler, handled>>
    BY <1>12 DEF SerialStore, LockInv, MutexFits, None, Dispatch
  <2>3. QED
    BY <2>1, <2>2, TableByEntry DEF TableInv, HalfStored
<1>13. ASSUME NEW c \in Callers, Copy(c)
      PROVE  TableInv'
  BY <1>13, <1>0, TableIsCopied, TableByEntry
<1>14. ASSUME NEW c \in Callers, ProfileCheck(c)
      PROVE  TableInv'
  BY <1>14, TableKept DEF ProfileCheck
<1>15. ASSUME NEW c \in Callers, ProfileFile(c)
      PROVE  TableInv'
  BY <1>15, TableKept DEF ProfileFile
<1>16. ASSUME NEW c \in Callers, ProfileTell(c)
      PROVE  TableInv'
  BY <1>16, TableKept DEF ProfileTell
<1>17. ASSUME NEW c \in Callers, PrefRead(c)
      PROVE  TableInv'
  BY <1>17, TableKept DEF PrefRead
<1>18. ASSUME NEW c \in Callers, PrefWrite(c)
      PROVE  TableInv'
  BY <1>18, TableKept DEF PrefWrite
<1>19. ASSUME NEW c \in Callers, PrefTell(c)
      PROVE  TableInv'
  BY <1>19, TableKept DEF PrefTell
<1>20. ASSUME NEW c \in Callers, NEW op \in Ops, Call(c, op)
      PROVE  TableInv'
  BY <1>20, TableKept DEF Call
<1>21. CASE UNCHANGED vars
  BY <1>21, TableKept DEF vars
<1>22. QED
  BY <1>1, <1>2, <1>3, <1>4, <1>5, <1>6, <1>7, <1>8, <1>9, <1>10, <1>11, <1>12, <1>13, <1>14, <1>15,
     <1>16, <1>17, <1>18, <1>19, <1>20, <1>21
     DEF Next, Start, Handle, CallStep

LEMMA TableInvariance == Spec => [](Types /\ LockInv /\ TableInv)
<1>1. Init => Types /\ LockInv /\ TableInv
  BY InitType, InitLock, InitTable
<1>2. Types /\ LockInv /\ TableInv /\ [Next]_vars => (Types /\ LockInv /\ TableInv)'
  BY TypeStep, LockStep, TableStep
<1>3. QED
  BY <1>1, <1>2, PTL DEF Spec

(* Only the last step of _GetSystemStates ends such a call. *)
LEMMA ReplyIsCopy ==
    ASSUME Types, [Next]_vars, NEW c \in Callers, Replies(c)
    PROVE  Copy(c)
<1> USE DEF Replies, Types, PcType, Goto, callVars
<1>1. CASE Start \/ Handle \/ UNCHANGED vars
  BY <1>1 DEF Start, Handle, vars, StartEnter, Register, StartFails, StartPref, StartDefaults,
              EventLock, StoreState, StoreRest
<1>2. CASE \E id \in Ids, blank \in BOOLEAN : EventArrives(id, blank)
  BY <1>2 DEF EventArrives
<1>3. ASSUME NEW d \in Callers, CallStep(d)
      PROVE  Copy(c)
  BY <1>3 DEF CallStep, SerialCheck, MfrAnswers, SerialStore, Copy, ProfileCheck, ProfileFile, ProfileTell,
              PrefRead, PrefWrite, PrefTell
<1>4. ASSUME NEW d \in Callers, NEW op \in Ops, Call(d, op)
      PROVE  Copy(c)
  BY <1>4 DEF Call, FirstStep
<1>5. QED
  BY <1>1, <1>2, <1>3, <1>4 DEF Next

(* Each entry of a reply of _GetSystemStates is the last event of its id that
   was handled before, whatever calls and events overlap. *)
THEOREM WholeReplies == Spec => RepliesAreWhole
<1>1. Types /\ LockInv /\ TableInv /\ [Next]_vars =>
         [\A c \in Callers : Replies(c) => \A id \in SharedIds : FromEvent(id, systemStates'[id], handled[id])]_vars
  BY ReplyIsCopy, TableIsCopied
<1>2. QED
  BY <1>1, TableInvariance, PTL DEF Spec, RepliesAreWhole

(* The table keeps what the last event of each id brought; the defaults of
   SYSMgr_Start do not wipe it out. *)
THEOREM NoLostUpdates == Spec => []UpdatesStick
<1>1. LockInv /\ TableInv => UpdatesStick
  BY DEF LockInv, MutexFits, TableInv, HalfStored, UpdatesStick, None, Dispatch
<1>2. QED
  BY <1>1, TableInvariance, PTL

(* A serial number that is known is lost only to an empty event or an empty
   answer of MFRMgr; SYSMgr_Start clears the table when it is empty. *)
THEOREM SerialNumberStays == Spec => SerialNumberIsKept
<1> DEFINE Kept ==
      Known(systemStates) /\ ~Known(systemStates') =>
          \/ handler = "stored" /\ event.id = "STB_SERIAL_NO" /\ event.blank
          \/ \E c \in Callers : pc[c] = "serial store" /\ pc'[c] = "copy" /\ answer[c] = 0
<1>1. ASSUME Types, LockInv, [Next]_vars
      PROVE  Kept \/ UNCHANGED vars
  <2>0. /\ systemStates \in Tables /\ event.id \in AllIds /\ event.n \in Nat
        /\ "STB_SERIAL_NO" \in AllIds
    BY <1>1, SysBoundsAssumption DEF Types, TableType, EventType, AllIds
  <2> USE DEF Known
  <2>1. CASE StartEnter
    BY <2>1, <1>1, <2>0 DEF StartEnter, LockInv, StartIsAlone, Starting, Empty, Zero
  <2>2. CASE Register
    BY <2>2 DEF Register
  <2>3. CASE StartFails
    BY <2>3 DEF StartFails
  <2>4. CASE StartPref
    BY <2>4 DEF StartPref
  <2>5. CASE StartDefaults
    BY <2>5, <1>1, <2>0 DEF StartDefaults, LockInv, StartIsAlone, Starting, Empty, Zero
  <2>6. ASSUME NEW id \in Ids, NEW blank \in BOOLEAN, EventArrives(id, blank)
        PROVE  Kept
    BY <2>6 DEF EventArrives
  <2>7. CASE EventLock
    BY <2>7 DEF EventLock
  <2>8. CASE StoreState
    <3>1. systemStates'["STB_SERIAL_NO"]["payload"] = systemStates["STB_SERIAL_NO"]["payload"]
      BY <2>8, <2>0, StoredEntry DEF StoreState, Tables, FieldNames
    <3>2. QED
      BY <3>1
  <2>9. CASE StoreRest
    <3>1. event.id # "STB_SERIAL_NO" => Kept
      BY <2>9, <2>0 DEF StoreRest, Tables
    <3>2. event.id = "STB_SERIAL_NO" /\ ~event.blank => Known(systemStates')
      BY <2>9, <2>0, StoredEntry DEF StoreRest, Tables, FieldNames, Fields, Carried, Token
    <3>3. QED
      BY <2>9, <3>1, <3>2 DEF StoreRest
  <2>10. ASSUME NEW c \in Callers, SerialCheck(c)
        PROVE  Kept
    BY <2>10 DEF SerialCheck
  <2>11. ASSUME NEW c \in Callers, MfrAnswers(c)
        PROVE  Kept
    BY <2>11 DEF MfrAnswers
  <2>12. ASSUME NEW c \in Callers, SerialStore(c)
        PROVE  Kept
    <3>1. systemStates["STB_SERIAL_NO"] \in Entries
      BY <2>0 DEF Tables
    <3>2. /\ pc[c] = "serial store" /\ pc'[c] = "copy"
          /\ systemStates'["STB_SERIAL_NO"]["payload"]
                = IF answer[c] # Nothing THEN answer[c] ELSE systemStates["STB_SERIAL_NO"]["payload"]
      BY <1>1, <2>12, <2>0, <3>1 DEF SerialStore, Goto, Types, PcType, Tables, Entries
    <3>3. QED
      BY <3>2
  <2>13. ASSUME NEW c \in Callers, Copy(c)
        PROVE  Kept
    <3>1. systemStates'["STB_SERIAL_NO"]["payload"] = systemStates["STB_SERIAL_NO"]["payload"]
      BY <2>13, <2>0, ReportedTable DEF Copy, FieldNames
    <3>2. QED
      BY <3>1
  <2>14. ASSUME NEW c \in Callers, ProfileCheck(c)
        PROVE  Kept
    BY <2>14 DEF ProfileCheck
  <2>15. ASSUME NEW c \in Callers, ProfileFile(c)
        PROVE  Kept
    BY <2>15 DEF ProfileFile
  <2>16. ASSUME NEW c \in Callers, ProfileTell(c)
        PROVE  Kept
    BY <2>16 DEF ProfileTell
  <2>17. ASSUME NEW c \in Callers, PrefRead(c)
        PROVE  Kept
    BY <2>17 DEF PrefRead
  <2>18. ASSUME NEW c \in Callers, PrefWrite(c)
        PROVE  Kept
    BY <2>18 DEF PrefWrite
  <2>19. ASSUME NEW c \in Callers, PrefTell(c)
        PROVE  Kept
    BY <2>19 DEF PrefTell
  <2>20. ASSUME NEW c \in Callers, NEW op \in Ops, Call(c, op)
        PROVE  Kept
    BY <2>20 DEF Call
  <2>21. CASE UNCHANGED vars
    BY <2>21 DEF vars
  <2>22. QED
    BY <1>1, <2>1, <2>2, <2>3, <2>4, <2>5, <2>6, <2>7, <2>8, <2>9, <2>10, <2>11, <2>12, <2>13,
       <2>14, <2>15, <2>16, <2>17, <2>18, <2>19, <2>20, <2>21
       DEF Next, Start, Handle, CallStep, vars
<1>2. QED
  BY <1>1, TableInvariance, PTL DEF Spec, SerialNumberIsKept

-----------------------------------------------------------------------------
(* The HDCP profile. *)

LEMMA InitProfile == Init => ProfileInv
BY DEF Init, ProfileInv

LEMMA ProfileStep ==
    ASSUME SetMayFail = FALSE, Types, ProfileInv, [Next]_vars
    PROVE  ProfileInv'
<1> USE DEF ProfileInv, Types, PcType, ArgType, ProfileType, Goto, hdcpVars, callVars
<1>1. CASE StartEnter
  BY <1>1 DEF StartEnter
<1>2. CASE Register
  BY <1>2 DEF Register
<1>3. CASE StartFails
  BY <1>3 DEF StartFails
<1>4. CASE StartPref
  BY <1>4 DEF StartPref
<1>5. CASE StartDefaults
  BY <1>5 DEF StartDefaults
<1>6. ASSUME NEW id \in Ids, NEW blank \in BOOLEAN, EventArrives(id, blank)
      PROVE  ProfileInv'
  BY <1>6 DEF EventArrives
<1>7. CASE EventLock
  BY <1>7 DEF EventLock
<1>8. CASE StoreState
  BY <1>8 DEF StoreState
<1>9. CASE StoreRest
  BY <1>9 DEF StoreRest
<1>10. ASSUME NEW c \in Callers, SerialCheck(c)
      PROVE  ProfileInv'
  BY <1>10 DEF SerialCheck
<1>11. ASSUME NEW c \in Callers, MfrAnswers(c)
      PROVE  ProfileInv'
  BY <1>11 DEF MfrAnswers
<1>12. ASSUME NEW c \in Callers, SerialStore(c)
      PROVE  ProfileInv'
  BY <1>12 DEF SerialStore
<1>13. ASSUME NEW c \in Callers, Copy(c)
      PROVE  ProfileInv'
  BY <1>13 DEF Copy
<1>14. ASSUME NEW c \in Callers, ProfileCheck(c)
      PROVE  ProfileInv'
  BY <1>14, CallersAssumption DEF ProfileCheck, None
<1>15. ASSUME NEW c \in Callers, ProfileFile(c)
      PROVE  ProfileInv'
  BY <1>15 DEF ProfileFile
<1>16. ASSUME NEW c \in Callers, ProfileTell(c)
      PROVE  ProfileInv'
  BY <1>16 DEF ProfileTell
<1>17. ASSUME NEW c \in Callers, PrefRead(c)
      PROVE  ProfileInv'
  BY <1>17 DEF PrefRead
<1>18. ASSUME NEW c \in Callers, PrefWrite(c)
      PROVE  ProfileInv'
  BY <1>18 DEF PrefWrite
<1>19. ASSUME NEW c \in Callers, PrefTell(c)
      PROVE  ProfileInv'
  BY <1>19 DEF PrefTell
<1>20. ASSUME NEW c \in Callers, NEW op \in Ops, Call(c, op)
      PROVE  ProfileInv'
  BY <1>20 DEF Call, FirstStep
<1>21. CASE UNCHANGED vars
  BY <1>21 DEF vars
<1>22. QED
  BY <1>1, <1>2, <1>3, <1>4, <1>5, <1>6, <1>7, <1>8, <1>9, <1>10, <1>11, <1>12, <1>13, <1>14, <1>15,
     <1>16, <1>17, <1>18, <1>19, <1>20, <1>21
     DEF Next, Start, Handle, CallStep

(* If the file and the broadcast do not fail, the profile announced last is
   the one of the file whenever no call is between the two. *)
THEOREM ProfileIsTold ==
    ASSUME SetMayFail = FALSE
    PROVE  Spec => []ProfileToldIsTheFile
<1>1. Types /\ ProfileInv /\ [Next]_vars => (Types /\ ProfileInv)'
  BY ProfileStep, TypeStep
<1>2. ProfileInv => ProfileToldIsTheFile
  BY DEF ProfileInv, ProfileToldIsTheFile
<1>3. QED
  BY <1>1, <1>2, InitType, InitProfile, PTL DEF Spec
=============================================================================
