------------------------- MODULE DeviceUpdateProofs -------------------------
(***************************************************************************)
(* Proofs about DeviceUpdate, for every set of proxies and folders, every  *)
(* configuration file and every number of days.                            *)
(*                                                                         *)
(* A proxy waits, for a download or a load to be started, while the event  *)
(* that tells the daemon so is under way, so the invariants relate where a *)
(* proxy is to the events in its queue.  That the event is not thrown away *)
(* rests on the session being in updatesInProgress.  The record of a       *)
(* session is what the events that are handled said, so it is true if the  *)
(* events of a proxy are, and if the last one on the download comes last.  *)
(***************************************************************************)
EXTENDS DeviceUpdate, TLAPS

Flags == {"interactiveDownload", "interactiveLoad"}

MainType    == /\ main \in {"start", "load", "run", "scan", "gone"} /\ step \in 0..Len(StartSteps)
               /\ main = "start" => step < Len(StartSteps)
DayType     == announced \subseteq Proxies /\ day \in 1..MonthDays
AcceptType  == /\ mapMutex \in Proxies \cup {Free}
               /\ accept \in [Proxies -> {Idle, "read", "copied", "insert", "returned"}]
SessionType == /\ nextID \in Nat
               /\ session \in [Proxies -> Sessions]
UpdateType  == /\ DOMAIN updatesInProgress \subseteq Nat
               /\ updatesInProgress \in [DOMAIN updatesInProgress -> Updates]
ProxyType   == st \in [Proxies -> Places] /\ unheard \subseteq Proxies
EventType   == events \in [Proxies -> Seq(Events)]
ConfigType  == \A k \in Flags : /\ k \in DOMAIN file => file[k] \in BOOLEAN
                                /\ k \in DOMAIN config /\ config[k] \in BOOLEAN

Types == /\ MainType /\ DayType /\ AcceptType /\ SessionType /\ UpdateType
         /\ ProxyType /\ EventType /\ ConfigType

-----------------------------------------------------------------------------
(* Nothing is announced before the configuration is loaded, a proxy is at
   work once its call has returned, and then the daemon knows its session. *)
Settled(p) == accept[p] \in {"copied", "insert", "returned"}

AcceptInv ==
    /\ main \in {"start", "load", "gone"} =>
          announced = {} /\ \A p \in Proxies : accept[p] = Idle
    /\ \A p \in Proxies :
          /\ st[p] = Idle <=> accept[p] # "returned"
          /\ st[p] = Idle => events[p] = <<>>
          /\ accept[p] = "returned" => session[p].id \in DOMAIN updatesInProgress
          /\ Settled(p) => /\ session[p].interactiveDownload = config.interactiveDownload
                           /\ session[p].interactiveLoad = config.interactiveLoad

-----------------------------------------------------------------------------
IsReady(e) == e.kind = "READY_TO_DOWNLOAD"
IsDone(e)  == e.kind = "DOWNLOAD_STATUS" /\ IsDownloaded(e.value)
IsPart(e)  == e.kind = "DOWNLOAD_STATUS" /\ ~IsDownloaded(e.value)
IsEnd(e)   == e.kind = "LOAD_STATUS" /\ IsLoaded(e.value)

ReadyPending(p) == \E i \in 1..Len(events[p]) : IsReady(events[p][i])
DonePending(p)  == \E i \in 1..Len(events[p]) : IsDone(events[p][i])

(* A proxy that waits for the daemon waits for an event under way, but for
   those whose broadcast failed. *)
WaitInv ==
    \A p \in Proxies : p \notin unheard =>
        /\ st[p] = "ready" /\ ~config.interactiveDownload => ReadyPending(p)
        /\ st[p] = "downloaded" /\ ~config.interactiveLoad => DonePending(p)

-----------------------------------------------------------------------------
(* The operators. *)

LEMMA QueueTail ==
    ASSUME NEW S, NEW s \in Seq(S), s # <<>>
    PROVE  /\ Tail(s) \in Seq(S) /\ Len(s) >= 1 /\ Head(s) = s[1]
           /\ Len(Tail(s)) = Len(s) - 1
           /\ \A i \in 1..Len(Tail(s)) : Tail(s)[i] = s[i + 1]
OBVIOUS

LEMMA QueueAppend ==
    ASSUME NEW S, NEW s \in Seq(S), NEW e \in S
    PROVE  /\ Append(s, e) \in Seq(S) /\ Len(s) \in Nat
           /\ Len(Append(s, e)) = Len(s) + 1
           /\ \A i \in 1..Len(s) : Append(s, e)[i] = s[i]
           /\ Append(s, e)[Len(s) + 1] = e
OBVIOUS

(* What a proxy does by itself: it tells of each place that it waits in, and
   it is where the event says. *)
Honest(from, to, e) ==
    /\ from \notin {"ready", "downloaded", "updated", "failed"}
    /\ to = "ready" => IsReady(e)
    /\ IsDone(e) <=> to = "downloaded"
    /\ IsPart(e) => to \notin HasImage
    /\ IsEnd(e) => to = "updated"
    /\ e.kind = "ERROR" => to = "failed"
    /\ from \in HasImage => to \in HasImage \cup {"failed"}
    /\ to \in HasImage /\ from \notin HasImage => to = "downloaded"

LEMMA ProxyMoves ==
    ASSUME NEW p \in Proxies, ProxyStep(p) \/ ProxyFails(p)
    PROVE  \E from, to \in Places \ {Idle}, e \in Events :
              Sends(p, from, to, e.kind, e.value) /\ Honest(from, to, e)
<1> DEFINE E(kind, value) == [kind |-> kind, value |-> value]
<1>1. \A kind \in Kinds, value \in {0, 1, 100} :
         E(kind, value) \in Events /\ E(kind, value).kind = kind /\ E(kind, value).value = value
  BY DEF Events
<1> USE DEF Places, Kinds, Idle, HasImage, Honest, IsReady, IsDone, IsPart, IsEnd
<1>2. /\ Honest("accepted", "ready", E("READY_TO_DOWNLOAD", 0))
      /\ Honest("downloading", "halfway", E("DOWNLOAD_STATUS", 0))
      /\ Honest("halfway", "downloaded", E("DOWNLOAD_STATUS", 100))
      /\ Honest("toload", "loading", E("LOAD_STATUS", 0))
      /\ Honest("loading", "updated", E("LOAD_STATUS", 1))
      /\ \A from \in {"downloading", "halfway", "toload", "loading"} :
            Honest(from, "failed", E("ERROR", 0))
  BY DEF IsDownloaded, IsLoaded
<1> HIDE DEF E, Honest, IsReady, IsDone, IsPart, IsEnd
<1>3. ASSUME NEW from \in Places \ {Idle}, NEW to \in Places \ {Idle},
             NEW kind \in Kinds, NEW value \in {0, 1, 100},
             Sends(p, from, to, kind, value), Honest(from, to, E(kind, value))
      PROVE  \E f, t \in Places \ {Idle}, e \in Events :
                Sends(p, f, t, e.kind, e.value) /\ Honest(f, t, e)
  BY <1>1, <1>3
<1>4. CASE Sends(p, "accepted", "ready", "READY_TO_DOWNLOAD", 0)
  BY <1>2, <1>3, <1>4
<1>5. CASE Sends(p, "downloading", "halfway", "DOWNLOAD_STATUS", 0)
  BY <1>2, <1>3, <1>5
<1>6. CASE Sends(p, "halfway", "downloaded", "DOWNLOAD_STATUS", 100)
  BY <1>2, <1>3, <1>6
<1>7. CASE Sends(p, "toload", "loading", "LOAD_STATUS", 0)
  BY <1>2, <1>3, <1>7
<1>8. CASE Sends(p, "loading", "updated", "LOAD_STATUS", 1)
  BY <1>2, <1>3, <1>8
<1>9. CASE \E from \in {"downloading", "halfway", "toload", "loading"} :
              Sends(p, from, "failed", "ERROR", 0)
  BY <1>2, <1>3, <1>9
<1>10. QED
  BY <1>4, <1>5, <1>6, <1>7, <1>8, <1>9 DEF ProxyStep, ProxyFails

-----------------------------------------------------------------------------
(* Types. *)

LEMMA InitType == Init => Types
<1> SUFFICES ASSUME Init PROVE Types
  OBVIOUS
<1>1. MainType
  BY DEF Init, MainType, Booted, StartSteps
<1>2. DayType /\ AcceptType
  BY DEF Init, DayType, AcceptType, Booted
<1>3. SessionType
  BY DEF Init, SessionType, Booted, NoSession, Sessions
<1>4. ProxyType /\ EventType /\ UpdateType
  BY DEF Init, ProxyType, EventType, UpdateType, Places, Booted
<1>5. ConfigType
  <2>1. PICK f \in WholeFiles, n \in Cuts : file = parse(f, n)
    BY DEF Init
  <2>2. \A k \in Flags : f[k] \in BOOLEAN
    BY FileAssumption DEF WholeFiles, Flags
  <2>3. \A k \in DOMAIN file : file[k] = f[k]
    BY <2>1 DEF parse
  <2>4. \A k \in Flags : k \in DOMAIN config /\ config[k] = FALSE
    BY DEF Init, Booted, Defaults, Flags
  <2>5. QED
    BY <2>2, <2>3, <2>4 DEF ConfigType
<1>6. QED
  BY <1>1, <1>2, <1>3, <1>4, <1>5 DEF Types

(* Each part depends on its own variables only. *)
LEMMA TypesKept ==
    ASSUME Types
    PROVE  /\ UNCHANGED <<main, step>> => MainType'
           /\ UNCHANGED <<announced, day>> => DayType'
           /\ UNCHANGED <<mapMutex, accept>> => AcceptType'
           /\ UNCHANGED <<nextID, session>> => SessionType'
           /\ UNCHANGED updatesInProgress => UpdateType'
           /\ UNCHANGED <<st, unheard>> => ProxyType'
           /\ UNCHANGED events => EventType'
           /\ UNCHANGED <<file, config>> => ConfigType'
<1>1. UNCHANGED <<main, step>> => MainType'
  BY DEF Types, MainType
<1>2. UNCHANGED <<announced, day>> => DayType'
  BY DEF Types, DayType
<1>3. UNCHANGED <<mapMutex, accept>> => AcceptType'
  BY DEF Types, AcceptType
<1>4. UNCHANGED <<nextID, session>> => SessionType'
  BY DEF Types, SessionType
<1>5. UNCHANGED <<st, unheard>> => ProxyType'
  BY DEF Types, ProxyType
<1>6. UNCHANGED events => EventType'
  BY DEF Types, EventType
<1>7. UNCHANGED <<file, config>> => ConfigType'
  BY DEF Types, ConfigType
<1>8. UNCHANGED updatesInProgress => UpdateType'
  BY DEF Types, UpdateType
<1>9. QED
  BY <1>1, <1>2, <1>3, <1>4, <1>5, <1>6, <1>7, <1>8

(* A broadcast moves the proxies that wait for it, or is not heard by them. *)
LEMMA TellType ==
    ASSUME Types, NEW waiting \in SUBSET Proxies, NEW to \in Places, Tell(waiting, to)
    PROVE  ProxyType'
BY DEF Types, ProxyType, Tell

(* New entries and new values leave a map of updates. *)
LEMMA UpdatesTyped ==
    ASSUME UpdateType
    PROVE  /\ \A id \in Nat : updatesInProgress' = Over(updatesInProgress, [i \in {id} |-> NewUpdate])
                => UpdateType'
           /\ \A id \in Nat, v \in Nat :
                 updatesInProgress' = [updatesInProgress EXCEPT ![id].percent = v] => UpdateType'
           /\ \A id \in Nat, v \in BOOLEAN :
                 /\ updatesInProgress' = [updatesInProgress EXCEPT ![id].loadComplete = v] => UpdateType'
                 /\ updatesInProgress' = [updatesInProgress EXCEPT ![id].error = v] => UpdateType'
<1>1. ASSUME NEW id \in Nat, updatesInProgress' = Over(updatesInProgress, [i \in {id} |-> NewUpdate])
      PROVE  UpdateType'
  <2>1. NewUpdate \in Updates
    BY DEF NewUpdate, Updates
  <2>2. DOMAIN updatesInProgress' = DOMAIN updatesInProgress \cup {id}
    BY <1>1 DEF Over
  <2>3. \A k \in DOMAIN updatesInProgress' : updatesInProgress'[k] \in Updates
    BY <1>1, <2>1, <2>2 DEF Over, UpdateType
  <2>4. updatesInProgress' = [k \in DOMAIN updatesInProgress' |-> updatesInProgress'[k]]
    BY <1>1 DEF Over
  <2>5. QED
    BY <2>2, <2>3, <2>4 DEF UpdateType
<1>2. ASSUME NEW id \in Nat, NEW v \in Nat,
             updatesInProgress' = [updatesInProgress EXCEPT ![id].percent = v]
      PROVE  UpdateType'
  BY <1>2 DEF UpdateType, Updates
<1>3. ASSUME NEW id \in Nat, NEW v \in BOOLEAN,
             updatesInProgress' = [updatesInProgress EXCEPT ![id].loadComplete = v]
      PROVE  UpdateType'
  BY <1>3 DEF UpdateType, Updates
<1>4. ASSUME NEW id \in Nat, NEW v \in BOOLEAN,
             updatesInProgress' = [updatesInProgress EXCEPT ![id].error = v]
      PROVE  UpdateType'
  BY <1>4 DEF UpdateType, Updates
<1>5. QED
  BY <1>1, <1>2, <1>3, <1>4

(* Taking an event leaves a queue of events. *)
LEMMA TookType ==
    ASSUME Types, NEW p \in Proxies, events[p] # <<>>, Took(p)
    PROVE  EventType'
BY QueueTail DEF Types, EventType, Took

LEMMA TypeStep == Types /\ [Next]_vars => Types'
<1> SUFFICES ASSUME Types, [Next]_vars PROVE Types'
  OBVIOUS
<1>01. \A p \in Proxies : /\ session[p].id \in Nat
                          /\ events[p] # <<>> => Head(events[p]).value \in Nat
  <2>1. ASSUME NEW p \in Proxies, events[p] # <<>>
        PROVE  Head(events[p]) \in Events
    BY <2>1 DEF Types, EventType
  <2>2. QED
    BY <2>1 DEF Types, SessionType, Sessions, Events
<1> USE TypesKept
<1> USE DEF Types, mainVars, sessionVars, proxyVars
<1>1. CASE StartStep
  BY <1>1 DEF StartStep, MainType, StartSteps
<1>2. CASE StartFails
  BY <1>2 DEF StartFails, MainType
<1>3. CASE LoadConfig
  <2>1. MainType'
    BY <1>3 DEF LoadConfig, MainType
  <2>2. ConfigType'
    <3>1. \A k \in DOMAIN config :
             k \in DOMAIN config' /\ config'[k] = IF k \in DOMAIN file THEN file[k] ELSE config[k]
      BY <1>3 DEF LoadConfig, Over
    <3>2. UNCHANGED file
      BY <1>3 DEF LoadConfig
    <3>3. QED
      BY <3>1, <3>2 DEF ConfigType
  <2>3. QED
    BY <1>3, <2>1, <2>2 DEF LoadConfig
<1>4. CASE Tick
  BY <1>4 DEF Tick, MainType
<1>5. CASE ScanFolder
  BY <1>5, FoldersAssumption DEF ScanFolder, DayType, IsImage
<1>6. CASE ScanDone
  BY <1>6 DEF ScanDone, MainType
<1>7. CASE Reboot
  <2>1. MainType'
    BY <1>7 DEF Reboot, MainType, Booted, StartSteps
  <2>2. DayType'
    BY <1>7, TimeAssumption DEF Reboot, DayType, Booted
  <2>3. AcceptType' /\ ProxyType' /\ EventType' /\ UpdateType'
    BY <1>7 DEF Reboot, AcceptType, ProxyType, EventType, UpdateType, Places, Booted
  <2>4. SessionType'
    BY <1>7 DEF Reboot, SessionType, Booted, NoSession, Sessions
  <2>5. ConfigType'
    <3>1. \A k \in Flags : k \in DOMAIN config' /\ config'[k] = FALSE
      BY <1>7 DEF Reboot, Booted, Defaults, Flags
    <3>2. UNCHANGED file
      BY <1>7 DEF Reboot
    <3>3. QED
      BY <3>1, <3>2 DEF ConfigType
  <2>6. QED
    BY <1>7, <2>1, <2>2, <2>3, <2>4, <2>5
<1>8. ASSUME NEW p \in Proxies, AcceptReadsId(p)
      PROVE  Types'
  BY <1>8 DEF AcceptReadsId, AcceptType, SessionType, Sessions
<1>9. ASSUME NEW p \in Proxies, AcceptWritesId(p)
      PROVE  Types'
  <2>1. AcceptType'
    BY <1>9 DEF AcceptWritesId, AcceptType
  <2>2. config.interactiveDownload \in BOOLEAN /\ config.interactiveLoad \in BOOLEAN
    BY DEF ConfigType, Flags
  <2>3. SessionType'
    <3>1. session'[p] = [id |-> session[p].id, interactiveDownload |-> config.interactiveDownload,
                         interactiveLoad |-> config.interactiveLoad]
      BY <1>9 DEF AcceptWritesId, SessionType, Sessions
    <3>2. session' = [session EXCEPT ![p] = session'[p]]
      BY <1>9 DEF AcceptWritesId, SessionType
    <3>3. QED
      BY <1>9, <2>2, <3>1, <3>2 DEF AcceptWritesId, SessionType, Sessions
  <2>4. QED
    BY <1>9, <2>1, <2>3 DEF AcceptWritesId
<1>10. ASSUME NEW p \in Proxies, AcceptLocks(p)
      PROVE  Types'
  BY <1>10 DEF AcceptLocks, AcceptType
<1>11. ASSUME NEW p \in Proxies, AcceptInserts(p)
      PROVE  Types'
  <2>1. session[p].id \in Nat
    BY DEF SessionType, Sessions
  <2>2. UpdateType'
    BY <1>11, <2>1, UpdatesTyped DEF AcceptInserts
  <2>3. QED
    BY <1>11, <2>2 DEF AcceptInserts, AcceptType, ProxyType, Places
<1>12. ASSUME NEW p \in Proxies, HandleReady(p)
      PROVE  Types'
  <2>1. ProxyType'
    BY <1>12, TellType DEF HandleReady, sendDownLoadInit, Places
  <2>2. QED
    BY <1>12, <2>1, TookType DEF HandleReady, IsNext
<1>13. ASSUME NEW p \in Proxies, HandleDownloadStatus(p)
      PROVE  Types'
  <2>1. ProxyType'
    BY <1>13, TellType DEF HandleDownloadStatus, sendLoadInit, Places
  <2>2. UpdateType'
    BY <1>13, <1>01, UpdatesTyped DEF HandleDownloadStatus, IsNext
  <2>3. QED
    BY <1>13, <2>1, <2>2, TookType DEF HandleDownloadStatus, IsNext
<1>14. ASSUME NEW p \in Proxies, HandleLoadStatus(p)
      PROVE  Types'
  <2>1. UpdateType'
    BY <1>14, <1>01, UpdatesTyped DEF HandleLoadStatus, IsNext, IsLoaded
  <2>2. QED
    BY <1>14, <2>1, TookType DEF HandleLoadStatus, IsNext
<1>15. ASSUME NEW p \in Proxies, HandleError(p)
      PROVE  Types'
  <2>1. UpdateType'
    BY <1>15, <1>01, UpdatesTyped DEF HandleError, IsNext
  <2>2. QED
    BY <1>15, <2>1, TookType DEF HandleError, IsNext
<1>16. ASSUME NEW p \in Proxies, ProxyStep(p) \/ ProxyFails(p)
      PROVE  Types'
  <2>1. PICK from, to \in Places, e \in Events : Sends(p, from, to, e.kind, e.value)
    BY <1>16, ProxyMoves DEF Honest
  <2>2. [kind |-> e.kind, value |-> e.value] \in Events
    BY DEF Events
  <2>3. EventType'
    BY <2>1, <2>2, QueueAppend DEF Sends, EventType
  <2>4. ProxyType'
    BY <2>1 DEF Sends, ProxyType
  <2>5. QED
    BY <2>1, <2>3, <2>4 DEF Sends
<1>17. ASSUME NEW p \in Proxies, MasterDownloads(p)
      PROVE  Types'
  BY <1>17 DEF MasterDownloads, ProxyType, Places
<1>18. ASSUME NEW p \in Proxies, MasterLoads(p)
      PROVE  Types'
  BY <1>18 DEF MasterLoads, ProxyType, Places
<1>19. CASE UNCHANGED vars
  BY <1>19 DEF vars
<1>20. QED
  BY <1>1, <1>2, <1>3, <1>4, <1>5, <1>6, <1>7, <1>8, <1>9, <1>10, <1>11, <1>12, <1>13, <1>14, <1>15,
     <1>16, <1>17, <1>18, <1>19
     DEF Next, MainStep, AcceptUpdate, EventHandler

(* TypeOK holds in every state of the device update manager. *)
THEOREM TypeCorrectness == Spec => []TypeOK
<1>1. Types /\ [Next]_vars => Types'
  BY TypeStep
<1>2. Types => TypeOK
  BY DEF Types, MainType, DayType, AcceptType, SessionType, UpdateType, ProxyType, EventType, TypeOK
<1>3. QED
  BY InitType, <1>1, <1>2, PTL DEF Spec

-----------------------------------------------------------------------------
(* Nobody is forgotten. *)

LEMMA InitAccept == Init => AcceptInv /\ WaitInv
BY DEF Init, AcceptInv, WaitInv, Settled, Booted, NoSession, Idle

(* An update that is in the list stays there. *)
LEMMA UpdatesStay ==
    /\ \A f, g : DOMAIN f \subseteq DOMAIN Over(f, g) /\ DOMAIN g \subseteq DOMAIN Over(f, g)
    /\ \A id : id \in DOMAIN [i \in {id} |-> NewUpdate]
    /\ \A f, id, v : /\ DOMAIN [f EXCEPT ![id].percent = v] = DOMAIN f
                     /\ DOMAIN [f EXCEPT ![id].loadComplete = v] = DOMAIN f
                     /\ DOMAIN [f EXCEPT ![id].error = v] = DOMAIN f
BY DEF Over

LEMMA AcceptStep == Types /\ AcceptInv /\ [Next]_vars => AcceptInv'
<1> SUFFICES ASSUME Types, AcceptInv, [Next]_vars PROVE AcceptInv'
  OBVIOUS
<1>0. /\ DOMAIN accept = Proxies /\ DOMAIN st = Proxies /\ DOMAIN events = Proxies
      /\ DOMAIN session = Proxies
  BY DEF Types, AcceptType, ProxyType, EventType, SessionType
<1> USE DEF AcceptInv, Settled, mainVars, sessionVars, proxyVars, Idle
<1>1. CASE StartStep
  BY <1>1 DEF StartStep
<1>2. CASE StartFails
  BY <1>2 DEF StartFails
<1>3. CASE LoadConfig
  BY <1>3 DEF LoadConfig
<1>4. CASE Tick
  BY <1>4 DEF Tick
<1>5. CASE ScanFolder
  BY <1>5 DEF ScanFolder
<1>6. CASE ScanDone
  BY <1>6 DEF ScanDone
<1>7. CASE Reboot
  BY <1>7 DEF Reboot, Booted
<1>8. ASSUME NEW p \in Proxies, AcceptReadsId(p)
      PROVE  AcceptInv'
  BY <1>8, <1>0 DEF AcceptReadsId, Serving, Types, SessionType, Sessions
<1>9. ASSUME NEW p \in Proxies, AcceptWritesId(p)
      PROVE  AcceptInv'
  BY <1>9, <1>0 DEF AcceptWritesId, Types, SessionType, Sessions
<1>10. ASSUME NEW p \in Proxies, AcceptLocks(p)
      PROVE  AcceptInv'
  BY <1>10, <1>0 DEF AcceptLocks
<1>11. ASSUME NEW p \in Proxies, AcceptInserts(p)
      PROVE  AcceptInv'
  BY <1>11, <1>0, UpdatesStay DEF AcceptInserts
<1>12. ASSUME NEW p \in Proxies, HandleReady(p)
      PROVE  AcceptInv'
  BY <1>12, <1>0 DEF HandleReady, IsNext, Took, Serving, sendDownLoadInit, Tell
<1>13. ASSUME NEW p \in Proxies, HandleDownloadStatus(p)
      PROVE  AcceptInv'
  BY <1>13, <1>0, UpdatesStay DEF HandleDownloadStatus, IsNext, Took, Serving, sendLoadInit, Tell
<1>14. ASSUME NEW p \in Proxies, HandleLoadStatus(p)
      PROVE  AcceptInv'
  BY <1>14, <1>0, UpdatesStay DEF HandleLoadStatus, IsNext, Took, Serving
<1>15. ASSUME NEW p \in Proxies, HandleError(p)
      PROVE  AcceptInv'
  BY <1>15, <1>0, UpdatesStay DEF HandleError, IsNext, Took, Serving
<1>16. ASSUME NEW p \in Proxies, ProxyStep(p) \/ ProxyFails(p)
      PROVE  AcceptInv'
  <2>1. PICK from, to \in Places \ {Idle}, e \in Events : Sends(p, from, to, e.kind, e.value)
    BY <1>16, ProxyMoves DEF Honest
  <2>2. QED
    BY <1>0, <2>1 DEF Sends
<1>17. ASSUME NEW p \in Proxies, MasterDownloads(p)
      PROVE  AcceptInv'
  BY <1>17, <1>0 DEF MasterDownloads
<1>18. ASSUME NEW p \in Proxies, MasterLoads(p)
      PROVE  AcceptInv'
  BY <1>18, <1>0 DEF MasterLoads
<1>19. CASE UNCHANGED vars
  BY <1>19 DEF vars
<1>20. QED
  BY <1>1, <1>2, <1>3, <1>4, <1>5, <1>6, <1>7, <1>8, <1>9, <1>10, <1>11, <1>12, <1>13, <1>14, <1>15,
     <1>16, <1>17, <1>18, <1>19
     DEF Next, MainStep, AcceptUpdate, EventHandler

(* Who has sent an event has a session, and the daemon finds it. *)
LEMMA SenderIsKnown ==
    ASSUME AcceptInv, NEW p \in Proxies, events[p] # <<>>
    PROVE  accept[p] = "returned" /\ session[p].id \in DOMAIN updatesInProgress
BY DEF AcceptInv

(* Taking an event leaves those pending that it is not. *)
LEMMA TookPending ==
    ASSUME Types, NEW p \in Proxies, NEW kind, IsNext(p, kind), Took(p)
    PROVE  /\ \A q \in Proxies \ {p} : events'[q] = events[q]
           /\ ~IsReady(Head(events[p])) /\ ReadyPending(p) => ReadyPending(p)'
           /\ ~IsDone(Head(events[p])) /\ DonePending(p) => DonePending(p)'
           /\ Head(events[p]).kind = kind
<1>1. events[p] \in Seq(Events) /\ events[p] # <<>> /\ events'[p] = Tail(events[p])
  BY DEF Types, EventType, IsNext, Took
<1>2. \A i \in 1..Len(events[p]) : i # 1 =>
         i - 1 \in 1..Len(events'[p]) /\ events'[p][i - 1] = events[p][i]
  BY <1>1, QueueTail
<1>3. ~IsReady(Head(events[p])) /\ ReadyPending(p) => ReadyPending(p)'
  BY <1>1, <1>2, QueueTail DEF ReadyPending, IsReady
<1>4. ~IsDone(Head(events[p])) /\ DonePending(p) => DonePending(p)'
  BY <1>1, <1>2, QueueTail DEF DonePending, IsDone, IsDownloaded
<1>5. \A q \in Proxies \ {p} : events'[q] = events[q]
  BY DEF Types, EventType, Took
<1>6. QED
  BY <1>3, <1>4, <1>5 DEF IsNext

(* Sending an event adds it to those pending. *)
LEMMA SendsPending ==
    ASSUME Types, NEW p \in Proxies, NEW e \in Events, NEW from, NEW to,
           Sends(p, from, to, e.kind, e.value)
    PROVE  /\ \A q \in Proxies \ {p} : events'[q] = events[q]
           /\ Len(events[p]) \in Nat /\ Len(events'[p]) = Len(events[p]) + 1
           /\ \A i \in 1..Len(events[p]) : events'[p][i] = events[p][i]
           /\ events'[p][Len(events[p]) + 1] = e
<1>1. [kind |-> e.kind, value |-> e.value] = e
  BY DEF Events
<1>2. events[p] \in Seq(Events) /\ events'[p] = Append(events[p], e)
  BY <1>1 DEF Types, EventType, Sends
<1>3. \A q \in Proxies \ {p} : events'[q] = events[q]
  BY DEF Types, EventType, Sends
<1>4. QED
  BY <1>2, <1>3, QueueAppend

LEMMA WaitStep == Types /\ AcceptInv /\ WaitInv /\ [Next]_vars => WaitInv'
<1> SUFFICES ASSUME Types, AcceptInv, WaitInv, [Next]_vars PROVE WaitInv'
  OBVIOUS
<1>0. DOMAIN st = Proxies
  BY DEF Types, ProxyType
<1>01. \A q : events'[q] = events[q] => /\ ReadyPending(q) => ReadyPending(q)'
                                        /\ DonePending(q) => DonePending(q)'
  BY DEF ReadyPending, DonePending, IsReady, IsDone, IsDownloaded
<1> USE DEF WaitInv, mainVars, sessionVars, proxyVars
<1>1. CASE StartStep
  BY <1>1, <1>01 DEF StartStep
<1>2. CASE StartFails
  BY <1>2, <1>01 DEF StartFails
<1>3. CASE LoadConfig
  BY <1>3, <1>01 DEF LoadConfig, AcceptInv, Idle
<1>4. CASE Tick
  BY <1>4, <1>01 DEF Tick
<1>5. CASE ScanFolder
  BY <1>5, <1>01 DEF ScanFolder
<1>6. CASE ScanDone
  BY <1>6, <1>01 DEF ScanDone
<1>7. CASE Reboot
  BY <1>7 DEF Reboot, Booted, Idle
<1>8. ASSUME NEW p \in Proxies, AcceptReadsId(p)
      PROVE  WaitInv'
  BY <1>8, <1>01 DEF AcceptReadsId
<1>9. ASSUME NEW p \in Proxies, AcceptWritesId(p)
      PROVE  WaitInv'
  BY <1>9, <1>01 DEF AcceptWritesId
<1>10. ASSUME NEW p \in Proxies, AcceptLocks(p)
      PROVE  WaitInv'
  BY <1>10, <1>01 DEF AcceptLocks
<1>11. ASSUME NEW p \in Proxies, AcceptInserts(p)
      PROVE  WaitInv'
  BY <1>11, <1>0, <1>01 DEF AcceptInserts
<1>12. ASSUME NEW p \in Proxies, HandleReady(p)
      PROVE  WaitInv'
  <2>1. /\ \A q \in Proxies \ {p} : events'[q] = events[q]
        /\ DonePending(p) => DonePending(p)'
    BY <1>12, TookPending DEF HandleReady, IsDone
  <2>2. CASE config.interactiveDownload
    BY <1>12, <1>01, <2>1, <2>2, TookPending DEF HandleReady
  <2>3. CASE ~config.interactiveDownload
    <3>1. sendDownLoadInit(session[p].id) /\ UNCHANGED config
      BY <1>12, <2>3, SenderIsKnown DEF HandleReady, IsNext, withUpdateInProgress
    <3>2. /\ st'[p] # "ready" \/ p \in unheard'
          /\ \A q \in Proxies : st'[q] \in {"ready", "downloaded"} /\ q \notin unheard' =>
                st'[q] = st[q] /\ q \notin unheard
      BY <3>1 DEF sendDownLoadInit, Tell
    <3>3. QED
      BY <1>01, <2>1, <3>1, <3>2
  <2>4. QED
    BY <2>2, <2>3
<1>13. ASSUME NEW p \in Proxies, HandleDownloadStatus(p)
      PROVE  WaitInv'
  <2>1. /\ \A q \in Proxies \ {p} : events'[q] = events[q]
        /\ ReadyPending(p) => ReadyPending(p)'
    BY <1>13, TookPending DEF HandleDownloadStatus, IsReady
  <2>2. CASE IsDone(Head(events[p])) /\ ~config.interactiveLoad
    <3>1. sendLoadInit(session[p].id) /\ UNCHANGED config
      BY <1>13, <2>2, SenderIsKnown DEF HandleDownloadStatus, IsNext, withUpdateInProgress, IsDone
    <3>2. /\ st'[p] # "downloaded" \/ p \in unheard'
          /\ \A q \in Proxies : st'[q] \in {"ready", "downloaded"} /\ q \notin unheard' =>
                st'[q] = st[q] /\ q \notin unheard
      BY <3>1 DEF sendLoadInit, Tell
    <3>3. QED
      BY <1>01, <2>1, <3>1, <3>2
  <2>3. CASE ~IsDone(Head(events[p])) \/ config.interactiveLoad
    <3>1. UNCHANGED <<st, unheard, config>>
      BY <1>13, <2>3 DEF HandleDownloadStatus, IsNext, IsDone
    <3>2. ~config.interactiveLoad /\ DonePending(p) => DonePending(p)'
      BY <1>13, <2>3, TookPending DEF HandleDownloadStatus
    <3>3. QED
      BY <1>01, <2>1, <3>1, <3>2
  <2>4. QED
    BY <2>2, <2>3
<1>14. ASSUME NEW p \in Proxies, HandleLoadStatus(p)
      PROVE  WaitInv'
  BY <1>14, <1>01, TookPending DEF HandleLoadStatus, IsReady, IsDone
<1>15. ASSUME NEW p \in Proxies, HandleError(p)
      PROVE  WaitInv'
  BY <1>15, <1>01, TookPending DEF HandleError, IsReady, IsDone
<1>16. ASSUME NEW p \in Proxies, ProxyStep(p) \/ ProxyFails(p)
      PROVE  WaitInv'
  <2>1. PICK from, to \in Places \ {Idle}, e \in Events :
           /\ Sends(p, from, to, e.kind, e.value)
           /\ to = "ready" => IsReady(e)
           /\ IsDone(e) <=> to = "downloaded"
    BY <1>16, ProxyMoves DEF Honest
  <2>2. UNCHANGED <<config, unheard>> /\ st'[p] = to /\ \A q \in Proxies \ {p} : st'[q] = st[q]
    BY <1>0, <2>1 DEF Sends
  <2>3. \E i \in 1..Len(events'[p]) : events'[p][i] = e
    <3> DEFINE n == Len(events[p])
    <3>1. n \in Nat /\ Len(events'[p]) = n + 1 /\ events'[p][n + 1] = e
      BY <2>1, SendsPending
    <3> HIDE DEF n
    <3>2. n + 1 \in 1..Len(events'[p])
      BY <3>1
    <3>3. QED
      BY <3>1, <3>2
  <2>4. /\ to = "ready" => ReadyPending(p)'
        /\ to = "downloaded" => DonePending(p)'
    BY <2>1, <2>3 DEF ReadyPending, DonePending, IsReady, IsDone, IsDownloaded
  <2>5. \A q \in Proxies \ {p} : events'[q] = events[q]
    BY <2>1, SendsPending
  <2>6. QED
    BY <1>01, <2>2, <2>4, <2>5
<1>17. ASSUME NEW p \in Proxies, MasterDownloads(p)
      PROVE  WaitInv'
  BY <1>17, <1>0, <1>01 DEF MasterDownloads
<1>18. ASSUME NEW p \in Proxies, MasterLoads(p)
      PROVE  WaitInv'
  BY <1>18, <1>0, <1>01 DEF MasterLoads
<1>19. CASE UNCHANGED vars
  BY <1>19, <1>01 DEF vars
<1>20. QED
  BY <1>1, <1>2, <1>3, <1>4, <1>5, <1>6, <1>7, <1>8, <1>9, <1>10, <1>11, <1>12, <1>13, <1>14, <1>15,
     <1>16, <1>17, <1>18, <1>19
     DEF Next, MainStep, AcceptUpdate, EventHandler

LEMMA WaitInvariance == Spec => [](Types /\ AcceptInv /\ WaitInv)
<1>1. Init => Types /\ AcceptInv /\ WaitInv
  BY InitType, InitAccept
<1>2. Types /\ AcceptInv /\ WaitInv /\ [Next]_vars => (Types /\ AcceptInv /\ WaitInv)'
  BY TypeStep, AcceptStep, WaitStep
<1>3. QED
  BY <1>1, <1>2, PTL DEF Spec

(* A proxy that waits for the daemon is waiting for an event under way, or
   was told by AcceptUpdate that a user decides, or was not reached by the
   broadcast meant for it; also when ids repeat. *)
THEOREM ProxiesAreServed == Spec => []NobodyIsForgotten
<1>1. ASSUME Types, AcceptInv, WaitInv, NEW p \in Proxies, events[p] = <<>>, p \notin unheard
      PROVE  /\ st[p] = "ready" => session[p].interactiveDownload
             /\ st[p] = "downloaded" => session[p].interactiveLoad
  <2>1. ~ReadyPending(p) /\ ~DonePending(p)
    BY <1>1 DEF ReadyPending, DonePending
  <2>2. st[p] \in {"ready", "downloaded"} => Settled(p)
    BY <1>1 DEF AcceptInv, Settled, Idle
  <2>3. QED
    BY <1>1, <2>1, <2>2 DEF AcceptInv, WaitInv
<1>2. Types /\ AcceptInv /\ WaitInv => NobodyIsForgotten
  BY <1>1 DEF NobodyIsForgotten
<1>3. QED
  BY <1>2, WaitInvariance, PTL

-----------------------------------------------------------------------------
(* The records are true. *)

Ended == HasImage \cup {"failed"}

(* The events under way tell where their proxy is, and that it has the image
   comes last. *)
TrueEvents ==
    \A p \in Proxies : \A i \in 1..Len(events[p]) :
        /\ IsDone(events[p][i]) => st[p] \in Ended
        /\ IsEnd(events[p][i]) => st[p] = "updated"
        /\ events[p][i].kind = "ERROR" => st[p] = "failed"
        /\ IsPart(events[p][i]) /\ st[p] \in HasImage =>
              \E j \in 1..Len(events[p]) : j > i /\ IsDone(events[p][j])

KnownIds ==
    \A id \in DOMAIN updatesInProgress :
        \E q \in Proxies : accept[q] = "returned" /\ session[q].id = id

RecordOf(p) == updatesInProgress[session[p].id]

RecordInv ==
    \A p \in Proxies : Alone(p) =>
        /\ IsDownloaded(RecordOf(p).percent) => st[p] \in Ended
        /\ st[p] \in HasImage => IsDownloaded(RecordOf(p).percent) \/ DonePending(p)
        /\ RecordOf(p).loadComplete => st[p] = "updated"
        /\ RecordOf(p).error => st[p] = "failed"

(* What the daemon and the master do to a proxy. *)
Steady(q) ==
    \/ st'[q] = st[q]
    \/ st[q] = Idle /\ st'[q] = "accepted"
    \/ st[q] = "ready" /\ st'[q] = "downloading"
    \/ st[q] = "downloaded" /\ st'[q] = "toload"

(* What handling the next event of p does to the records. *)
Records(p) ==
    LET id == session[p].id
        e  == Head(events[p])
    IN  /\ DOMAIN updatesInProgress' = DOMAIN updatesInProgress
        /\ \A k \in DOMAIN updatesInProgress \ {id} : updatesInProgress'[k] = updatesInProgress[k]
        /\ updatesInProgress'[id].percent =
              IF e.kind = "DOWNLOAD_STATUS" THEN e.value ELSE updatesInProgress[id].percent
        /\ updatesInProgress'[id].loadComplete => updatesInProgress[id].loadComplete \/ IsEnd(e)
        /\ updatesInProgress'[id].error => updatesInProgress[id].error \/ e.kind = "ERROR"

Handles(p) ==
    /\ events[p] # <<>> /\ Took(p) /\ Records(p)
    /\ UNCHANGED <<accept, session>> /\ \A q \in Proxies : Steady(q)

Elsewhere ==
    /\ UNCHANGED <<events, updatesInProgress>>
    /\ \A q \in Proxies : /\ Steady(q)
                          /\ accept'[q] = "returned" <=> accept[q] = "returned"
                          /\ accept[q] = "returned" => session'[q] = session[q]

LEMMA HandlerHandles ==
    ASSUME Types, AcceptInv, NEW p \in Proxies, EventHandler(p)
    PROVE  Handles(p)
<1>0. events[p] # <<>> => session[p].id \in DOMAIN updatesInProgress
  BY SenderIsKnown
<1>00. \A id \in DOMAIN updatesInProgress : updatesInProgress[id] \in Updates
  BY DEF Types, UpdateType
<1> USE DEF Handles, Records, Steady, Updates, sessionVars, IsNext
<1>1. CASE HandleReady(p)
  BY <1>1, <1>0 DEF HandleReady, sendDownLoadInit, Tell
<1>2. CASE HandleDownloadStatus(p)
  <2>1. events[p] # <<>> /\ Took(p) /\ UNCHANGED <<accept, session>>
        /\ Head(events[p]).kind = "DOWNLOAD_STATUS"
    BY <1>2 DEF HandleDownloadStatus
  <2>2. \A q \in Proxies : Steady(q)
    BY <1>2 DEF HandleDownloadStatus, sendLoadInit, Tell
  <2>3. updatesInProgress' = [updatesInProgress EXCEPT ![session[p].id].percent = Head(events[p]).value]
    BY <1>2, <1>0, <2>1 DEF HandleDownloadStatus, withUpdateInProgress
  <2>4. Records(p)
    BY <1>0, <1>00, <2>1, <2>3
  <2>5. QED
    BY <2>1, <2>2, <2>4
<1>3. CASE HandleLoadStatus(p)
  BY <1>3, <1>0, <1>00 DEF HandleLoadStatus, IsEnd
<1>4. CASE HandleError(p)
  BY <1>4, <1>0, <1>00 DEF HandleError
<1>5. QED
  BY <1>1, <1>2, <1>3, <1>4 DEF EventHandler

LEMMA StepCases ==
    ASSUME Types, AcceptInv, [Next]_vars
    PROVE  \/ Reboot \/ Elsewhere
           \/ \E p \in Proxies : AcceptInserts(p) \/ ProxyStep(p) \/ ProxyFails(p) \/ Handles(p)
<1>0. DOMAIN accept = Proxies /\ DOMAIN st = Proxies /\ DOMAIN session = Proxies
  BY DEF Types, AcceptType, ProxyType, SessionType
<1> USE DEF Elsewhere, Steady, mainVars, sessionVars, proxyVars
<1>1. CASE StartStep \/ StartFails \/ LoadConfig \/ Tick \/ ScanFolder \/ ScanDone \/ UNCHANGED vars
  BY <1>1 DEF StartStep, StartFails, LoadConfig, Tick, ScanFolder, ScanDone, vars
<1>2. ASSUME NEW p \in Proxies, AcceptReadsId(p)
      PROVE  Elsewhere
  BY <1>2, <1>0 DEF AcceptReadsId, Idle
<1>3. ASSUME NEW p \in Proxies, AcceptWritesId(p)
      PROVE  Elsewhere
  BY <1>3, <1>0 DEF AcceptWritesId
<1>4. ASSUME NEW p \in Proxies, AcceptLocks(p)
      PROVE  Elsewhere
  BY <1>4, <1>0 DEF AcceptLocks
<1>5. ASSUME NEW p \in Proxies, MasterDownloads(p) \/ MasterLoads(p)
      PROVE  Elsewhere
  BY <1>5, <1>0 DEF MasterDownloads, MasterLoads
<1>6. QED
  BY <1>1, <1>2, <1>3, <1>4, <1>5, HandlerHandles DEF Next, MainStep, AcceptUpdate

(* The queue of p after its head is taken. *)
LEMMA TookQueue ==
    ASSUME Types, NEW p \in Proxies, events[p] # <<>>, Took(p)
    PROVE  /\ \A q \in Proxies \ {p} : events'[q] = events[q]
           /\ Len(events[p]) \in Nat /\ Len(events[p]) >= 1 /\ Head(events[p]) = events[p][1]
           /\ Len(events'[p]) = Len(events[p]) - 1
           /\ \A i \in 1..Len(events'[p]) : events'[p][i] = events[p][i + 1]
<1>1. events[p] \in Seq(Events) /\ events'[p] = Tail(events[p])
  BY DEF Types, EventType, Took
<1>2. \A q \in Proxies \ {p} : events'[q] = events[q]
  BY DEF Types, EventType, Took
<1>3. QED
  BY <1>1, <1>2, QueueTail

LEMMA EventsStep == Types /\ AcceptInv /\ TrueEvents /\ [Next]_vars => TrueEvents'
<1> SUFFICES ASSUME Types, AcceptInv, TrueEvents, [Next]_vars PROVE TrueEvents'
  OBVIOUS
<1> DEFINE Tells(q, place, queue) ==
        \A i \in 1..Len(queue) :
            /\ IsDone(queue[i]) => place \in Ended
            /\ IsEnd(queue[i]) => place = "updated"
            /\ queue[i].kind = "ERROR" => place = "failed"
            /\ IsPart(queue[i]) /\ place \in HasImage =>
                  \E j \in 1..Len(queue) : j > i /\ IsDone(queue[j])
<1>1. (\A q \in Proxies : Tells(q, st'[q], events'[q])) => TrueEvents'
  BY DEF TrueEvents, IsDone, IsEnd, IsPart, IsDownloaded, IsLoaded, Ended, HasImage
<1>2. \A q \in Proxies : Tells(q, st[q], events[q])
  BY DEF TrueEvents
<1>3. ASSUME NEW q \in Proxies, Steady(q)
      PROVE  Tells(q, st'[q], events[q])
  <2>1. /\ st[q] \in Ended => st'[q] \in Ended
        /\ st'[q] \in HasImage => st[q] \in HasImage
        /\ st[q] \in {"updated", "failed"} => st'[q] = st[q]
    BY <1>3 DEF Steady, Ended, HasImage, Idle
  <2>2. QED
    BY <1>2, <2>1
<1>4. CASE Reboot
  <2>1. \A q \in Proxies : Len(events'[q]) = 0
    BY <1>4 DEF Reboot, Booted
  <2>2. QED
    BY <1>1, <2>1
<1>5. CASE Elsewhere
  BY <1>1, <1>3, <1>5 DEF Elsewhere
<1>6. ASSUME NEW p \in Proxies, AcceptInserts(p)
      PROVE  TrueEvents'
  <2>1. \A q \in Proxies : Steady(q)
    BY <1>6 DEF AcceptInserts, AcceptInv, Types, ProxyType, Steady
  <2>2. QED
    BY <1>1, <1>3, <1>6, <2>1 DEF AcceptInserts
<1>7. ASSUME NEW p \in Proxies, Handles(p)
      PROVE  TrueEvents'
  <2>1. events[p] # <<>> /\ Took(p) /\ \A q \in Proxies : Tells(q, st'[q], events[q])
    BY <1>3, <1>7 DEF Handles
  <2> HIDE DEF Tells
  <2>2. Tells(p, st'[p], events'[p])
    <3> DEFINE n == Len(events[p])
               s == events[p]
               t == events'[p]
    <3>1. /\ n \in Nat /\ Len(s) = n /\ Len(t) = n - 1
          /\ \A i \in 1..(n - 1) : t[i] = s[i + 1]
      BY <2>1, TookQueue
    <3>2. Tells(p, st'[p], s)
      BY <2>1
    <3> HIDE DEF n, s, t
    <3>3. ASSUME NEW i \in 1..(n - 1), NEW j \in 1..n, j > i + 1
          PROVE  j - 1 \in 1..(n - 1) /\ j - 1 > i /\ t[j - 1] = s[j]
      BY <3>1, <3>3
    <3>4. Tells(p, st'[p], t)
      <4> SUFFICES ASSUME NEW i \in 1..(n - 1)
                   PROVE  /\ IsDone(t[i]) => st'[p] \in Ended
                          /\ IsEnd(t[i]) => st'[p] = "updated"
                          /\ t[i].kind = "ERROR" => st'[p] = "failed"
                          /\ IsPart(t[i]) /\ st'[p] \in HasImage =>
                                \E j \in 1..(n - 1) : j > i /\ IsDone(t[j])
        BY <3>1 DEF Tells
      <4>1. i + 1 \in 1..n /\ t[i] = s[i + 1]
        BY <3>1
      <4>2. IsPart(t[i]) /\ st'[p] \in HasImage => \E j \in 1..n : j > i + 1 /\ IsDone(s[j])
        BY <3>1, <3>2, <4>1 DEF Tells
      <4>3. IsPart(t[i]) /\ st'[p] \in HasImage => \E j \in 1..(n - 1) : j > i /\ IsDone(t[j])
        BY <3>3, <4>2
      <4>4. QED
        BY <3>1, <3>2, <4>1, <4>3 DEF Tells
    <3>5. QED
      BY <3>4 DEF t
  <2>3. \A q \in Proxies \ {p} : Tells(q, st'[q], events'[q])
    BY <2>1, TookQueue
  <2>4. QED
    BY <1>1, <2>2, <2>3
<1>8. ASSUME NEW p \in Proxies, ProxyStep(p) \/ ProxyFails(p)
      PROVE  TrueEvents'
  <2>1. PICK from, to \in Places \ {Idle}, e \in Events :
           Sends(p, from, to, e.kind, e.value) /\ Honest(from, to, e)
    BY <1>8, ProxyMoves
  <2>2. /\ st[p] = from /\ st'[p] = to /\ \A q \in Proxies \ {p} : st'[q] = st[q]
        /\ \A q \in Proxies \ {p} : events'[q] = events[q]
    BY <2>1, SendsPending DEF Sends, Types, ProxyType
  <2> HIDE DEF Tells
  <2>3. Tells(p, to, events'[p])
    <3> DEFINE n == Len(events[p])
               s == events[p]
               t == events'[p]
    <3>1. /\ n \in Nat /\ Len(s) = n /\ Len(t) = n + 1 /\ t[n + 1] = e
          /\ \A i \in 1..n : t[i] = s[i]
      BY <2>1, SendsPending
    <3>2. Tells(p, from, s)
      BY <1>2, <2>2
    <3> HIDE DEF n, s, t
    <3>3. /\ from \in Ended => to \in Ended
          /\ from \notin {"updated", "failed"}
          /\ to \in HasImage => from \in HasImage \/ IsDone(e)
      BY <2>1 DEF Honest, Ended
    <3>4. IsDone(e) \/ IsEnd(e) \/ e.kind = "ERROR" => to \in Ended
      BY <2>1 DEF Honest, Ended, HasImage
    <3>5. Tells(p, to, t)
      <4> SUFFICES ASSUME NEW i \in 1..(n + 1)
                   PROVE  /\ IsDone(t[i]) => to \in Ended
                          /\ IsEnd(t[i]) => to = "updated"
                          /\ t[i].kind = "ERROR" => to = "failed"
                          /\ IsPart(t[i]) /\ to \in HasImage =>
                                \E j \in 1..(n + 1) : j > i /\ IsDone(t[j])
        BY <3>1 DEF Tells
      <4>1. CASE i = n + 1
        BY <2>1, <3>1, <3>4, <4>1 DEF Honest
      <4>2. CASE i \in 1..n
        <5>1. /\ t[i] = s[i]
              /\ IsDone(s[i]) => from \in Ended
              /\ ~IsEnd(s[i]) /\ s[i].kind # "ERROR"
          BY <3>1, <3>2, <3>3, <4>2 DEF Tells
        <5>2. IsPart(s[i]) /\ to \in HasImage =>
                 \E j \in 1..(n + 1) : j > i /\ IsDone(t[j])
          <6>1. CASE IsDone(e)
            BY <3>1, <4>2, <6>1
          <6>2. CASE ~IsDone(e)
            <7>1. IsPart(s[i]) /\ to \in HasImage => \E j \in 1..n : j > i /\ IsDone(s[j])
              BY <3>1, <3>2, <3>3, <4>2, <6>2 DEF Tells
            <7>2. \A j \in 1..n : j \in 1..(n + 1) /\ t[j] = s[j]
              BY <3>1
            <7>3. QED
              BY <7>1, <7>2
          <6>3. QED
            BY <6>1, <6>2
        <5>3. QED
          BY <3>3, <5>1, <5>2
      <4>3. QED
        BY <3>1, <4>1, <4>2
    <3>6. QED
      BY <3>5 DEF t
  <2>4. QED
    BY <1>1, <1>2, <2>2, <2>3
<1>9. QED
  BY <1>4, <1>5, <1>6, <1>7, <1>8, StepCases

(* A session is known as long as the box is up, and by its proxy alone or by
   others too. *)
LEMMA AloneStays ==
    ASSUME UNCHANGED updatesInProgress \/ DOMAIN updatesInProgress' = DOMAIN updatesInProgress,
           \A q \in Proxies : /\ accept'[q] = "returned" <=> accept[q] = "returned"
                              /\ accept[q] = "returned" => session'[q] = session[q]
    PROVE  /\ KnownIds => KnownIds'
           /\ \A p \in Proxies : Alone(p)' => Alone(p) /\ session'[p].id = session[p].id
BY DEF KnownIds, Alone

LEMMA RecordStep ==
    ASSUME Types, AcceptInv, TrueEvents, KnownIds, RecordInv, [Next]_vars
    PROVE  KnownIds' /\ RecordInv'
<1> DEFINE True(update, place, pending) ==
        /\ IsDownloaded(update.percent) => place \in Ended
        /\ place \in HasImage => IsDownloaded(update.percent) \/ pending
        /\ update.loadComplete => place = "updated"
        /\ update.error => place = "failed"
<1>1. ASSUME \A p \in Proxies : Alone(p)' => True(updatesInProgress'[session'[p].id], st'[p], DonePending(p)')
      PROVE  RecordInv'
  BY <1>1 DEF RecordInv, RecordOf, IsDownloaded, Ended, HasImage, Alone, DonePending, IsDone
<1>2. \A p \in Proxies : Alone(p) => True(RecordOf(p), st[p], DonePending(p))
  BY DEF RecordInv
<1>3. \A q : events'[q] = events[q] => (DonePending(q)' <=> DonePending(q))
  BY DEF DonePending, IsDone, IsDownloaded
<1>4. \A q \in Proxies : Steady(q) =>
         /\ st[q] \in Ended => st'[q] \in Ended
         /\ st'[q] \in HasImage => st[q] \in HasImage
         /\ st[q] \in {"updated", "failed"} => st'[q] = st[q]
  BY DEF Steady, Ended, HasImage, Idle
<1>5. CASE Reboot
  <2>1. DOMAIN updatesInProgress' = {} /\ \A p \in Proxies : accept'[p] = Idle
    BY <1>5 DEF Reboot, Booted
  <2>2. QED
    BY <1>1, <2>1 DEF KnownIds, Alone, Idle
<1>6. CASE Elsewhere
  <2>1. KnownIds' /\ \A p \in Proxies : Alone(p)' => Alone(p) /\ session'[p].id = session[p].id
    BY <1>6, AloneStays DEF Elsewhere
  <2>2. ASSUME NEW p \in Proxies, Alone(p)'
        PROVE  True(updatesInProgress'[session'[p].id], st'[p], DonePending(p)')
    BY <1>2, <1>3, <1>4, <1>6, <2>1, <2>2 DEF Elsewhere, RecordOf
  <2>3. QED
    BY <1>1, <2>1, <2>2
<1>7. ASSUME NEW p \in Proxies, AcceptInserts(p)
      PROVE  KnownIds' /\ RecordInv'
  <2> DEFINE id == session[p].id
  <2>1. /\ accept[p] # "returned" /\ accept'[p] = "returned"
        /\ \A q \in Proxies \ {p} : accept'[q] = accept[q]
        /\ UNCHANGED <<session, events>>
        /\ st'[p] = "accepted" /\ \A q \in Proxies \ {p} : st'[q] = st[q]
    BY <1>7 DEF AcceptInserts, Types, AcceptType, ProxyType
  <2>2. /\ DOMAIN updatesInProgress' = DOMAIN updatesInProgress \cup {id}
        /\ \A k \in DOMAIN updatesInProgress : updatesInProgress'[k] = updatesInProgress[k]
        /\ id \notin DOMAIN updatesInProgress => updatesInProgress'[id] = NewUpdate
    BY <1>7 DEF AcceptInserts, Over
  <2>3. KnownIds'
    BY <2>1, <2>2 DEF KnownIds
  <2>4. ASSUME Alone(p)'
        PROVE  True(updatesInProgress'[session'[p].id], st'[p], DonePending(p)')
    <3>1. id \notin DOMAIN updatesInProgress
      BY <2>1, <2>4 DEF KnownIds, Alone
    <3>2. updatesInProgress'[session'[p].id] = NewUpdate
      BY <2>1, <2>2, <3>1
    <3>3. ~IsDownloaded(NewUpdate.percent) /\ ~NewUpdate.loadComplete /\ ~NewUpdate.error
      BY DEF NewUpdate, IsDownloaded
    <3>4. QED
      BY <2>1, <3>2, <3>3 DEF HasImage
  <2>5. ASSUME NEW q \in Proxies \ {p}, Alone(q)'
        PROVE  True(updatesInProgress'[session'[q].id], st'[q], DonePending(q)')
    <3>1. Alone(q)
      BY <2>1, <2>5 DEF Alone
    <3>2. updatesInProgress'[session'[q].id] = RecordOf(q)
      BY <2>1, <2>2, <3>1 DEF Alone, AcceptInv, RecordOf
    <3>3. QED
      BY <1>2, <1>3, <2>1, <3>1, <3>2
  <2>6. QED
    BY <1>1, <2>3, <2>4, <2>5
<1>8. ASSUME NEW p \in Proxies, ProxyStep(p) \/ ProxyFails(p)
      PROVE  KnownIds' /\ RecordInv'
  <2>1. PICK from, to \in Places \ {Idle}, e \in Events :
           Sends(p, from, to, e.kind, e.value) /\ Honest(from, to, e)
    BY <1>8, ProxyMoves
  <2>2. /\ st[p] = from /\ st'[p] = to /\ \A q \in Proxies \ {p} : st'[q] = st[q]
        /\ \A q \in Proxies \ {p} : events'[q] = events[q]
        /\ UNCHANGED <<accept, session, updatesInProgress>>
    BY <2>1, SendsPending DEF Sends, Types, ProxyType, sessionVars
  <2>3. KnownIds' /\ \A q \in Proxies : Alone(q)' => Alone(q) /\ session'[q].id = session[q].id
    BY <2>2, AloneStays
  <2>4. DonePending(p) \/ IsDone(e) => DonePending(p)'
    <3> DEFINE n == Len(events[p])
    <3>1. /\ n \in Nat /\ Len(events'[p]) = n + 1 /\ events'[p][n + 1] = e
          /\ \A i \in 1..n : events'[p][i] = events[p][i]
      BY <2>1, SendsPending
    <3> HIDE DEF n
    <3>2. /\ n + 1 \in 1..Len(events'[p])
          /\ \A i \in 1..n : i \in 1..Len(events'[p])
      BY <3>1
    <3>3. DonePending(p) => \E i \in 1..n : IsDone(events[p][i])
      BY DEF DonePending, n
    <3>4. QED
      BY <3>1, <3>2, <3>3 DEF DonePending, IsDone, IsDownloaded
  <2>5. /\ from \in Ended => to \in Ended
        /\ to \in HasImage => from \in HasImage \/ IsDone(e)
        /\ from \notin {"updated", "failed"}
    BY <2>1 DEF Honest, Ended
  <2>6. ASSUME NEW q \in Proxies, Alone(q)'
        PROVE  True(updatesInProgress'[session'[q].id], st'[q], DonePending(q)')
    <3>1. Alone(q) /\ updatesInProgress'[session'[q].id] = RecordOf(q)
      BY <2>2, <2>3, <2>6 DEF RecordOf
    <3>2. QED
      BY <1>2, <1>3, <2>2, <2>4, <2>5, <3>1
  <2>7. QED
    BY <1>1, <2>3, <2>6
<1>9. ASSUME NEW p \in Proxies, Handles(p)
      PROVE  KnownIds' /\ RecordInv'
  <2> DEFINE e == Head(events[p])
  <2>1. KnownIds' /\ \A q \in Proxies : Alone(q)' => Alone(q) /\ session'[q].id = session[q].id
    BY <1>9, AloneStays DEF Handles, Records
  <2>2. /\ events[p] # <<>> /\ Took(p) /\ Records(p) /\ UNCHANGED session
        /\ \A q \in Proxies : Steady(q)
    BY <1>9 DEF Handles
  <2>3. /\ \A q \in Proxies \ {p} : events'[q] = events[q]
        /\ Len(events[p]) >= 1 /\ Len(events[p]) \in Nat /\ e = events[p][1]
        /\ Len(events'[p]) = Len(events[p]) - 1
        /\ \A i \in 1..Len(events'[p]) : events'[p][i] = events[p][i + 1]
    BY <2>2, TookQueue
  <2>4. ASSUME NEW q \in Proxies \ {p}, Alone(q)'
        PROVE  True(updatesInProgress'[session'[q].id], st'[q], DonePending(q)')
    <3>1. Alone(q)
      BY <2>1, <2>4
    <3>2. session[q].id # session[p].id /\ session[q].id \in DOMAIN updatesInProgress
      BY <2>2, <3>1, SenderIsKnown DEF Alone, AcceptInv
    <3>3. updatesInProgress'[session'[q].id] = RecordOf(q)
      BY <2>2, <3>2 DEF Records, RecordOf
    <3>4. QED
      BY <1>2, <1>3, <1>4, <2>2, <2>3, <3>1, <3>3
  <2>5. ASSUME Alone(p)'
        PROVE  True(updatesInProgress'[session'[p].id], st'[p], DonePending(p)')
    <3>1. Alone(p) /\ True(RecordOf(p), st[p], DonePending(p))
      BY <1>2, <2>1, <2>5
    <3>2. /\ st[p] \in Ended => st'[p] \in Ended
          /\ st'[p] \in HasImage => st[p] \in HasImage
          /\ st[p] \in {"updated", "failed"} => st'[p] = st[p]
      BY <1>4, <2>2
    <3>3. 1 \in 1..Len(events[p])
      BY <2>3
    <3>4. /\ IsDone(e) => st[p] \in Ended
          /\ IsEnd(e) => st[p] = "updated"
          /\ e.kind = "ERROR" => st[p] = "failed"
          /\ IsPart(e) /\ st[p] \in HasImage =>
                \E j \in 1..Len(events[p]) : j > 1 /\ IsDone(events[p][j])
      BY <2>3, <3>3 DEF TrueEvents
    <3>5. ASSUME NEW j \in 1..Len(events[p]), j > 1, IsDone(events[p][j])
          PROVE  DonePending(p)'
      <4>1. j - 1 \in 1..Len(events'[p]) /\ events'[p][j - 1] = events[p][j]
        BY <2>3, <3>5
      <4>2. QED
        BY <3>5, <4>1 DEF DonePending, IsDone, IsDownloaded
    <3>6. ~IsDone(e) /\ DonePending(p) => DonePending(p)'
      <4>1. \A j \in 1..Len(events[p]) : j = 1 \/ j > 1
        BY <2>3
      <4>2. QED
        BY <2>3, <3>5, <4>1 DEF DonePending
    <3> DEFINE new == updatesInProgress'[session'[p].id]
    <3>7. /\ new.percent = IF e.kind = "DOWNLOAD_STATUS" THEN e.value ELSE RecordOf(p).percent
          /\ new.loadComplete => RecordOf(p).loadComplete \/ IsEnd(e)
          /\ new.error => RecordOf(p).error \/ e.kind = "ERROR"
      BY <2>2 DEF Records, RecordOf
    <3> HIDE DEF e, new
    <3>8. IsDownloaded(new.percent) => st'[p] \in Ended
      BY <3>1, <3>2, <3>4, <3>7 DEF IsDone
    <3>9. st'[p] \in HasImage => IsDownloaded(new.percent) \/ DonePending(p)'
      <4>1. CASE e.kind = "DOWNLOAD_STATUS"
        BY <3>2, <3>4, <3>5, <3>7, <4>1 DEF IsPart
      <4>2. CASE e.kind # "DOWNLOAD_STATUS"
        BY <3>1, <3>2, <3>6, <3>7, <4>2 DEF IsDone
      <4>3. QED
        BY <4>1, <4>2
    <3>10. (new.loadComplete => st'[p] = "updated") /\ (new.error => st'[p] = "failed")
      BY <3>1, <3>2, <3>4, <3>7
    <3>11. QED
      BY <3>8, <3>9, <3>10 DEF new
  <2>6. QED
    BY <1>1, <2>1, <2>4, <2>5
<1>10. QED
  BY <1>5, <1>6, <1>7, <1>8, <1>9, StepCases

(* Once the events of a proxy that has a session of its own are handled, what
   the status log says of the session is true. *)
THEOREM TrueRecords == Spec => []RecordsAreTrue
<1> DEFINE Inv == Types /\ AcceptInv /\ TrueEvents /\ KnownIds /\ RecordInv
<1>1. Init => Inv
  <2>1. ASSUME Init
        PROVE  TrueEvents /\ KnownIds /\ RecordInv
    <3>1. /\ \A p \in Proxies : Len(events[p]) = 0 /\ accept[p] # "returned"
          /\ DOMAIN updatesInProgress = {}
      BY <2>1 DEF Init, Booted, Idle
    <3>2. QED
      BY <3>1 DEF TrueEvents, KnownIds, RecordInv, Alone
  <2>2. QED
    BY <2>1, InitType, InitAccept
<1>2. Inv /\ [Next]_vars => Inv'
  BY TypeStep, AcceptStep, EventsStep, RecordStep
<1>3. ASSUME Inv, NEW p \in Proxies, Alone(p), events[p] = <<>>
      PROVE  /\ st[p] # "failed" => (IsDownloaded(RecordOf(p).percent) <=> st[p] \in HasImage)
             /\ RecordOf(p).loadComplete => st[p] = "updated"
             /\ RecordOf(p).error => st[p] = "failed"
  <2>1. ~DonePending(p)
    BY <1>3 DEF DonePending
  <2>2. QED
    BY <1>3, <2>1 DEF RecordInv, Ended
<1>4. Inv => RecordsAreTrue
  BY <1>3 DEF RecordsAreTrue, RecordOf
<1> HIDE DEF Inv
<1>5. QED
  BY <1>1, <1>2, <1>4, PTL DEF Spec
=============================================================================
