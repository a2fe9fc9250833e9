---------------------------- MODULE DeviceUpdate ----------------------------
(***************************************************************************)
(* The device update manager (deviceUpdateMgr/deviceUpdateMgrMain.cpp),    *)
(* which announces the images of remote controls and other devices that it *)
(* finds in the watched folders and takes the device update proxies        *)
(* through their sessions: AcceptUpdate, READY_TO_DOWNLOAD,                *)
(* DOWNLOAD_INITIATE, DOWNLOAD_STATUS, LOAD_INITIATE, LOAD_STATUS.         *)
(*                                                                         *)
(* main announces; calls of AcceptUpdate run on threads of IARM; events    *)
(* are handled one at a time (tMutexLock), each sender's in order.  A      *)
(* handler that looks a session up with mapMutex held is one action that   *)
(* waits for the mutex; one that does not is an action that may run while  *)
(* AcceptUpdate inserts.                                                   *)
(*                                                                         *)
(* The proxies and the update master (a UI that starts downloads and loads *)
(* when the configuration says interactive) are external: they do what     *)
(* deviceUpdateMgr.h tells them to.  There is one folder for each proxy,   *)
(* and the proxy updates one device.  A broadcast reaches the proxies at   *)
(* once or fails, which the daemon only logs.  Folders in which making a   *)
(* directory, unpacking, reading the description or announcing fails are   *)
(* those without a good image.  The box reboots in the night, as the       *)
(* comment in sendLoadInit says; the daemon is not restarted otherwise     *)
(* (deviceupdatemgr.service).                                              *)
(***************************************************************************)
EXTENDS Integers, Sequences, FiniteSets, Functions

CONSTANTS
    Proxies,            \* the proxies, and the folders with their images
    Tgz, TarGz,         \* folders with a good image in a .tgz, in a .tar.gz
    InteractiveDownload, InteractiveLoad, OneAnnouncePerRun, Delays,
                        \* what a configuration file may say
    Cuts,               \* how many keys of it are parsed before an error, or all
    DefaultDelay,       \* delayTillAnnounceTimeMin without a file (10)
    AnnounceStart,      \* what announceCounter starts with (10)
    SecondsPerMinute,   \* 60
    MonthDays           \* the days of a month

(* What a file says, in this order; what only fills the fields of broadcasts
   is left out. *)
Keys == <<"interactiveDownload", "interactiveLoad", "delayTillAnnounceTimeMin",
          "oneAnnouncePerRun", "deviceFoldersToWatch">>

NoFolders == <<>>

(* What f says, and what g says where f says nothing. *)
Over(f, g) == [k \in DOMAIN f \cup DOMAIN g |-> IF k \in DOMAIN f THEN f[k] ELSE g[k]]

FolderLists == {f \in [1..Cardinality(Proxies) -> Proxies] : IsInjective(f)}

WholeFiles ==
    [interactiveDownload : InteractiveDownload, interactiveLoad : InteractiveLoad,
     delayTillAnnounceTimeMin : Delays, oneAnnouncePerRun : OneAnnouncePerRun,
     deviceFoldersToWatch : FolderLists]

(* JSONParser::parse: a file that is no JSON from some place on gives the
   keys before that place. *)
parse(file, cut) == [k \in {Keys[i] : i \in 1..cut} |-> file[k]]

Defaults ==
    [interactiveDownload |-> FALSE, interactiveLoad |-> FALSE,
     delayTillAnnounceTimeMin |-> DefaultDelay, oneAnnouncePerRun |-> FALSE,
     deviceFoldersToWatch |-> NoFolders]

ASSUME FoldersAssumption ==
    /\ IsFiniteSet(Proxies) /\ Proxies # {}
    /\ Tgz \subseteq Proxies /\ TarGz \subseteq Proxies /\ Tgz \cap TarGz = {}
ASSUME FileAssumption ==
    /\ InteractiveDownload \cup InteractiveLoad \cup OneAnnouncePerRun \subseteq BOOLEAN
    /\ Delays \cup {DefaultDelay} \subseteq Nat
    /\ Cuts \subseteq 0..Len(Keys)
ASSUME TimeAssumption ==
    /\ SecondsPerMinute \in Nat /\ AnnounceStart \in 1..SecondsPerMinute
    /\ MonthDays \in Nat /\ MonthDays >= Cardinality(Proxies)

StartSteps ==
    <<"IARM_Bus_Init", "IARM_Bus_Connect", "IARM_Bus_RegisterEvent", "AcceptUpdate",
      "READY_TO_DOWNLOAD", "DOWNLOAD_STATUS", "LOAD_STATUS", "ERROR">>

Idle == "idle"
Free == "free"

VARIABLES
    main,               \* "start", "load", "run", "scan" or "gone"
    step,               \* the number of StartSteps made
    file,               \* what the configuration file that is found gives
    config,             \* the settings in force
    announceCounter,
    folders,            \* the folders the scan has still to look at
    announced,          \* the proxies that have heard ANNOUNCE today
    day,                \* of the month
    mapMutex,           \* the proxy whose AcceptUpdate holds it, or Free
    nextID,
    updatesInProgress,  \* id -> [percent, loadComplete, error]
    accept,             \* where the AcceptUpdate of each proxy is
    session,            \* the answer to it: id and the two flags
    st,                 \* where each proxy is
    events,             \* its events that are not handled yet
    unheard             \* history: the proxies whose last DOWNLOAD_INITIATE or LOAD_INITIATE failed

mainVars    == <<main, step, file, config, announceCounter, folders>>
sessionVars == <<mapMutex, nextID, updatesInProgress, accept, session>>
proxyVars   == <<st, events, unheard>>
vars        == <<mainVars, announced, day, sessionVars, proxyVars>>

NoSession == [id |-> 0, interactiveDownload |-> FALSE, interactiveLoad |-> FALSE]

(* A box that has just booted. *)
Booted ==
    [main |-> "start", step |-> 0, config |-> Defaults, announceCounter |-> AnnounceStart,
     folders |-> NoFolders, announced |-> {}, mapMutex |-> Free, nextID |-> 1,
     updatesInProgress |-> <<>>,
     accept |-> [p \in Proxies |-> Idle], session |-> [p \in Proxies |-> NoSession],
     st |-> [p \in Proxies |-> Idle], events |-> [p \in Proxies |-> <<>>]]

Init ==
    /\ main = Booted.main /\ step = Booted.step /\ config = Booted.config
    /\ file \in {parse(f, n) : f \in WholeFiles, n \in Cuts}
    /\ announceCounter = Booted.announceCounter /\ folders = Booted.folders
    /\ announced = Booted.announced /\ day \in 1..MonthDays
    /\ mapMutex = Booted.mapMutex /\ nextID = Booted.nextID
    /\ updatesInProgress = Booted.updatesInProgress
    /\ accept = Booted.accept /\ session = Booted.session
    /\ st = Booted.st /\ events = Booted.events
    /\ unheard = {}

-----------------------------------------------------------------------------
(* deviceUpdateStart, loadConfig and main. *)

StartStep ==
    /\ main = "start"
    /\ step' = step + 1
    /\ main' = IF step' = Len(StartSteps) THEN "load" ELSE "start"
    /\ UNCHANGED <<file, config, announceCounter, folders, announced, day, sessionVars, proxyVars>>

(* The next step fails; deviceUpdateStop finds nothing initialized. *)
StartFails ==
    /\ main = "start"
    /\ main' = "gone"
    /\ UNCHANGED <<step, file, config, announceCounter, folders, announced, day, sessionVars, proxyVars>>

(* The settings that the file does not have stay as they are.  Without a list
   of folders main calls deviceUpdateStop and returns. *)
LoadConfig ==
    /\ main = "load"
    /\ config' = Over(file, config)
    /\ main' = IF "deviceFoldersToWatch" \in DOMAIN file THEN "run" ELSE "gone"
    /\ UNCHANGED <<step, file, announceCounter, folders, announced, day, sessionVars, proxyVars>>

-----------------------------------------------------------------------------
(* deviceUpdateRun. *)

AnnounceTime == config.delayTillAnnounceTimeMin * SecondsPerMinute

(* Faulty variant: the first folder is number one. *)
SelectedFromOne ==
    LET all == config.deviceFoldersToWatch
        n   == day % Len(all)
    IN  IF config.oneAnnouncePerRun THEN <<all[IF n = 0 THEN 1 ELSE n]>> ELSE all

(* With oneAnnouncePerRun the day of the month picks one folder. *)
Selected ==
    LET all == config.deviceFoldersToWatch
    IN  IF config.oneAnnouncePerRun THEN <<all[(day % Len(all)) + 1]>> ELSE all

(* One second; past AnnounceTime the counter is never equal to it again. *)
Tick ==
    /\ main = "run"
    /\ announceCounter <= AnnounceTime
    /\ \/ /\ announceCounter = AnnounceTime
          /\ folders' = Selected /\ main' = "scan"
          /\ UNCHANGED announceCounter
       \/ /\ announceCounter # AnnounceTime
          /\ announceCounter' = announceCounter + 1
          /\ UNCHANGED <<folders, main>>
    /\ UNCHANGED <<step, file, config, announced, day, sessionVars, proxyVars>>

(* processDeviceFolder takes a .tgz; the test for .tar.gz finds the dot of
   .gz again and never succeeds. *)
IsImage(f) == f \in Tgz

(* processDeviceFile, getEventData: the image is announced to its proxy. *)
ScanFolder ==
    LET f == Head(folders)
    IN  /\ main = "scan" /\ folders # NoFolders
        /\ folders' = Tail(folders)
        /\ announced' = IF IsImage(f) THEN announced \cup {f} ELSE announced
        /\ UNCHANGED <<main, step, file, config, announceCounter, day, sessionVars, proxyVars>>

ScanDone ==
    /\ main = "scan" /\ folders = NoFolders
    /\ main' = "run"
    /\ announceCounter' = announceCounter + 1
    /\ UNCHANGED <<step, file, config, folders, announced, day, sessionVars, proxyVars>>

-----------------------------------------------------------------------------
(* AcceptUpdate, called by a proxy that has heard of its image. *)

Serving == main \in {"load", "run", "scan"}

(* param->updateSessionID = nextID++, the read *)
AcceptReadsId(p) ==
    /\ Serving /\ p \in announced /\ st[p] = Idle /\ accept[p] = Idle
    /\ accept' = [accept EXCEPT ![p] = "read"]
    /\ session' = [session EXCEPT ![p].id = nextID]
    /\ UNCHANGED <<mainVars, announced, day, mapMutex, nextID, updatesInProgress, proxyVars>>

(* the write; then the flags and the copy *)
AcceptWritesId(p) ==
    /\ accept[p] = "read"
    /\ accept' = [accept EXCEPT ![p] = "copied"]
    /\ nextID' = session[p].id + 1
    /\ session' = [session EXCEPT ![p].interactiveDownload = config.interactiveDownload,
                                  ![p].interactiveLoad = config.interactiveLoad]
    /\ UNCHANGED <<mainVars, announced, day, mapMutex, updatesInProgress, proxyVars>>

AcceptLocks(p) ==
    /\ accept[p] = "copied" /\ mapMutex = Free
    /\ mapMutex' = p
    /\ accept' = [accept EXCEPT ![p] = "insert"]
    /\ UNCHANGED <<mainVars, announced, day, nextID, updatesInProgress, session, proxyVars>>

NewUpdate == [percent |-> 0, loadComplete |-> FALSE, error |-> FALSE]

(* map::insert keeps what is there under the same id; the call returns. *)
AcceptInserts(p) ==
    /\ accept[p] = "insert"
    /\ updatesInProgress' = Over(updatesInProgress, [id \in {session[p].id} |-> NewUpdate])
    /\ mapMutex' = Free
    /\ accept' = [accept EXCEPT ![p] = "returned"]
    /\ st' = [st EXCEPT ![p] = "accepted"]
    /\ UNCHANGED <<mainVars, announced, day, nextID, session, events, unheard>>

-----------------------------------------------------------------------------
(* _deviceUpdateEventHandler. *)

IsNext(p, kind) == Serving /\ events[p] # <<>> /\ Head(events[p]).kind = kind

Took(p) == events' = [events EXCEPT ![p] = Tail(@)]

(* getUpdateInProgress without mapMutex: while AcceptUpdate inserts, the
   search may miss what is there. *)
FindsUnlocked(id) ==
    IF id \notin DOMAIN updatesInProgress THEN {FALSE}
    ELSE IF mapMutex = Free THEN {TRUE} ELSE BOOLEAN

(* Faulty variant: READY_TO_DOWNLOAD and DOWNLOAD_STATUS are looked up like
   the others. *)
withUpdateInProgressUnlocked(id, found) == found \in FindsUnlocked(id)

(* getUpdateInProgress with mapMutex *)
withUpdateInProgress(id, found) == mapMutex = Free /\ found = (id \in DOMAIN updatesInProgress)

(* A broadcast to the proxies that wait for it; one that fails is logged. *)
Tell(waiting, to) ==
    \/ /\ st' = [p \in Proxies |-> IF p \in waiting THEN to ELSE st[p]]
       /\ unheard' = unheard \ waiting
    \/ /\ unheard' = unheard \cup waiting
       /\ UNCHANGED st

sendDownLoadInit(id) ==
    Tell({p \in Proxies : session[p].id = id /\ st[p] = "ready"}, "downloading")

HandleReady(p) ==
    /\ IsNext(p, "READY_TO_DOWNLOAD") /\ Took(p)
    /\ \E found \in BOOLEAN :
          /\ withUpdateInProgress(session[p].id, found)
          /\ IF found /\ ~config.interactiveDownload
             THEN sendDownLoadInit(session[p].id) ELSE UNCHANGED <<st, unheard>>
    /\ UNCHANGED <<mainVars, announced, day, sessionVars>>

(* The load begins at once or in the next night. *)
sendLoadInit(id) ==
    Tell({p \in Proxies : session[p].id = id /\ st[p] = "downloaded"}, "toload")

IsDownloaded(percent) == percent >= 100

HandleDownloadStatus(p) ==
    LET id      == session[p].id
        percent == Head(events[p]).value
    IN  /\ IsNext(p, "DOWNLOAD_STATUS") /\ Took(p)
        /\ \E found \in BOOLEAN :
              /\ withUpdateInProgress(id, found)
              /\ updatesInProgress' = IF found THEN [updatesInProgress EXCEPT ![id].percent = percent]
                                      ELSE updatesInProgress
              /\ IF found /\ IsDownloaded(percent) /\ ~config.interactiveLoad
                 THEN sendLoadInit(id) ELSE UNCHANGED <<st, unheard>>
        /\ UNCHANGED <<mainVars, announced, day, mapMutex, nextID, accept, session>>

(* Faulty variant: any LOAD_STATUS is taken for the end. *)
IsLoadedAtFirst(status) == status >= 0

IsLoaded(status) == status = 1

(* LOAD_STATUS; the session stays in the list when it has ended. *)
HandleLoadStatus(p) ==
    LET id == session[p].id
    IN  /\ IsNext(p, "LOAD_STATUS") /\ Took(p)
        /\ \E found \in FindsUnlocked(id) :
              updatesInProgress' =
                  IF found THEN [updatesInProgress EXCEPT ![id].loadComplete = IsLoaded(Head(events[p]).value)]
                  ELSE updatesInProgress
        /\ UNCHANGED <<mainVars, announced, day, mapMutex, nextID, accept, session, st, unheard>>

HandleError(p) ==
    LET id == session[p].id
    IN  /\ IsNext(p, "ERROR") /\ Took(p)
        /\ \E found \in FindsUnlocked(id) :
              updatesInProgress' = IF found THEN [updatesInProgress EXCEPT ![id].error = TRUE]
                                   ELSE updatesInProgress
        /\ UNCHANGED <<mainVars, announced, day, mapMutex, nextID, accept, session, st, unheard>>

-----------------------------------------------------------------------------
(* The proxies and the update master. *)

(* Proxy p goes from one place to the next and sends an event. *)
Sends(p, from, to, kind, value) ==
    /\ st[p] = from
    /\ st' = [st EXCEPT ![p] = to]
    /\ events' = [events EXCEPT ![p] = Append(@, [kind |-> kind, value |-> value])]
    /\ UNCHANGED <<mainVars, announced, day, sessionVars, unheard>>

ProxyStep(p) ==
    \/ Sends(p, "accepted", "ready", "READY_TO_DOWNLOAD", 0)
    \/ Sends(p, "downloading", "halfway", "DOWNLOAD_STATUS", 0)
    \/ Sends(p, "halfway", "downloaded", "DOWNLOAD_STATUS", 100)
    \/ Sends(p, "toload", "loading", "LOAD_STATUS", 0)
    \/ Sends(p, "loading", "updated", "LOAD_STATUS", 1)

ProxyFails(p) ==
    \E from \in {"downloading", "halfway", "toload", "loading"} : Sends(p, from, "failed", "ERROR", 0)

(* The master starts a download or a load that the daemon leaves to it. *)
MasterDownloads(p) ==
    /\ config.interactiveDownload /\ st[p] = "ready"
    /\ st' = [st EXCEPT ![p] = "downloading"]
    /\ UNCHANGED <<mainVars, announced, day, sessionVars, events, unheard>>

MasterLoads(p) ==
    /\ config.interactiveLoad /\ st[p] = "downloaded"
    /\ st' = [st EXCEPT ![p] = "toload"]
    /\ UNCHANGED <<mainVars, announced, day, sessionVars, events, unheard>>

(* The box reboots in the night: a day is longer than AnnounceTime. *)
Reboot ==
    /\ main = "gone" \/ (main = "run" /\ announceCounter > AnnounceTime)
    /\ day' = (day % MonthDays) + 1
    /\ main' = Booted.main /\ step' = Booted.step /\ config' = Booted.config
    /\ announceCounter' = Booted.announceCounter /\ folders' = Booted.folders
    /\ announced' = Booted.announced
    /\ mapMutex' = Booted.mapMutex /\ nextID' = Booted.nextID
    /\ updatesInProgress' = Booted.updatesInProgress
    /\ accept' = Booted.accept /\ session' = Booted.session
    /\ st' = Booted.st /\ events' = Booted.events
    /\ unheard' = {}
    /\ UNCHANGED file

-----------------------------------------------------------------------------
MainStep == LoadConfig \/ Tick \/ ScanFolder \/ ScanDone

AcceptUpdate(p) == AcceptReadsId(p) \/ AcceptWritesId(p) \/ AcceptLocks(p) \/ AcceptInserts(p)

EventHandler(p) == HandleReady(p) \/ HandleDownloadStatus(p) \/ HandleLoadStatus(p) \/ HandleError(p)

Next ==
    \/ StartStep \/ StartFails \/ MainStep \/ Reboot
    \/ \E p \in Proxies :
          \/ AcceptUpdate(p) \/ EventHandler(p)
          \/ ProxyStep(p) \/ ProxyFails(p) \/ MasterDownloads(p) \/ MasterLoads(p)

(* main runs on and days pass. *)
Fairness == WF_vars(StartStep) /\ WF_vars(MainStep) /\ WF_vars(Reboot)

Spec == Init /\ [][Next]_vars /\ Fairness

-----------------------------------------------------------------------------
Places == {Idle, "accepted", "ready", "downloading", "halfway", "downloaded",
           "toload", "loading", "updated", "failed"}

Sessions == [id : Nat, interactiveDownload : BOOLEAN, interactiveLoad : BOOLEAN]
Updates  == [percent : Nat, loadComplete : BOOLEAN, error : BOOLEAN]
Kinds    == {"READY_TO_DOWNLOAD", "DOWNLOAD_STATUS", "LOAD_STATUS", "ERROR"}
Events   == [kind : Kinds, value : Nat]

(* The type invariant. *)
TypeOK ==
    /\ main \in {"start", "load", "run", "scan", "gone"} /\ step \in 0..Len(StartSteps)
    /\ announced \subseteq Proxies /\ day \in 1..MonthDays
    /\ mapMutex \in Proxies \cup {Free} /\ nextID \in Nat
    /\ DOMAIN updatesInProgress \subseteq Nat
    /\ updatesInProgress \in [DOMAIN updatesInProgress -> Updates]
    /\ accept \in [Proxies -> {Idle, "read", "copied", "insert", "returned"}]
    /\ session \in [Proxies -> Sessions]
    /\ st \in [Proxies -> Places]
    /\ events \in [Proxies -> Seq(Events)]
    /\ unheard \subseteq Proxies

(* A proxy that waits for the daemon is waiting for an event that is still
   under way, or was told by AcceptUpdate that a user decides, unless the
   broadcast that was meant for it failed: it is never sent again. *)
NobodyIsForgotten ==
    \A p \in Proxies : events[p] = <<>> /\ p \notin unheard =>
        /\ st[p] = "ready" => session[p].interactiveDownload
        /\ st[p] = "downloaded" => session[p].interactiveLoad

(* What the status log of deviceUpdateRun says of a session of one proxy, once
   that proxy's events are handled: all of the image is down exactly if the
   proxy has it, and an end or an error of the load is not made up.  (An end
   may be missed, see LoadEndIsRecorded.) *)
HasImage == {"downloaded", "toload", "loading", "updated"}

Alone(p) ==
    /\ accept[p] = "returned"
    /\ \A q \in Proxies : accept[q] = "returned" /\ session[q].id = session[p].id => q = p

RecordsAreTrue ==
    \A p \in Proxies : Alone(p) /\ events[p] = <<>> =>
        LET update == updatesInProgress[session[p].id]
        IN  /\ st[p] # "failed" => (IsDownloaded(update.percent) <=> st[p] \in HasImage)
            /\ update.loadComplete => st[p] = "updated"
            /\ update.error => st[p] = "failed"

(* deviceUpdateRun: "to make sure all types get updated" every image in a
   watched folder is announced again and again as the days pass, also when
   each run announces one folder only, once the daemon starts every day.  A
   delay of zero is never reached. *)
EveryTypeIsAnnounced ==
    \A p \in Tgz \cup TarGz :
        /\ "deviceFoldersToWatch" \in DOMAIN file
        /\ file.delayTillAnnounceTimeMin > 0
        /\ <>[](main # "gone")
        => []<>(p \in announced)

-----------------------------------------------------------------------------
(* What the documents say and the code does not do; refuted by the
   configurations named in the README. *)

(* test_deviceUpdateMgr.cpp, MultipleAccepts_SessionIDsAreUnique *)
SessionIDsAreUnique ==
    \A p, q \in Proxies :
        accept[p] = "returned" /\ accept[q] = "returned" /\ session[p].id = session[q].id => p = q

(* getUpdateInProgress, "Caller must hold mapMutex": the end of a load is
   recorded. *)
LoadEndIsRecorded ==
    \A p \in Proxies :
        st[p] = "updated" /\ events[p] = <<>> => updatesInProgress[session[p].id].loadComplete
=============================================================================
