# TLA+ verification of iarmmgrs

This directory holds TLA+ models of the iarmmgrs daemons, TLC configurations
that check them on small instances, and TLAPS proofs, for instances of every
size, of the safety properties those runs check. `PROJECT.json` lists components, runs, hazards,
findings and theorems, and maps every definition that models code to its lines.

    tlc -config DsMgrEventQueue.cfg DsMgrEventQueue    # one run
    tlapm DsMgrEventQueueProofs.tla                    # one set of proofs

## 1. The system

iarmmgrs is a set of daemons that talk over the IARM bus: events are broadcast
and delivered to registered handlers on a dispatch thread of the receiver;
calls (RPC) run on threads of the receiver as clients make them.

| Daemon | State it keeps | Operations | Talks to |
|---|---|---|---|
| DSMgr (`src/dsmgr`) | event list and worker; resolution fallback list, cached EDID checksum; display status, HDCP and tune ready flags; power event queue, standby settings of the video ports; bootloader pattern flag | HDMI hot plug, HDCP, tune ready, EAS events; power events; IARM calls for standby, LED, ports, reboot | device settings library (DS), PowerController, SysMgr, MFRMgr |
| SysMgr (`src/sysmgr`) | table of system states, HDCP profile file, key code logging preference | SYSTEMSTATE events; get states, get/set profile, get/set preference | MFRMgr for the serial number; broadcasts to everybody |
| MFRMgr (`src/mfr`) | progress of an image write, caller's buffer, functions of the library found so far | 24 calls: serialized data, image write, verify and mirror, boot pattern and splash screen, secure time, Wi-Fi, scrub, temperature and clock; reports of image jobs | manufacturer library |
| MFR RPC server and client (`src/mfr/common/rpc`) | one mutex, initialised flag, progress of a write; in a client its callback | 15 calls, each a stub in the client and a handler in the server; reports of image jobs | manufacturer library |
| DeviceUpdateMgr (`src/deviceUpdateMgr`) | settings, announce counter, map of update sessions and its mutex, next session id | announce, AcceptUpdate, READY_TO_DOWNLOAD, DOWNLOAD_STATUS, LOAD_STATUS, ERROR | device update proxies, update master |
| DiskMgr (`src/disk`) | none | none besides start and stop | - |

What is hard in this code, and what the properties are about (the full list
with lines is under `hazards` in `PROJECT.json`):

* DSMgr has an IARM dispatch thread, an event worker, a resolution thread, a
  power event thread, a connect thread, a retry thread, threads of IARM calls
  and a GLib main loop. They share flags of which few are protected.
* Callbacks arrive with bus locks held, so what a callback may wait for decides
  whether the box deadlocks.
* Condition variables are waited on without a test (resolution thread), or
  with the test and the data under different mutexes (power event queue).
* Several values are looked at once and used later: the EDID checksum, the
  power state at boot, the serial number, the tune ready state.
* MFRMgr may be up, late or absent; calls fail; a retry may come after a newer
  request.
* A start that fails half way leaves a running daemon.
* MFRMgr has no lock: whether the library is busy is read off a status that its
  own threads write. The MFR RPC server has one lock, holds it for as long as an
  image is written, unlocks it twice in some handlers and locks it twice in one.
* DeviceUpdateMgr answers several devices at once, some of its handlers take the
  mutex of the map and some do not, and what it announces depends on a counter,
  a date and a reboot every night.

## 2. Modules

| Module | Code | What it models |
|---|---|---|
| `EventChannel` | - | Abstract specification: accepted events are handed over once, in order, until the channel is closed |
| `DsMgrEventQueue`, `DsMgrEventQueueProofs` | `dsMgr.c` 263-288, 378-387, 460-635 | Callback, linked list, worker, start and stop, with bus, DS and queue locks |
| `DsMgrResolution`, `MCDsMgrResolution`, `DsMgrResolutionProofs` | `dsMgr.c` 105-186, 342-343, 711-933, 1011-1281, 1545-1585 | Which resolution is set, as a function of EDID, platform, persisted and current resolution, and the state that decides between the latter two |
| `DsMgrHotplug` | `dsMgr.c` 92-103, 295-347, 637-754, 1292-1350 | Event worker, resolution thread and main loop reacting to hot plug, HDCP and tune ready |
| `DsMgrPower`, `MCDsMgrPower`, `DsMgrPowerProofs` | `dsMgrPwrEventListener.c`, parts of `dsMgrProductTraitsHandler.cpp` | Power event queue and thread, connect thread, IARM calls, ports, LED, standby table, stop |
| `DsMgrBootPattern`, `DsMgrBootPatternProofs` | `dsMgrProductTraitsHandler.cpp`, `dsMgrPwrEventListener.c` | Bootloader pattern: requests, cancellable retry, MFRMgr that starts late |
| `SysMgr`, `SysMgrProofs` | `sysMgr.c` | Start, state table, serial number, HDCP profile, key code logging preference |
| `DsMgrAudio` | `dsMgr.c` 404-438, 1353-1513, `dsMgrPwrEventListener.c` 618-623 | Stereo forced during an emergency alert, by four threads that set audio modes |
| `MfrMgr`, `MfrMgrProofs` | `mfrMgr.c`, `mfrMgrMain.c` | Start, the 24 calls, lookup of the library's functions, image jobs and their reports |
| `MfrServer`, `MfrServerProofs` | `mfrSrv.c`, `mfrCli.c` | Start, the 15 calls from the client's stub through the handler and back, the mutex, image jobs and who hears of them |
| `DeviceUpdate`, `DeviceUpdateProofs` | `deviceUpdateMgrMain.cpp`, `jsonParser.cpp` | Start and settings, announcements over the days, sessions of the proxies |

How they fit together: `DsMgrEventQueue` justifies the plain sequence that
stands between the HAL and the worker in `DsMgrHotplug`. `DsMgrHotplug`
decides *when* and by whom `_SetVideoPortResolution` is called,
`DsMgrResolution` what a call does. `DsMgrPower` and `DsMgrBootPattern` split
the work of one power event: ports and LED in the first, the bootloader
pattern in the second, which share no state. `EventChannel` is what both event
queues implement; `SysMgr` is the other end of the broadcasts and of the
tune ready query of `DsMgrHotplug`. `DsMgrAudio` takes the calls of
`_setAudioMode` that `DsMgrHotplug` and `DsMgrPower` make and looks into them.
The call that `DsMgrBootPattern` sees succeed or fail is the handler
`setBootloaderPattern_` of `MfrMgr`.

### Correspondence of state and actions

Variables keep the names of the C variables. A variable that the code does not
have is commented as such where it is declared: `history` variables record what
happened and are read by properties only, `bound` constants cap counters.
A thread is a function `pc`; a step is the stretch of code between two points
where another thread can interfere: a lock or unlock, a wait, a call to another
process, or an access to a shared variable that no lock protects. A critical
section that touches only what its lock protects is one step. Operators whose
comment says "Faulty variant" are not part of the specification: each is a
plausible bug of the operator that follows it, used to show that a property
would notice it.

* `DsMgrEventQueue`. `evtQ` is the list from `evtQHead`; tail and count are kept
  apart, as in the code, so that a stale tail or count shows. `DsClients` are the
  threads of DS that hold a DS lock and need the bus, the other half of the
  deadlock the comment at `dsMgr.c` 461 describes. Every lock is a step.
* `DsMgrResolution`. A resolution is a record of base and frame rate. One call
  of `_SetVideoPortResolution` is one step. `phase` is how far `DSMgr_Start` is,
  since the first call comes before `setupPlatformConfig`. A display is its
  ordered EDID list with a checksum. `parseResolution` is modelled by what it
  returns for the pointer size of the build.
* `DsMgrHotplug`. The four shared flags, the GLib timers with their ids, and one
  position per thread. Of a display it is kept whether it sends an EDID with
  resolutions, without which `_SetVideoPortResolution` returns and sets nothing. The resolution thread wakes by a signal that arrives
  while it waits, or spuriously.
* `DsMgrPower`. The two mutexes of the queue and of the condition, the
  settings table with its limit, and per thread the state it applies with the
  ports it has still to do, so that two appliers interleave port by port.
* `DsMgrBootPattern`. The only thread that holds the mutex across a step is the
  retry, which calls MFRMgr with it. A call fails while MFRMgr is down and may fail
  when it is up.
* `SysMgr`. `SYSMgr_Start` is a step per registration, because a registered call
  or handler can be invoked at once; an event stores the state and the rest of
  an entry in two steps. One state id stands for each way the switch of the
  handler treats an id. A field of the table is a token that tells which event it
  came from, or 0, which events and MFRMgr may bring too. A data race on `keyLogStatus` is a choice between the
  value the compiler knows and the one in memory.
* `DsMgrAudio`. Each thread has the ports its loop has still to set, and the
  mode it is about to set, so that loops interleave between the look at `isEAS`
  and each port. The persisted modes stay.
* `MfrMgr`. The handlers differ in six things only (how the function is looked
  up, what is refused, how it may fail, whether `lastStatus` is looked at,
  whether it is reset, whether a job starts), so each is a row of `Table`; the
  steps they share are the actions. `writeImageCb` is two steps, broadcast and
  store, since the client may act on the first before the second. `told` and
  `cause` are history.
* `MfrServer`. The same scheme, with a row for the stub and one for the handler
  of each call. `mfrLock` is a pthread mutex of the default kind. `stray` is
  history: a second unlock has freed the mutex of somebody else.
* `DeviceUpdate`. `updatesInProgress` maps ids to sessions; a handler that
  takes `mapMutex` waits for it, one that does not may miss the entry. Calls of
  AcceptUpdate overlap and may read the same `nextID`. `unheard` is history: the
  proxies that a failed broadcast was meant for. The
  folder of the day is chosen with the remainder of the day of the month.
  Proxies, update master and the reboot in the night are external.

## 3. Runs

"pass" runs check the listed properties; "violation" runs show that the code
does not do what a comment, a document or a test says (section 6).

| Run | Instance | Checks |
|---|---|---|
| `event_queue` | queue of 2, 4 events, one DS client | types and queue limit; the list is well formed; arrival order; a woken worker finds an item; no cycle of waiting threads; implements `EventChannel`; a queued event is processed unless the worker is stopped; a stop ends |
| `resolution_all_edids` | every ordered list of at most three of nine resolutions, EU or not, 4K disabled or not, every persisted resolution | the display lists what is set; the fallback is the best below the start; no 4K when disabled, if the display lists the default |
| `resolution_swap` | four displays, two exchanges, a user setting, the EDID timer, three ports | the persisted resolution is restored at boot; repeated calls do not move the resolution |
| `power_events` | TV, a video and an audio port, two power changes among on, off and standby, one failure, a stop at any time | ports follow the last event, but for a port that failed and for events that came before the connect thread had ended; the queue implements `EventChannel`; every queued event is handled; a stop ends |
| `power_calls` | EU box, a power change, two calls of any kind, a name that is no port's, a table of one entry | the table does not overflow; a port reads the last setting, unless it found no room; ports and LED follow the last event that came after the connect thread had ended, unless a call has touched them since |
| `bootpattern` | TV, three power changes, a reboot request, three retries, MFRMgr up at any time or never and failing calls, `GetPowerState` that may fail | a late request cancels the retry in time and is never overwritten by it; the boot pattern arrives if nobody asks for another; requests end |
| `hotplug` | three events, one spurious wakeup, displays with and without an EDID | a display that sends its EDID and passes HDCP gets its resolution; delayed handlers end |
| `sysmgr` | two clients, two calls of any kind, two events, state 0 and an empty payload among what they carry, a start that may fail at each registration, serial number, empty or not, from MFRMgr, media client build | replies are not torn or out of date and defaults do not wipe out events, but for the three states a media client puts over the table; announced profile and file agree; a known serial number is lost only to an empty event or answer; everybody gets through |
| `mfr_mgr` | two threads, two calls of four kinds (linked, looked up once, WriteImage, MirrorImage), bad arguments, a missing function, `dlopen` and start that fail | nobody is refused an image because of a job that is over, although jobs overlap; the daemon is not busy for ever |
| `mfr_server` | three clients, four calls among Init, WriteImage, DeletePDRI and Shutdown, bad arguments, a start that fails | until a second unlock has spoilt the mutex, one handler at a time is in the library and a write is answered with the end of its own job; every call ends, unless the mutex is spoilt or shut down |
| `device_update` | three folders, two with an image, a month of four days, every value of the settings, files cut off after two keys, failing starts, downloads and broadcasts, overlapping AcceptUpdate | no proxy is forgotten, but for one whose broadcast failed; what is recorded of a session of one proxy is what the proxy did; every image is announced again and again |
| `eas_overlap` | HDMI and SPDIF, three settings of the modes | (violation) an alert is heard in stereo on every port |

`TypeOK` of the modules whose run does not list it holds for the same
instances. `AlertIsHeard` and `TypeOK` of `DsMgrAudio` hold with `Overlap = FALSE`
(2,296 states), that is when the four threads never run at the same time.

Why the bounds are enough. A queue of two is empty, partly full and full, and
with four events one is dropped and another accepted after it; the proofs
remove these bounds anyway. Three list entries are enough for each of the
searches of `_SetResolution` to succeed, to fail and to depend on the order. Two
power changes around the one initial application, and three for the boot
pattern, give every order of event, connect and retry; a further change only
repeats one of them. In `power_calls` a table of one entry is full after one
call, so the second finds its entry, finds room or finds none. Every race found
in `DsMgrHotplug` needs a connect, its HDCP result and one more event. In
`SysMgr` a torn reply needs one event and one call, a lost update two events,
the profile and serial number races two calls. In `MfrMgr` two image jobs overlap
with two calls, each of which reports several times; handlers with equal rows
behave alike, so one of each kind of row is run. In `MfrServer`
a double unlock that does harm needs three handlers: the one that unlocks, the
one that loses the mutex and the one that takes it. In `DeviceUpdate` a month of
four days and three folders give remainders that skip; a minute of two seconds
and delays of 0, 1 and the default reach, miss and pass the announcement.

Three assumptions of the passing runs name what the code does not ensure, and
section 6 shows what happens without each: the HDCP profile can be stored and
announced (`sysmgr`, `SetMayFail = FALSE`); a job reports STARTED until it ends,
as `mfrTypes.h` says (`mfr_server`, `Detailed = FALSE`); images are packed as
`.tgz` (`device_update`). `mfr_mgr` is run with a library that reports VERIFYING
and FLASHING, since one that reports STARTED only never makes the daemon busy;
its theorem covers both. What a property itself exempts is part of its
definition and named in the table.

Deadlock is checked in the runs of the event queue, of the resolution and of
DeviceUpdateMgr. The others say `CHECK_DEADLOCK FALSE`: their environment runs out of events, and
the daemons then rightly wait.

### Fairness

Only the program's own threads are assumed to be scheduled (WF of each
thread's steps); nothing is assumed of displays, power changes, clients or the
start of MFRMgr. Calls to other processes return: IARM calls have a timeout.
In `DsMgrEventQueue` and `DsMgrPower` the threads that compete for a mutex
which another thread takes again and again have SF: a pthread mutex does not
starve a waiter for ever while it is free infinitely often. `DsMgrHotplug`,
`DsMgrBootPattern` and `SysMgr` need WF only, and so do `MfrMgr`, `MfrServer`
(the calls are bounded, so nobody takes the mutex for ever) and `DeviceUpdate`.
In the MFR modules a job of the manufacturer's library reports its end, which
the server's polling loop relies on. In `DeviceUpdate` main runs on and days
pass; the proxies and the master need not do anything.

## 4. What is proved

`DsMgrEventQueueProofs`, for every queue limit above zero, number of events and
set of DS clients:

* `TypeCorrectness`, `EventsInArrivalOrder`, `ListIsSafe`, `HeadIsSafe`: the invariants
  `TypeOK`, `ArrivalOrder`, `ListWellFormed` and `HeadNotNull`. None of them is
  inductive alone. `IInv` adds `LocksMatchPcs` (who holds which lock is decided
  by the positions of the threads), `ArrivedIsNewest` (the dispatcher's event is
  newer than all accepted ones) and `StopIsFinal` (only the main thread stops,
  once, and the worker exits only then).
* `NoDeadlockCycle`: `NoWaitCycle`. The argument is `LockOrder`: a thread only
  waits for a lock of higher rank than all it holds, with DS below bus below
  `evtQMutex`. It follows from `LocksMatchPcs`, and a cycle of waiting threads
  would need a rank below itself.
* `Refinement`: the queue implements `EventChannel`, with `accepted` mapped to
  itself, `processed` to `handed` and `~evtQStop` to `open`; each action is a
  step of the channel or leaves it unchanged.

`DsMgrBootPatternProofs`, for every number of retries, power changes and reboot
requests and both profiles:

* `TypeCorrectness`: in particular the unsigned retry counter stays above zero
  while the retry thread runs.
* `LateRequestCancels`: `RetryIsCancelled`, the inductive core. A request that
  began after the connect thread had ended has set the flag before it calls
  MFRMgr, and no retry that looked at the flag earlier still holds the mutex.
* `LatestRequestWins`: `LatestRequestStands`. Without the core it is not
  inductive: a retry that has passed its test could still write.
* `BootPatternIsSet`: `BootPatternStands`. `BootInv` says that the retry
  thread wants the connect thread's pattern and that, while no request has set
  another, this pattern is in place when the connect thread is done and no
  retry runs, or when the retry has ended uncancelled with retries left.

`DsMgrPowerProofs`, for every sequence of video and audio ports, size of the
standby table and number of power changes, calls and failures:

* `TypeCorrectness`: `TypeOK`, the limit of the standby table included.
* `Refinement`: the power queue implements `EventChannel`. `NumberInv` says that
  the queue holds the numbers that follow the last one taken; `ExitInv` that the
  queue is torn down only after the event thread has exited, when the channel is
  closed.
* `SettingStays`: `SettingIsKept`. `get_video_port_standby_setting` reads the
  first entry with a name, so `SettingInv` has to know that no name is twice in
  the table.
* `PortsAreSet`: `PortsFollowPower`. `TodoInv` says what is left to do at each
  position of the event thread, `FollowInv` that each port is then still to be
  done, as the event asks, or touched by a call or a failure.

`DsMgrResolutionProofs`, for every platform, every display list of any length and
order and any number of displays, calls, user settings and timers:

* `ShownResolution`, `BootRestores`, `RepeatKeeps`: `ShownByTv`,
  `BootRestoresPersisted` and the action property `RepeatKeepsResolution`, from
  `CallInv`: what a call has set is on the display's list, was forced by the 4K
  override, or is the default since nothing fits.
* `Never4KWhenDisabled`: `No4KWhenDisabled`. `ListInv` says that 4K is at the head
  of the fallback list or nowhere, so a search that starts behind an entry never
  finds it.
* `FallbackIsNextBest`: `FallbackIsBest`, under the hypothesis `PointerSize = 8`
  (`DsMgrResolutionParse32.cfg` refutes it for 4). `ListInv` also says that the
  list is the platform's once `setupPlatformConfig` has run; `ListHeights` that it
  goes down in height; `SearchResult` that the search ends at the first entry
  behind the one started from that has a supported name.
* `TypeCorrectness`.

`SysMgrProofs`, for every set of callers and ids and any number of events and
calls:

* `WholeReplies`, `NoLostUpdates`: the action property `RepliesAreWhole` and
  `UpdatesStick`. `LockInv` says at which positions of the start and of the event
  handler `tMutexLock` is held, and that the table is empty and no event handled
  until the start has released it; `TableInv` that an entry is the last event's in
  every field, except the one the dispatch thread is storing, which is described
  by its position, and the states a media client has put over it (`Overridden`:
  channel map, tuning, and a time source only if the event brought 0).
* `SerialNumberStays`: the action property `SerialNumberIsKept`, with empty events
  and empty answers of MFRMgr, which do take the number away, among the steps.
* `ProfileIsTold`: `ProfileToldIsTheFile`, under the hypothesis `SetMayFail =
  FALSE` (`SysMgrProfileFile.cfg` refutes it without).
* `TypeCorrectness`.

`MfrMgrProofs`, for every set of callers, of built in handlers and of missing
functions, and any number of calls:

* `RefusalsAreDue`: `RefusedOnlyWhileActive`, for a library of either kind and any
  number of overlapping jobs, MirrorImage included. The status alone does not
  say which job it is about: `ReportInv` says that a report being stored is the
  last one of its job, `StatusInv` that a busy status is that of a job which is
  still at this report, or which is storing a later one.

`MfrServerProofs`, for every set of clients and any number of calls:

* `OneInLibrary`: `AloneInLibrary`. `LockInv` says that as long as `stray` is false
  the mutex belongs to the one handler that is between its lock and its unlock,
  and which positions each handler can be at.
* `WriteIsAnswered`: `WriteAnswerIsItsEnd`, under the hypothesis `Detailed = FALSE`,
  which is what `mfrTypes.h` 433-437 documents of the library
  (`MfrServerDetailed.cfg` refutes it without). `WriteInv` says that only
  the client that is writing has a job that can still report, and that
  `lastStatus` is at most one report behind that job.
* `TypeCorrectness`.

`DeviceUpdateProofs`, for every set of proxies, folders and days, any settings and
any number of reboots:

* `ProxiesAreServed`: `NobodyIsForgotten`, with no hypothesis on the calls.
  `AcceptInv` says that a proxy whose call of AcceptUpdate has returned has its
  session in `updatesInProgress` and was told the interactive flags of the
  configuration; `WaitInv` that a waiting proxy has its event under way.
* `TrueRecords`: `RecordsAreTrue`, with no hypothesis on the calls either: it is
  about sessions of one proxy, since calls of AcceptUpdate that overlap put two
  proxies into one (`DeviceUpdateSameId.cfg`). `RecordInv` relates the record to
  the proxy and to the events under way, since a record is late until these are
  handled, and `Honest` says which event a proxy sends at which step.
* `TypeCorrectness`: `TypeOK`, the map of sessions, the answers of AcceptUpdate and
  the events under way included.

Besides the hypotheses named above, the proofs assume only what the modules
state as named `ASSUME`s about their constants, which TLC evaluates on every
run: bounds are naturals, ports of the device are sequences of names with no
name both video and audio (`PortsAssumption`) and none called LED
(`LedAssumption`), the default resolution is not 4K (`DefaultAssumption`), the
caller called `None` does not exist (`CallersAssumption`), and the like. Each
inductive invariant was checked by TLC on the instances of section 3 before it
was proved.

Only model-checked: all liveness properties, which are beyond the prover
(`QueuedIsProcessed`, `StopCompletes`, `PowerEventHandled`, `RequestsEnd`,
`EverybodyGetsThrough`, `BusyIsNotForever`, `CallsEnd`, `EveryTypeIsAnnounced`,
everything in `DsMgrHotplug`), and `DsMgrAudio`, whose one claim is refuted.

## 5. What is not modelled

* DiskMgr registers its events and sleeps; `rdkProfile.c` reads one word, which
  is the constant `Profile`; the crypto wrapper, stubs, tests and headers keep
  no state of interest. Of the JSON parser only what it returns for a file that
  is broken from some place on.
* What the manufacturer's library reads and writes: a call of it succeeds or
  fails. The answer of `mfrGetDFAST2Data`, which is never copied back to the
  client. `dlclose`: the processes link the library, so a function that was
  found stays valid. `MFRLib_Stop`, which follows an endless loop.
* In DeviceUpdateMgr the time of day at which a device is told to load, the
  status log and the values only copied into broadcasts; a list of folders that
  is empty, for which the folder of the day is a division by zero; a proxy that
  repeats its 100 per cent, which is told to load again.
* In DSMgr the tune ready query against its event end to end with SysMgr, the
  broadcast of the HDCP state to SysMgr, which nothing repeats when it fails
  (`dsMgr.c` 731-748), and a display whose checksum is 0, which counts as new on
  every call.
* Undefined behaviour after `pthread_mutex_destroy` and re-initialisation of a
  mutex in use (`dsMgrPwrEventListener.c` 969, `dsMgr.c` 296).
* Failing allocation and copying (in `MfrServer` one with a failure of the library,
  in `DeviceUpdate` a failing `mkdir`, `tar` or description with a folder that has
  no good image), failing DS calls in the resolution search, logging and telemetry. `SYSMgr_Stop`, which follows an endless loop.

## 6. Disagreements with documents, comments or tests

One is a run: `eas_overlap`. `_setAudioMode` looks at `isEAS` once and then
sets every port; when an alert begins in between, the persisted pass through
mode overwrites the stereo of the alert and stays. `findings` in `PROJECT.json`
quotes the lines.

The other claims that the models refute have a configuration of their own each,
which TLC answers with a counterexample. A configuration marked "with" serves
another claim as well: put the property of the row in place of its own, with the
change of constants that is given.

| Configuration | Property | What the code does |
|---|---|---|
| `DsMgrResolutionLastEntry.cfg` | `SupportedByTvAndPlatform` | The search for a common resolution does not stop at the one it finds and ends at the display's last entry |
| `DsMgrPowerTransition.cfg` | `TransitionIsApplied` | A power state read at boot is applied after, and over, a newer event |
| `DsMgrHotplugAudio.cfg` | `AudioOnHotplug` | A hot plug signalled while the resolution thread is busy is lost, and its audio mode never set |
| `SysMgrSerial.cfg` | `SerialEventSticks` | A serial number from an event is overwritten by a late answer, or by the failure, of MFRMgr |
| `DsMgrResolutionBoot.cfg` | `BestEdidResolution` | The first resolution is set with an empty fallback list and may be lower than the best one |
| `DsMgrResolutionPersisted.cfg` | `PersistedIsRead` | The EDID timer consumes the answer that the display is new, and the persisted resolution is not read |
| `DsMgrResolutionParse32.cfg` | `FallbackIsBest` | With four byte pointers the base name loses its letter and the fallback starts from the top |
| `DsMgrPowerStandby.cfg` | `AppliedRightAway` | A standby setting is applied according to the power state of the boot |
| `DsMgrBootPatternRetry.cfg` | `RetryIsFirst` | A request just before the connect thread allows the retry is overwritten by it; hence the word "late" in what is proved |
| `DsMgrBootPatternRetry.cfg` with | `SilentOnlyInStandby` | A failing request cancels the retry and is not tried again |
| `DsMgrHotplugSerialized.cfg` | `ResolutionSettingIsSerialized` | Two threads set the resolution at the same time |
| `DsMgrHotplugSerialized.cfg` with, `MaxEvents = 4` | `HotplugRemovesSource` | The delayed handler clears the id of a newer timer |
| `DsMgrHotplugIgnoreEdid.cfg` | `IgnoreEdidOnlyDuringBoot` | An ignored EDID is still used by the resolution thread |
| `DsMgrHotplugAudio.cfg` with | `TuneReadyAppliesAudio` | A tune ready event that races with the query of it is ignored |
| `SysMgrProfileFile.cfg` | `ProfileToldIsTheFile` | A profile that could not be stored is announced |
| `SysMgrHdcpDefault.cfg` | `HdcpIsEnabledByDefault` | A start that fails after READY leaves HDCP reported as disabled |
| `SysMgrPrefRace.cfg` with, `CallsDuringStart = TRUE` | `PrefSetIsInForce` | A preference set during the start is undone by the default |
| `SysMgrPrefRace.cfg` | `PrefToldIsInForce` | Two overlapping settings leave announcement and preference different |
| `MfrMgrBackToBack.cfg` | `OneJobAtATime` | A library that reports STARTED, and not VERIFYING, is given a second image while it works on the first |
| `MfrMgrMirror.cfg` | `OneJobAtATime` | MirrorImage does not look at `lastStatus` and starts while an image is written |
| `MfrMgrCbData.cfg` with | `RefusedOnlyWhileRunning` | A client that has heard of the end of its image is refused the next, since the end is broadcast before it is stored |
| `MfrMgrCbData.cfg` | `StatusCarriesItsData` | Reports after the call has returned read the caller's data where its argument was |
| `MfrMgrLookup.cfg` | `UnresolvedOnly` | SetBootloaderPattern fails for ever after one failed `dlopen`, and while another thread is looking it up |
| `MfrServerAlone.cfg` | `AlwaysAlone` | The second unlock of a handler frees the mutex of another, and two are in the library |
| `MfrServerDetailed.cfg` | `WriteAnswerIsItsEnd` | A write whose job reports VERIFYING is answered as failed while the job still runs |
| `MfrServerHears.cfg` | `WriterHears` | A writer whose Init succeeded never hears of its write: only a failed Init registers for the event |
| `MfrServerShutdown.cfg` | `ShutdownEnds` | The handler of a shutdown waits for a mutex it holds |
| `DeviceUpdateSameId.cfg` | `SessionIDsAreUnique` | Two calls of AcceptUpdate that overlap get the same session |
| `DeviceUpdateTarGz.cfg` | `EveryTypeIsAnnounced` | An image in a `.tar.gz` is never announced: the search for the dot before `.gz` finds that dot again |
| `DeviceUpdateLoadEnd.cfg` | `LoadEndIsRecorded` | The end of a load, looked up without the mutex while AcceptUpdate inserts, is missed |

## 7. Plan

1. `Overlap = FALSE` of `DsMgrAudio`: `AlertIsHeard` as a theorem.
2. Lemmas that several proofs state for themselves (the smallest member of a
   small set, what is left of a sequence without its head) in a module they share.
3. Compositions: DSMgr with SysMgr (tune ready query against event, HDCP state
   broadcasts end in the table); `DsMgrBootPattern` with the start of `MfrMgr`.
