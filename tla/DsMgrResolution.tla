-------------------------- MODULE DsMgrResolution --------------------------
(***************************************************************************)
(* How DSMgr picks the resolution of a video port (dsmgr/dsMgr.c):         *)
(* setupPlatformConfig, getSecondaryResolution, _SetVideoPortResolution,   *)
(* _SetResolution with its helpers, and dumpEdidOnChecksumDiff, whose      *)
(* cached checksum decides whether the user's persisted resolution or the  *)
(* current one is the starting point.                                      *)
(*                                                                         *)
(* A resolution name is a base and a frame rate: "1080p60" is              *)
(* [base |-> "1080p", fps |-> "60"], "720p" has the empty rate.  Two names *)
(* compare equal in the code exactly if these records are equal.  Each     *)
(* call of _SetVideoPortResolution is one step here; DsMgrHotplug models   *)
(* the threads that make the calls.                                        *)
(***************************************************************************)
EXTENDS Naturals, Sequences, SequencesExt, FiniteSetsExt

CONSTANTS
    PlatformResolutions,  \* what _dsGetVideoPortResolutions returns: a set of resolutions
    DefaultResolution,    \* its member at _dsGetDefaultResolutionIndex
    TVs,                  \* the displays that may be connected
    NoTV,                 \* nothing is connected
    AnalogPorts,          \* the ports other than HDMI that have a handle
    EUPlatforms,          \* the possible answers of isEUPlatform
    ForceDisable4K,       \* the possible answers of _dsGetForceDisable4K
    IgnoreEDIDStatus,     \* the possible answers of _dsGetIgnoreEDIDStatus at start
    PointerSize,          \* the size of a pointer in the build
    MaxPlugs, MaxUserSets, MaxTimers   \* bounds: TV changes, user settings, pending timers

Res(b, f) == [base |-> b, fps |-> f]

Bases == {"2160p", "1080p", "1080i", "720p", "576p", "480p"}

(* The height of a base in the fallback list, for the properties. *)
Height == [b \in Bases |->
    CASE b = "2160p" -> 6 [] b = "1080p" -> 5 [] b = "1080i" -> 4
      [] b = "720p" -> 3 [] b = "576p" -> 2 [] b = "480p" -> 1]

RES_MAX_COUNT == 6

ASSUME PlatformAssumption == DefaultResolution \in PlatformResolutions
ASSUME DefaultAssumption  == DefaultResolution.base # "2160p"
ASSUME PointerAssumption  == PointerSize \in {4, 8}
ASSUME NoTVAssumption     == NoTV \notin TVs
ASSUME AnalogAssumption   == AnalogPorts \subseteq {"COMPONENT", "BB", "RF"}
ASSUME EdidAssumption     == \A t \in TVs : t.edid \in Seq(ToSet(t.edid)) /\ t.checksum \in Nat
ASSUME AnswersAssumption  == EUPlatforms \cup ForceDisable4K \cup IgnoreEDIDStatus \subseteq BOOLEAN
ASSUME BoundsAssumption   == {MaxPlugs, MaxUserSets, MaxTimers} \subseteq Nat

Ports == {"HDMI"} \cup AnalogPorts

VARIABLES
    phase,                   \* how far DSMgr_Start is
    IsEUPlatform,
    fallBackResolutionList,
    bootup_flag_enabled,
    cached_EDID_checksum,
    dumpTimers,              \* pending g_timeout sources of dumpEdidOnChecksumDiff
    tv,                      \* the connected display, or NoTV
    persisted,               \* DS library: the user's resolution of each port
    current,                 \* DS library: the resolution each port has
    disable4K, IsIgnoreEdid_gs,
    plugs, userSets,         \* counters for the bounds
    last                     \* history: the last resolution set on HDMI and from what

dsVars   == <<persisted, current>>
envVars  == <<tv, disable4K, IsIgnoreEdid_gs, plugs, userSets>>
platVars == <<phase, IsEUPlatform, fallBackResolutionList>>
vars == <<platVars, bootup_flag_enabled, cached_EDID_checksum, dumpTimers, dsVars, envVars, last>>

EmptyList == [i \in 1..RES_MAX_COUNT |-> ""]
NoCall == [made |-> FALSE]

Init ==
    /\ phase = "starting"
    /\ IsEUPlatform = FALSE
    /\ fallBackResolutionList = EmptyList
    /\ bootup_flag_enabled = TRUE
    /\ cached_EDID_checksum = 0
    /\ dumpTimers = 0
    /\ tv \in TVs \cup {NoTV}
    /\ \E r \in PlatformResolutions :
          persisted = [p \in Ports |-> r] /\ current = [p \in Ports |-> DefaultResolution]
    /\ disable4K \in ForceDisable4K
    /\ IsIgnoreEdid_gs \in IgnoreEDIDStatus
    /\ plugs = 0 /\ userSets = 0
    /\ last = NoCall

-----------------------------------------------------------------------------
(* Names. *)

(* What setupPlatformConfig stores: 576p only for EU, the rest of the array
   stays empty. *)
PlatformList(eu) ==
    IF eu THEN <<"2160p", "1080p", "1080i", "720p", "576p", "480p">>
          ELSE <<"2160p", "1080p", "1080i", "720p", "480p", "">>

(* getSecondaryResolution: the 60 Hz name of the same base, if there is one. *)
SecondaryResolution(r) ==
    CASE r.base \in {"720p", "1080i"}  -> {Res(r.base, "")}
      [] r.base \in {"1080p", "2160p"} -> {Res(r.base, "60")}
      [] OTHER                         -> {}

(* parseResolution: the digits of the name and its letter.  The letter is
   written with the size of a pointer less the number of digits as its room,
   which on a 32 bit build is none: then no entry of the list is matched. *)
ParseResolution(r) == IF PointerSize = 8 THEN r.base ELSE "digits only"

(* getFallBackResolution: the name tried for an entry of the list. *)
FallBackResolution(b, eu) ==
    CASE eu /\ b \in {"2160p", "1080p", "720p"} -> Res(b, "50")
      [] eu /\ b = "1080i"                      -> Res(b, "25")
      [] ~eu /\ b \in {"2160p", "1080p"}        -> Res(b, "60")
      [] OTHER                                  -> Res(b, "")

(* isResolutionSupported: by the TV and by the platform. *)
ResolutionSupported(edid, r) == r \in ToSet(edid) /\ r \in PlatformResolutions

(* dumpEdidOnChecksumDiff: TRUE if the TV's EDID is not the cached one. *)
EdidDiff == tv # NoTV /\ (cached_EDID_checksum = 0 \/ tv.checksum # cached_EDID_checksum)
CacheEdid == cached_EDID_checksum' = IF EdidDiff THEN tv.checksum ELSE cached_EDID_checksum

-----------------------------------------------------------------------------
(* The choice _SetResolution makes for a TV. *)

(* The names tried for entry i: at the EU rate first on an EU platform, then at
   the default one. *)
Tried(i) ==
    IF IsEUPlatform
      THEN <<FallBackResolution(fallBackResolutionList[i], TRUE),
             FallBackResolution(fallBackResolutionList[i], FALSE)>>
      ELSE <<FallBackResolution(fallBackResolutionList[i], FALSE)>>

FirstSupported(edid, names) ==
    names[Min({k \in DOMAIN names : ResolutionSupported(edid, names[k])})]

(* Faulty variants: the list is searched from the entry itself on, or from its
   end. *)
NextBestFromSame(edid, pres) ==
    LET at == {i \in 1..RES_MAX_COUNT : fallBackResolutionList[i] = ParseResolution(pres)}
        index == IF at = {} THEN 1 ELSE Min(at)
        usable == {i \in index..RES_MAX_COUNT :
                      \E k \in DOMAIN Tried(i) : ResolutionSupported(edid, Tried(i)[k])}
    IN  IF usable = {} THEN {}
        ELSE {FirstSupported(edid, Tried(Min(usable)))}

NextBestFromEnd(edid, pres) ==
    LET at == {i \in 1..RES_MAX_COUNT : fallBackResolutionList[i] = ParseResolution(pres)}
        index == IF at = {} THEN 1 ELSE Min(at)
        usable == {i \in index + 1..RES_MAX_COUNT :
                      \E k \in DOMAIN Tried(i) : ResolutionSupported(edid, Tried(i)[k])}
    IN  IF usable = {} THEN {}
        ELSE {FirstSupported(edid, Tried(Max(usable)))}

(* The first entry after the one of pres (after the first entry, if pres is not
   in the list) with a supported name. *)
NextBest(edid, pres) ==
    LET at == {i \in 1..RES_MAX_COUNT : fallBackResolutionList[i] = ParseResolution(pres)}
        index == IF at = {} THEN 1 ELSE Min(at)
        usable == {i \in index + 1..RES_MAX_COUNT :
                      \E k \in DOMAIN Tried(i) : ResolutionSupported(edid, Tried(i)[k])}
    IN  IF usable = {} THEN {}
        ELSE {FirstSupported(edid, Tried(Min(usable)))}

The(S) == CHOOSE r \in S : TRUE

(* Faulty variants: the default is taken whether or not the TV lists it; the
   TV's list is looked at for the persisted resolution only. *)
ChosenDefaultUnchecked(edid, pres) ==
    LET secondary == {r \in SecondaryResolution(pres) :
                         IsEUPlatform /\ ResolutionSupported(edid, r)}
    IN  IF pres \in ToSet(edid) THEN pres
        ELSE IF secondary # {} THEN The(secondary)
        ELSE IF NextBest(edid, pres) # {} THEN The(NextBest(edid, pres))
        ELSE DefaultResolution

ChosenSkipsCurrent(edid, pres) ==
    IF (bootup_flag_enabled \/ EdidDiff) /\ pres \in ToSet(edid) THEN pres
    ELSE IF NextBest(edid, pres) # {} THEN The(NextBest(edid, pres))
    ELSE IF DefaultResolution \in ToSet(edid) THEN DefaultResolution
    ELSE IF ToSet(edid) \cap PlatformResolutions # {} THEN Last(edid)
    ELSE DefaultResolution

(* The checks in the order of the code.  The last loop over the TV's list has
   no outer break: it ends at the TV's last entry, whichever one was found to
   be supported. *)
Chosen(edid, pres) ==
    LET secondary == {r \in SecondaryResolution(pres) :
                         IsEUPlatform /\ ResolutionSupported(edid, r)}
    IN  IF pres \in ToSet(edid) THEN pres
        ELSE IF secondary # {} THEN The(secondary)
        ELSE IF NextBest(edid, pres) # {} THEN The(NextBest(edid, pres))
        ELSE IF DefaultResolution \in ToSet(edid) THEN DefaultResolution
        ELSE IF Res("480p", "") \in ToSet(edid) THEN Res("480p", "")
        ELSE IF ToSet(edid) \cap PlatformResolutions # {} THEN Last(edid)
        ELSE DefaultResolution

(* 4K is disabled and the resolution started from is 4K. *)
Override(pres) == disable4K /\ pres.base = "2160p"

-----------------------------------------------------------------------------
(* Calls. *)

(* Faulty variant: the starting point is never the persisted resolution. *)
StartFromCurrent(p) == current[p]

(* _dsGetResolution: the persisted resolution at boot or for a new EDID. *)
StartFrom(p) ==
    IF bootup_flag_enabled \/ EdidDiff THEN persisted[p] ELSE current[p]

(* A TV in low power mode sends no list; nothing is set for it nor for DVI. *)
SetHdmi ==
    LET pres == StartFrom("HDMI")
        resn == IF Override(pres) THEN DefaultResolution ELSE Chosen(tv.edid, pres)
    IN  IF tv.edid = <<>> \/ ~tv.hdmiDeviceType
          THEN UNCHANGED <<current, last>>
          ELSE /\ current' = [current EXCEPT !["HDMI"] = resn]
               /\ last' = [made |-> TRUE, tv |-> tv, from |-> pres, to |-> resn,
                           boot |-> bootup_flag_enabled, overridden |-> Override(pres),
                           persisted |-> persisted["HDMI"],
                           listReady |-> phase = "running", eu |-> IsEUPlatform]

(* The first analog port with a handle: component, then composite, then RF. *)
SetAnalog ==
    LET port == IF "COMPONENT" \in AnalogPorts THEN "COMPONENT"
                ELSE IF "BB" \in AnalogPorts THEN "BB" ELSE "RF"
        pres == StartFrom(port)
        resn == IF pres \in PlatformResolutions /\ ~Override(pres) THEN pres ELSE DefaultResolution
    IN  /\ current' = IF port \in AnalogPorts THEN [current EXCEPT ![port] = resn] ELSE current
        /\ UNCHANGED last

SetVideoPortResolution ==
    /\ IF tv # NoTV THEN SetHdmi ELSE SetAnalog
    /\ CacheEdid

NoCallMade == UNCHANGED <<current, last, cached_EDID_checksum>>

-----------------------------------------------------------------------------
(* Start: the first call comes before the platform configuration. *)

InitialSet ==
    /\ phase = "starting"
    /\ phase' = "initial resolution set"
    /\ SetVideoPortResolution
    /\ UNCHANGED <<IsEUPlatform, fallBackResolutionList, bootup_flag_enabled, dumpTimers,
                   persisted, envVars>>

SetupPlatformConfig ==
    /\ phase = "initial resolution set"
    /\ phase' = "running"
    /\ \E eu \in EUPlatforms :
          IsEUPlatform' = eu /\ fallBackResolutionList' = PlatformList(eu)
    /\ UNCHANGED <<bootup_flag_enabled, cached_EDID_checksum, dumpTimers, dsVars, envVars, last>>

(* HDCP status events, processed by the event worker, which runs before the
   initial call does; the display may be gone by then. *)
HdcpAuthenticated ==
    /\ dumpTimers < MaxTimers
    /\ dumpTimers' = dumpTimers + 1
    /\ IF ~IsIgnoreEdid_gs \/ bootup_flag_enabled
         THEN SetVideoPortResolution /\ bootup_flag_enabled' = FALSE
         ELSE NoCallMade /\ UNCHANGED bootup_flag_enabled
    /\ UNCHANGED <<platVars, persisted, envVars>>

HdcpFailure ==
    /\ dumpTimers < MaxTimers
    /\ dumpTimers' = dumpTimers + 1
    /\ IF ~IsIgnoreEdid_gs THEN SetVideoPortResolution ELSE NoCallMade
    /\ UNCHANGED <<platVars, bootup_flag_enabled, persisted, envVars>>

(* The resolution thread after a hot plug, or the delayed handler. *)
HotplugCall ==
    /\ SetVideoPortResolution
    /\ UNCHANGED <<platVars, bootup_flag_enabled, dumpTimers, persisted, envVars>>

(* The one second timer, served by the main loop that runs after DSMgr_Start:
   GLib calls it again as long as it returns TRUE. *)
DumpTimer ==
    /\ phase = "running"
    /\ dumpTimers > 0
    /\ dumpTimers' = IF EdidDiff THEN dumpTimers ELSE dumpTimers - 1
    /\ CacheEdid
    /\ UNCHANGED <<platVars, bootup_flag_enabled, dsVars, envVars, last>>

-----------------------------------------------------------------------------
(* The environment: displays come and go, the user sets a resolution. *)

Plug(t) ==
    /\ plugs < MaxPlugs /\ t # tv
    /\ tv' = t
    /\ plugs' = plugs + 1
    /\ UNCHANGED <<platVars, bootup_flag_enabled, cached_EDID_checksum, dumpTimers, dsVars,
                   disable4K, IsIgnoreEdid_gs, userSets, last>>

UserSetsResolution(r) ==
    /\ userSets < MaxUserSets
    /\ userSets' = userSets + 1
    /\ persisted' = [persisted EXCEPT !["HDMI"] = r]
    /\ current' = [current EXCEPT !["HDMI"] = r]
    /\ UNCHANGED <<platVars, bootup_flag_enabled, cached_EDID_checksum, dumpTimers,
                   tv, disable4K, IsIgnoreEdid_gs, plugs, last>>

Next ==
    \/ InitialSet \/ SetupPlatformConfig
    \/ HdcpAuthenticated \/ HdcpFailure \/ HotplugCall \/ DumpTimer
    \/ \E t \in TVs \cup {NoTV} : Plug(t)
    \/ \E r \in PlatformResolutions : UserSetsResolution(r)

Spec == Init /\ [][Next]_vars

-----------------------------------------------------------------------------
(* Type of the state: the variables of dsMgr.c 118-120 and 195-198, the DS
   library's settings and the history of the last call. *)
TypeOK ==
    /\ phase \in {"starting", "initial resolution set", "running"}
    /\ IsEUPlatform \in BOOLEAN
    /\ fallBackResolutionList \in [1..RES_MAX_COUNT -> Bases \cup {""}]
    /\ bootup_flag_enabled \in BOOLEAN
    /\ cached_EDID_checksum \in Nat
    /\ dumpTimers \in 0..MaxTimers
    /\ tv \in TVs \cup {NoTV}
    /\ persisted \in [Ports -> PlatformResolutions]
    /\ DOMAIN current = Ports /\ \A p \in Ports \ {"HDMI"} : current[p] \in PlatformResolutions
    /\ disable4K \in BOOLEAN /\ IsIgnoreEdid_gs \in BOOLEAN
    /\ plugs \in 0..MaxPlugs /\ userSets \in 0..MaxUserSets
    /\ last.made \in BOOLEAN /\ (last.made => last.tv \in TVs)

Common(t) == ToSet(t.edid) \cap PlatformResolutions

(* The TV can show what it is sent (dsMgr.c 1074-1207): whenever the TV and the
   platform have a resolution in common, the one that is set is on the TV's
   list, unless the 4K override forced the default. *)
ShownByTv ==
    last.made /\ Common(last.tv) # {} /\ ~last.overridden => last.to \in ToSet(last.tv.edid)

(* The names the fallback looks for; 576p is one of them for EU only. *)
StandardNames(eu) ==
    IF eu THEN {FallBackResolution(b, rate) : b \in Bases, rate \in BOOLEAN}
          ELSE {FallBackResolution(b, FALSE) : b \in Bases \ {"576p"}}

(* What TV and platform share and the fallback looks for, below the resolution
   started from. *)
Lower ==
    {r \in Common(last.tv) \cap StandardNames(last.eu) :
        Height[r.base] < Height[last.from.base]}

(* The resolution started from is not on the TV's list, not even at the EU
   platform's other rate, but is in the fallback list. *)
FallsBack ==
    /\ last.from \notin ToSet(last.tv.edid)
    /\ last.eu => SecondaryResolution(last.from) \cap Common(last.tv) = {}
    /\ last.from.base \in Bases /\ (last.eu \/ last.from.base # "576p")

(* Fallback goes to the next best resolution (the comment at dsMgr.c 1110): to
   the highest one below the resolution started from, neither higher nor
   lower, whatever the order of the TV's list. *)
FallbackIsBest ==
    last.made /\ ~last.overridden /\ last.listReady /\ FallsBack /\ Lower # {}
        => Height[last.to.base] = Max({Height[r.base] : r \in Lower})

(* At boot the port gets the user's persisted resolution if the TV shows it
   (dsMgr.c 1015-1016, 1078-1089). *)
BootRestoresPersisted ==
    last.made /\ last.boot /\ ~last.overridden /\ last.persisted \in ToSet(last.tv.edid)
        => last.to = last.persisted

(* With 4K disabled, a TV that shows the default resolution is never sent 4K,
   whichever way the resolution was found (dsMgr.c 1117-1149, 1238-1249). *)
No4KWhenDisabled ==
    last.made /\ disable4K /\ DefaultResolution \in ToSet(last.tv.edid)
        => last.to.base # "2160p"

(* A further call for the same TV, not at boot and with no new EDID, keeps the
   resolution that the call before it set, unless that is one the 4K override
   takes away: the port does not creep down the list from call to call
   (dsMgr.c 1018-1024). *)
RepeatKeepsResolution ==
    [][ /\ last.made /\ tv = last.tv /\ current["HDMI"] = last.to
        /\ ~last.overridden /\ ~Override(last.to)
        /\ ~bootup_flag_enabled /\ ~EdidDiff
        /\ UNCHANGED userSets
        => current'["HDMI"] = current["HDMI"] ]_vars

(* The comment at dsMgr.c 940, "If fails set best EDID resolution supported by
   platform", for every call, the one made while DSMgr starts included. *)
BestEdidResolution ==
    last.made /\ ~last.overridden =>
        \A r \in Lower : Height[r.base] <= Height[last.to.base]

(* The comment at dsMgr.c 1191, "Boot with  the Resolution Supported by TV and
   Platform": what is set is supported by both if anything is. *)
SupportedByTvAndPlatform ==
    last.made /\ Common(last.tv) # {} /\ ~last.overridden => last.to \in Common(last.tv)

(* The comment at dsMgr.c 938-939, "Read Persisted resolution; Verify Persisted
   resolution with Platform and EDID resolution": a TV that shows the user's
   persisted resolution gets it. *)
PersistedIsRead ==
    last.made /\ ~last.overridden /\ last.persisted \in Common(last.tv)
        => last.to = last.persisted
=============================================================================
