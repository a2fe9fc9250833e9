----------------------------- MODULE DsMgrAudio -----------------------------
(***************************************************************************)
(* Audio modes and emergency alerts (dsmgr/dsMgr.c, _SysModeChange,        *)
(* _setAudioMode, _setEASAudioMode; dsMgrPwrEventListener.c,               *)
(* _SetAVPortsPowerState).  Four threads set the stereo mode of the audio  *)
(* ports, one port after the other and without a lock: the call of IARM    *)
(* that begins and ends an alert, the event worker when the tuner is ready *)
(* for the first time, the resolution thread after each hot plug and the   *)
(* power listener when it switches the ports on.  Each looks at isEAS once *)
(* before its loop.                                                        *)
(*                                                                         *)
(* The device settings library is external: a mode that is set is what is  *)
(* read back, and the persisted modes do not change.                       *)
(***************************************************************************)
EXTENDS Integers, Sequences, FiniteSets

CONSTANTS
    OtherPorts,         \* audio ports besides HDMI
    Modes,              \* stereo modes that may be persisted
    Overlap,            \* the four threads may run at the same time
    MaxRuns             \* bound: the number of times a thread sets the modes

Passthru == "PASSTHRU"
Stereo   == "STEREO"
Surround == "SURROUND"
Hdmi     == "HDMI"
Ports    == OtherPorts \cup {Hdmi}
Threads  == {"call", "worker", "resolution", "power"}

VARIABLES
    isEAS,              \* an alert is on
    persisted,          \* the saved mode of each port
    autoMode,           \* HDMI is in auto mode
    connected,          \* a display is connected to HDMI
    mode,               \* the mode of each port
    pc,                 \* "idle", "setAudioMode" or "setEASAudioMode" for each thread
    left,               \* the ports its loop has still to set
    setMode,            \* what its loop is about to set on which port
    runs                \* counter for the bound

vars == <<isEAS, persisted, autoMode, connected, mode, pc, left, setMode, runs>>

Nothing == [port |-> "none", mode |-> Stereo]

Init ==
    /\ isEAS = FALSE
    /\ persisted \in [Ports -> Modes]
    /\ autoMode \in BOOLEAN /\ connected \in BOOLEAN
    /\ mode = persisted
    /\ pc = [t \in Threads |-> "idle"]
    /\ left = [t \in Threads |-> {}]
    /\ setMode = [t \in Threads |-> Nothing]
    /\ runs = 0

-----------------------------------------------------------------------------
MayRun(t) ==
    /\ pc[t] = "idle" /\ runs < MaxRuns
    /\ Overlap \/ \A u \in Threads : pc[u] = "idle"

(* The check at the head of _setAudioMode and _setEASAudioMode, with the mode
   the system has then, and the loop it lets begin. *)
Enters(t, fn, eas) ==
    /\ runs' = runs + 1
    /\ IF (fn = "setEASAudioMode") = eas
       THEN /\ pc' = [pc EXCEPT ![t] = fn]
            /\ left' = [left EXCEPT ![t] = Ports]
       ELSE UNCHANGED <<pc, left>>
    /\ UNCHANGED <<persisted, autoMode, connected, mode, setMode>>

(* _SysModeChange: only a change from normal to EAS or back does something. *)
_SysModeChange(newEAS) ==
    /\ MayRun("call")
    /\ isEAS # newEAS
    /\ isEAS' = newEAS
    /\ Enters("call", IF newEAS THEN "setEASAudioMode" ELSE "setAudioMode", newEAS)

(* TUNEREADY, or the end of a hot plug. *)
SetAudioMode(t) ==
    /\ t \in {"worker", "resolution"} /\ MayRun(t)
    /\ t = "resolution" => connected
    /\ Enters(t, "setAudioMode", isEAS)
    /\ UNCHANGED isEAS

(* The ports are switched on during an alert. *)
PowerOn ==
    /\ MayRun("power") /\ isEAS
    /\ Enters("power", "setEASAudioMode", isEAS)
    /\ UNCHANGED isEAS

(* _setEASAudioMode: _dsGetStereoMode; pass through becomes stereo. *)
EasMode(p) == IF mode[p] = Passthru THEN Stereo ELSE mode[p]

(* _setAudioMode: the persisted mode, or surround on an HDMI port in auto mode. *)
WantedMode(p) == IF p = Hdmi /\ autoMode THEN Surround ELSE persisted[p]

(* The loop takes the next port; _setAudioMode leaves HDMI alone when there is
   no display. *)
NextPort(t, p) ==
    /\ pc[t] # "idle" /\ setMode[t] = Nothing /\ p \in left[t]
    /\ left' = [left EXCEPT ![t] = @ \ {p}]
    /\ setMode' = IF pc[t] = "setAudioMode" /\ p = Hdmi /\ ~connected THEN setMode
                  ELSE [setMode EXCEPT ![t] =
                           [port |-> p,
                            mode |-> IF pc[t] = "setAudioMode" THEN WantedMode(p) ELSE EasMode(p)]]
    /\ UNCHANGED <<isEAS, persisted, autoMode, connected, mode, pc, runs>>

(* _dsSetStereoMode *)
SetPort(t) ==
    /\ setMode[t] # Nothing
    /\ mode' = [mode EXCEPT ![setMode[t].port] = setMode[t].mode]
    /\ setMode' = [setMode EXCEPT ![t] = Nothing]
    /\ UNCHANGED <<isEAS, persisted, autoMode, connected, pc, left, runs>>

Leaves(t) ==
    /\ pc[t] # "idle" /\ setMode[t] = Nothing /\ left[t] = {}
    /\ pc' = [pc EXCEPT ![t] = "idle"]
    /\ UNCHANGED <<isEAS, persisted, autoMode, connected, mode, left, setMode, runs>>

(* External: the cable. *)
Plug ==
    /\ connected' = ~connected
    /\ UNCHANGED <<isEAS, persisted, autoMode, mode, pc, left, setMode, runs>>

Next ==
    \/ \E eas \in BOOLEAN : _SysModeChange(eas)
    \/ PowerOn \/ Plug
    \/ \E t \in Threads :
          SetAudioMode(t) \/ (\E p \in Ports : NextPort(t, p)) \/ SetPort(t) \/ Leaves(t)

Spec == Init /\ [][Next]_vars

-----------------------------------------------------------------------------
(* The type invariant. *)
TypeOK ==
    /\ isEAS \in BOOLEAN /\ connected \in BOOLEAN /\ autoMode \in BOOLEAN
    /\ mode \in [Ports -> Modes \cup {Stereo, Surround}]
    /\ pc \in [Threads -> {"idle", "setAudioMode", "setEASAudioMode"}]
    /\ left \in [Threads -> SUBSET Ports]
    /\ runs \in 0..MaxRuns

Quiet == \A t \in Threads : pc[t] = "idle"

(* README.md: "forces stereo audio during EAS".  While an alert is on and
   nobody is setting modes, no port passes its audio through, past the alert:
   that is so as long as the threads do not overlap. *)
AlertIsHeard == isEAS /\ Quiet => \A p \in Ports : mode[p] # Passthru
=============================================================================
