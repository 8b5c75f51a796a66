---------------------------- MODULE AudioRoute -----------------------------
(***************************************************************************)
(* Routing in AudioHardware.cpp: which sound device the driver is set to,  *)
(* from the phone's mode, the devices of the output and of the input, TTY  *)
(* and the second microphone.  The policy's thread calls the hardware, the *)
(* playback threads the output and the VoIP output, the record thread the  *)
(* input; doRouting and setMicMute hold mLock, while setMode,              *)
(* clearCurDevice and the parameters write without it.  The driver may     *)
(* refuse each setting.  When the threads call is AudioFlinger's, external.*)
(*                                                                         *)
(* The build has no FM and no LPA output; what else the VoIP streams do is *)
(* in AudioVoip.                                                           *)
(***************************************************************************)
EXTENDS Integers, FiniteSets

CONSTANTS MaxRouteOps   \* operations called in all

RouteThreads == {"binder", "player", "voip", "recorder"}
OutDevices == {{"EARPIECE"}, {"SPEAKER"}, {"HEADSET"}, {"SCO"}, {"CARKIT"},
               {"HEADSET", "SPEAKER"}}
InDevices == {"none", "BUILTIN_MIC", "HEADSET", "VOICE_CALL"}
NoDevice == "-1"

VARIABLES
    hw,         \* mMode, mMicMute, mCurSndDevice, mTtyMode, mDualMicEnabled
    routeLock,  \* who holds mLock, or "free"
    job,        \* of each thread: where it is, and the device it routes to
    outDevices, \* mDevices of the output
    hpcm,       \* hpcm_playback_in_progress
    buffers,    \* mStartCount of the output, or -1 in standby
    input,      \* the input: open, mState, mDevices
    voipDevices,\* mDevices of the VoIP output, the argument of its doRouting
    snd,        \* the sound driver: device, ear_mute, mic_mute, volume
    audppOn,    \* the device post-processing is on for, or NoDevice
    pending,    \* the policy has not routed since it changed the mode
    routedFor,  \* the output whose devices doRouting took last
    refused,    \* what the driver refused when it was last to be set
    routeOps    \* operations called so far

streams == <<outDevices, hpcm, buffers, input, voipDevices>>
sndDriver == <<snd, refused>>
routeVars == <<hw, routeLock, job, streams, sndDriver, audppOn, pending, routedFor,
               routeOps>>

AtRest == [at |-> "idle", to |-> NoDevice]
NoInput == [open |-> FALSE, mState |-> "CLOSED", mDevices |-> "none"]
RouteInit ==
    /\ hw = [mMode |-> "NORMAL", mMicMute |-> TRUE, mCurSndDevice |-> NoDevice,
             mTtyMode |-> "OFF", mDualMicEnabled |-> FALSE]
    /\ routeLock = "free" /\ job = [t \in RouteThreads |-> AtRest]
    /\ outDevices = {"SPEAKER"} /\ hpcm = FALSE /\ buffers = -1
    /\ voipDevices = {"SPEAKER"} /\ routedFor = "output" /\ refused = {}
    /\ input = NoInput
    /\ snd = [device |-> NoDevice, ear_mute |-> TRUE, mic_mute |-> TRUE,
              volume |-> 0]
    /\ audppOn = NoDevice /\ pending = TRUE /\ routeOps = 0

Resting(t) == job[t].at = "idle"
Begin(t, at) ==
    /\ Resting(t) /\ routeOps < MaxRouteOps /\ routeOps' = routeOps + 1
    /\ job' = [job EXCEPT ![t].at = at]
Continue(t, at) == job' = [job EXCEPT ![t].at = at]

-----------------------------------------------------------------------------
(* What doRouting selects with the output devices d, those of the output   *)
(* or the argument.  No endpoint is looked up for the car kit, so its      *)
(* device stays -1 and nothing is routed.                                  *)
TtyDevice ==
    CASE hw.mTtyMode = "FULL" -> "TTY_HEADSET"
      [] hw.mTtyMode = "VCO" -> "TTY_VCO"
      [] hw.mTtyMode = "HCO" -> "TTY_HCO"
OnTty(d) == hw.mTtyMode # "OFF" /\ hw.mMode = "IN_CALL" /\ "HEADSET" \in d
OutputRoute(d) ==
    CASE OnTty(d) -> TtyDevice
      [] ~OnTty(d) /\ {"HEADSET", "SPEAKER"} \subseteq d ->
           "STEREO_HEADSET_AND_SPEAKER"
      [] d = {"SCO"} -> "BT"
      [] d = {"CARKIT"} -> NoDevice
      [] ~OnTty(d) /\ d = {"HEADSET"} -> "HEADSET"
      [] d = {"SPEAKER"} -> "SPEAKER"
      [] d = {"EARPIECE"} -> "HANDSET"
InputRoute(d) ==
    CASE input.mDevices = "HEADSET" -> "HEADSET"
      [] input.mDevices = "BUILTIN_MIC" ->
           IF "SPEAKER" \in d THEN "SPEAKER" ELSE "HANDSET"
      [] input.mDevices = "VOICE_CALL" -> NoDevice
      [] input.mDevices = "none" -> OutputRoute(d)
DualMic(device) ==
    IF ~hw.mDualMicEnabled \/ hw.mMode # "IN_CALL" THEN device
    ELSE CASE device = "HANDSET" -> "IN_S_SADC_OUT_HANDSET"
           [] device = "SPEAKER" -> "IN_S_SADC_OUT_SPEAKER_PHONE"
           [] OTHER -> device
Selected(forInput, d) ==
    DualMic(IF forInput THEN InputRoute(d) ELSE OutputRoute(d))

(* doAudioRouteOrMute: both mutes come from the mode and mMicMute now.  A  *)
(* new device with an open microphone is set with the microphone muted     *)
(* first; the driver may refuse either call.                               *)
SND_DEVICE_CURRENT == "current"
SND_SET_DEVICE(device, mic) ==
    [snd EXCEPT !.device = IF device = SND_DEVICE_CURRENT THEN @ ELSE device,
                !.mic_mute = mic,
                !.ear_mute = hw.mMode \notin {"IN_CALL", "IN_COMMUNICATION"}]
doAudioRouteOrMute(device, mic) ==
    LET asked == IF device = SND_DEVICE_CURRENT THEN {"mic"} ELSE {"device", "mic"}
    IN \/ snd' = SND_SET_DEVICE(device, mic) /\ refused' = refused \ asked
       \/ UNCHANGED snd /\ refused' = refused \cup asked
       \/ /\ device # SND_DEVICE_CURRENT /\ ~mic
          /\ snd' = SND_SET_DEVICE(device, TRUE) /\ refused' = {"mic"}

(* doRouting: under mLock, select; set the driver if the selection is new; *)
(* then move post-processing over and remember the device, also one that   *)
(* the driver refused.                                                     *)
doRouting(t) ==
    \E forInput \in BOOLEAN :
      /\ job[t].at = (IF forInput THEN "doRouting(this)" ELSE "doRouting")
      /\ routeLock = "free"
      /\ routedFor' = IF t = "voip" THEN "voip" ELSE "output"
      /\ LET selected == Selected(forInput, IF t = "voip" THEN voipDevices
                                                         ELSE outDevices)
         IN IF selected \in {NoDevice, hw.mCurSndDevice}
              THEN Continue(t, "idle") /\ UNCHANGED routeLock
              ELSE /\ job' = [job EXCEPT ![t] = [at |-> "set", to |-> selected]]
                   /\ routeLock' = t
      /\ UNCHANGED <<hw, streams, sndDriver, audppOn, pending, routeOps>>
RouteSet(t) ==
    /\ job[t].at = "set" /\ doAudioRouteOrMute(job[t].to, hw.mMicMute)
    /\ Continue(t, "store")
    /\ UNCHANGED <<hw, routeLock, streams, audppOn, pending, routedFor, routeOps>>
RouteStore(t) ==
    /\ job[t].at = "store" /\ job' = [job EXCEPT ![t] = AtRest]
    /\ hw' = [hw EXCEPT !.mCurSndDevice = job[t].to]
    /\ audppOn' = IF hpcm THEN job[t].to ELSE audppOn
    /\ routeLock' = "free"
    /\ UNCHANGED <<streams, sndDriver, pending, routedFor, routeOps>>
(* clearCurDevice, without the lock.                                       *)
clearCurDevice(t) ==
    \E next \in {"idle", "doRouting(this)"} :
      /\ job[t].at = (IF next = "idle" THEN "clear" ELSE "clear, route")
      /\ hw' = [hw EXCEPT !.mCurSndDevice = NoDevice]
      /\ Continue(t, next)
      /\ UNCHANGED <<routeLock, streams, sndDriver, audppOn, pending, routedFor,
                     routeOps>>

-----------------------------------------------------------------------------
(* The hardware's operations, on the policy's thread.                      *)
setMode ==
    /\ Begin("binder", "clear")
    /\ \E m \in {"NORMAL", "IN_CALL", "IN_COMMUNICATION"} \ {hw.mMode} :
         hw' = [hw EXCEPT !.mMode = m]
    /\ pending' = TRUE
    /\ UNCHANGED <<routeLock, streams, sndDriver, audppOn, routedFor>>
setMicMute ==
    /\ routeLock = "free" /\ Begin("binder", "idle")
    /\ \E state \in BOOLEAN :
         IF hw.mMicMute = state THEN UNCHANGED <<hw, sndDriver>>
         ELSE /\ hw' = [hw EXCEPT !.mMicMute = state]
              /\ doAudioRouteOrMute(SND_DEVICE_CURRENT, state)
    /\ UNCHANGED <<routeLock, streams, audppOn, pending, routedFor>>
(* setParameters.  A Bluetooth name that is no endpoint's routes anew, and *)
(* so does the second microphone; TTY only from the plain headset.         *)
setBluetoothName ==
    /\ Begin("binder", "doRouting")
    /\ UNCHANGED <<hw, routeLock, streams, sndDriver, audppOn, pending, routedFor>>
DualMicUnrouted == "idle"                                           \* faulty variant
AfterDualMic == "doRouting"
setDualMic ==
    /\ Begin("binder", AfterDualMic)
    /\ \E on \in BOOLEAN : hw' = [hw EXCEPT !.mDualMicEnabled = on]
    /\ UNCHANGED <<routeLock, streams, sndDriver, audppOn, pending, routedFor>>
setTtyMode ==
    /\ \E tty \in {"OFF", "FULL", "VCO", "HCO"} :
         hw' = [hw EXCEPT !.mTtyMode = tty]
    /\ Begin("binder", IF hw.mMode = "IN_CALL" /\ hw.mCurSndDevice = "HEADSET"
                         THEN "doRouting" ELSE "idle")
    /\ UNCHANGED <<routeLock, streams, sndDriver, audppOn, pending, routedFor>>
(* setVoiceVolume looks at the device before it takes the lock.            *)
setVoiceVolume ==
    /\ Begin("binder", IF hw.mCurSndDevice \in {"TTY_HEADSET", "TTY_VCO"}
                         THEN "volume 1" ELSE "volume")
    /\ UNCHANGED <<hw, routeLock, streams, sndDriver, audppOn, pending, routedFor>>
set_volume_rpc ==
    /\ job["binder"].at \in {"volume", "volume 1"} /\ routeLock = "free"
    /\ snd' = [snd EXCEPT !.volume = IF job["binder"].at = "volume" THEN 5 ELSE 1]
    /\ Continue("binder", "idle")
    /\ UNCHANGED <<hw, routeLock, streams, refused, audppOn, pending, routedFor,
                   routeOps>>
OnlyInput == UNCHANGED <<hw, routeLock, outDevices, hpcm, buffers, voipDevices,
                         sndDriver, audppOn, pending, routedFor>>
(* A new input is made with its devices and CLOSED or, if the driver could *)
(* be opened, OPENED; a second one is refused.  Closing it puts it in      *)
(* standby.                                                                *)
openInputStream ==
    /\ ~input.open /\ routeLock = "free" /\ Begin("binder", "idle")
    /\ \E d \in InDevices \ {"none"} :
         input' = [open |-> TRUE, mState |-> "OPENED", mDevices |-> d]
    /\ OnlyInput
closeInputStream ==
    /\ input.open /\ Resting("recorder") /\ Begin("binder", "clear, route")
    /\ input' = [input EXCEPT !.open = FALSE, !.mState = "CLOSED"]
    /\ OnlyInput

-----------------------------------------------------------------------------
(* The output, on its thread.  The policy sends a routing after a change   *)
(* of the mode, once setMode has returned, and whenever else it likes.     *)
AUDIO_HW_NUM_OUT_BUF == 2
setOutputRouting ==
    /\ job["binder"].at # "clear" /\ Begin("player", "doRouting")
    /\ outDevices' \in OutDevices /\ pending' = FALSE
    /\ UNCHANGED <<hw, routeLock, hpcm, buffers, input, voipDevices, sndDriver,
                   audppOn, routedFor>>
(* The VoIP output passes its devices as doRouting's argument.             *)
setVoipRouting ==
    /\ Begin("voip", "doRouting") /\ voipDevices' \in OutDevices
    /\ UNCHANGED <<hw, routeLock, outDevices, hpcm, buffers, input, sndDriver,
                   audppOn, pending, routedFor>>
(* Playback starts, with post-processing, when two buffers are filled.     *)
write ==
    /\ buffers # 0 /\ Begin("player", "idle")
    /\ buffers' = (IF buffers = -1 THEN AUDIO_HW_NUM_OUT_BUF ELSE buffers) - 1
    /\ IF buffers' = 0
         THEN hpcm' = TRUE /\ audppOn' = hw.mCurSndDevice
         ELSE UNCHANGED <<hpcm, audppOn>>
    /\ UNCHANGED <<hw, routeLock, outDevices, input, voipDevices, sndDriver, pending,
                   routedFor>>
standby ==
    /\ buffers # -1 /\ Begin("player", "idle") /\ buffers' = -1
    /\ hpcm' = FALSE /\ audppOn' = NoDevice
    /\ UNCHANGED <<hw, routeLock, outDevices, input, voipDevices, sndDriver, pending,
                   routedFor>>

(* The input, on its thread.                                               *)
setInputRouting ==
    /\ input.open /\ Begin("recorder", "doRouting(this)")
    /\ \E d \in InDevices : input' = [input EXCEPT !.mDevices = d]
    /\ OnlyInput
(* A recording that cannot be started goes to standby.                     *)
read ==
    /\ input.open /\ input.mState # "STARTED"
    /\ input.mState = "CLOSED" => routeLock = "free"
    /\ \/ Begin("recorder", "idle") /\ input' = [input EXCEPT !.mState = "STARTED"]
       \/ /\ Begin("recorder", "clear, route")
          /\ input' = [input EXCEPT !.mState = "CLOSED"]
    /\ OnlyInput
standbyInput ==
    /\ input.open /\ Begin("recorder", "clear, route")
    /\ input' = [input EXCEPT !.mState = "CLOSED"]
    /\ OnlyInput

RouteNext ==
    \/ \E t \in RouteThreads :
         doRouting(t) \/ RouteSet(t) \/ RouteStore(t) \/ clearCurDevice(t)
    \/ setMode \/ setMicMute \/ setBluetoothName \/ setDualMic \/ setTtyMode
    \/ setVoiceVolume \/ set_volume_rpc \/ openInputStream \/ closeInputStream
    \/ setOutputRouting \/ setVoipRouting \/ write \/ standby
    \/ setInputRouting \/ read \/ standbyInput

RouteSpec == RouteInit /\ [][RouteNext]_routeVars

AllRest == \A t \in RouteThreads : Resting(t)

(* The devices the driver is to follow: doRouting was last given them.     *)
Wanted == IF routedFor = "voip" THEN voipDevices ELSE outDevices

(* However the four threads interleave: once they rest and the policy has  *)
(* routed, the driver is set to the device doRouting would select now for  *)
(* the output that was routed last, unless an input says otherwise, and    *)
(* its microphone is muted exactly if mMicMute says so; each unless the    *)
(* driver refused it when it was last to be set, and then it is excused    *)
(* only until the next setting that is taken.  TTY is left out: a change   *)
(* of it while in a call is routed only from the plain headset.            *)
RouteFollows ==
    AllRest =>
      /\ "mic" \notin refused => snd.mic_mute = hw.mMicMute
      /\ "device" \notin refused /\ ~pending /\ input.mDevices = "none"
           /\ OutputRoute(Wanted) # NoDevice
           /\ ~(hw.mMode = "IN_CALL" /\ "HEADSET" \in Wanted) =>
         snd.device = Selected(FALSE, Wanted)

(* A device the driver refused is tried again by the next routing.  It is  *)
(* not: mCurSndDevice is stored all the same, and a routing to the same    *)
(* device finds nothing new.                                               *)
RefusedIsRetried ==
    [][\A t \in RouteThreads :
         /\ doRouting(t) /\ "device" \in refused /\ input.mDevices = "none"
         /\ \A u \in RouteThreads : Resting(u) \/ u = t
         => job'[t].at = "set" \/ OutputRoute(Wanted') = NoDevice]_routeVars

(* In a call the earpiece is open: "make sure that doAudioRouteOrMute() is *)
(* called by doRouting() even if the new device selected is the same".     *)
EarFollows ==
    AllRest /\ ~pending /\ OutputRoute(Wanted) # NoDevice /\ refused = {}
      /\ hw.mMode = "IN_CALL" /\ input.mDevices # "VOICE_CALL" => ~snd.ear_mute

(* TTY as it was last asked for is what the driver does in a call.         *)
TtyFollows ==
    AllRest /\ ~pending /\ input.mDevices = "none" /\ hw.mMode = "IN_CALL"
      /\ refused = {} /\ Wanted = {"HEADSET"} => snd.device = Selected(FALSE, Wanted)
=============================================================================
