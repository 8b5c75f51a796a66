---------------------------- MODULE AudioProofs ----------------------------
(***************************************************************************)
(* The audio hardware layer, for any number of operations, lines of the    *)
(* filter file and opens of a stream: filters run with whole parameters,   *)
(* the driver's device and mute follow the last route, the VoIP streams    *)
(* give up the driver they share, and outputs go where the policy's        *)
(* strategies say.                                                         *)
(***************************************************************************)
EXTENDS AudioFilter, AudioRoute, AudioVoip, AudioPolicy, TLAPS

-----------------------------------------------------------------------------
(* AudioFilter.  While no line was cut short, whatever exists or is        *)
(* flagged was parsed; once one was, no filter is ever enabled.  What a    *)
(* thread has left in the mask may be enabled, until another assigns it.   *)
FilterInv ==
    /\ parsed \subseteq Slots /\ inited \in {"parsing", "yes", "no"}
    /\ inited # "no" => exists \subseteq parsed /\ flag \subseteq parsed
    /\ inited # "yes" => /\ audpp.on = {} /\ audpre.on = {}
                         /\ \A t \in PostThreads : post[t] = 0
    /\ post \in [PostThreads -> Nat] /\ mask \subseteq PostKinds
    /\ \A t \in PostThreads :
         post[t] # 0 /\ t \notin overwritten => \A f \in mask : Parsed(f, post[t])
    /\ FiltersWhole

(* A line that is complete keeps tables and flags among what was parsed.   *)
LEMMA LineParsed ==
    ASSUME FilterInv, inited = "parsing", NEW slot \in Slots, NEW whole \in BOOLEAN, NEW on \in BOOLEAN,
           check_and_set_audpp_parameters(slot, whole, on), UNCHANGED <<audpp, audpre, postVars>>
    PROVE  FilterInv'
<1> USE DEF FilterInv, FiltersWhole, postVars
<1>1. audpp.on = {} /\ audpre.on = {}
  OBVIOUS
<1>2. CASE whole
  <2>1. parsed' = parsed \cup {slot} /\ inited' = inited
    BY <1>2 DEF check_and_set_audpp_parameters, Complete
  <2>2. exists' \subseteq parsed \cup {slot}
    BY <1>2 DEF check_and_set_audpp_parameters, Exists
  <2>3. flag' \subseteq parsed \cup {slot}
    BY <1>2 DEF check_and_set_audpp_parameters, Complete, Flagged
  <2> QED
    BY <1>1, <2>1, <2>2, <2>3
<1>3. CASE ~whole
  BY <1>1, <1>3 DEF check_and_set_audpp_parameters, Truncated, Interrupted
<1> QED
  BY <1>2, <1>3

(* Every feature that is switched on has a flag or, for ADRC and MBADRC,   *)
(* no table at all.                                                        *)
LEMMA FeaturesParsed ==
    ASSUME flag \subseteq parsed, exists \subseteq parsed, NEW want \in SUBSET PostKinds, NEW d,
           NEW f \in Features(want, d)
    PROVE  Parsed(f, d)
BY DEF Features, HasFlag, PostKinds, Parsed

(* Every line of the filter file keeps what the filters were given.        *)
LEMMA FilterStep == FilterInv /\ [FilterNext]_filterVars => FilterInv'
<1> SUFFICES ASSUME FilterInv, [FilterNext]_filterVars PROVE FilterInv'
    OBVIOUS
<1>1. CASE ParseLine
  <2>1. CASE \E slot \in Slots, whole \in BOOLEAN, on \in BOOLEAN :
                check_and_set_audpp_parameters(slot, whole, on)
    BY <1>1, <2>1, LineParsed DEF ParseLine
  <2>2. CASE UNCHANGED <<parsed, exists, flag>> /\ inited' \in {inited, "no"}
    BY <1>1, <2>2 DEF ParseLine, FilterInv, FiltersWhole, Parsed, postVars
  <2> QED
    BY <1>1, <2>1, <2>2 DEF ParseLine
<1>2. CASE get_audpp_filter
  BY <1>2 DEF get_audpp_filter, FilterInv, FiltersWhole, Parsed, postVars
<1>3. ASSUME NEW t \in PostThreads, AssignMask(t) PROVE FilterInv'
  BY <1>3 DEF AssignMask, FilterInv, FiltersWhole, Parsed
<1>4. ASSUME NEW t \in PostThreads, LoadPost(t) PROVE FilterInv'
  <2>1. PICK d \in {device_id(x) : x \in 1..4} :
          post' = [post EXCEPT ![t] = d] /\ mask' = Features(mask, d)
    BY <1>4 DEF LoadPost
  <2>2. d \in Nat
    BY FilterAssumption DEF device_id
  <2>3. flag \subseteq parsed /\ exists \subseteq parsed /\ mask \in SUBSET PostKinds
    BY <1>4 DEF LoadPost, FilterInv
  <2>4. \A f \in mask' : Parsed(f, d)
    BY <2>1, <2>3, FeaturesParsed
  <2>5. mask' \subseteq mask
    BY <2>1 DEF Features
  <2> QED
    BY <1>4, <2>1, <2>2, <2>4, <2>5 DEF LoadPost, FilterInv, FiltersWhole, Parsed
<1>5. ASSUME NEW t \in PostThreads, EnablePost(t) PROVE FilterInv'
  <2>1. inited = "yes"
    BY <1>5 DEF EnablePost, FilterInv
  <2>2. CASE UNCHANGED <<audpp, raw>>
    BY <1>5, <2>2 DEF EnablePost, FilterInv, FiltersWhole, Parsed
  <2>3. CASE audpp' = [of |-> post[t], on |-> mask] /\ raw' = (t \in overwritten)
    <3>1. raw' \/ \A f \in audpp'.on : Parsed(f, audpp'.of)
      BY <1>5, <2>3 DEF EnablePost, FilterInv
    <3>2. FiltersWhole'
      BY <1>5, <3>1 DEF EnablePost, FilterInv, FiltersWhole, Parsed
    <3> QED
      BY <1>5, <2>1, <3>2 DEF EnablePost, FilterInv, Parsed
  <2> QED
    BY <1>5, <2>2, <2>3 DEF EnablePost
<1>6. ASSUME NEW t \in PostThreads, LeavePost(t) PROVE FilterInv'
  BY <1>6 DEF LeavePost, FilterInv, FiltersWhole, Parsed, Off
<1>7. CASE msm72xx_enable_preproc
  BY <1>7 DEF msm72xx_enable_preproc, FilterInv, FiltersWhole, Parsed
<1>8. CASE UNCHANGED filterVars
  BY <1>8 DEF filterVars, postVars, FilterInv, FiltersWhole, Parsed
<1> QED
  BY <1>1, <1>2, <1>3, <1>4, <1>5, <1>6, <1>7, <1>8 DEF FilterNext

(* check_and_set_audpp_parameters and msm72xx_enable_postproc, _preproc: a *)
(* filter runs only with the parameters of a line that was read to its     *)
(* end, unless another thread assigned the mask before the driver got it.  *)
THEOREM FiltersComplete == FilterSpec => []FiltersWhole
<1>1. FilterInit => FilterInv
  BY DEF FilterInit, FilterInv, FiltersWhole, Off, PostKinds
<1>2. FilterInv => FiltersWhole
  BY DEF FilterInv
<1> QED
  BY <1>1, <1>2, FilterStep, PTL DEF FilterSpec

-----------------------------------------------------------------------------
(* AudioRoute.                                                             *)
Routing == {"doRouting", "doRouting(this)", "clear, route"}
Places == Routing \cup {"idle", "clear", "set", "store", "volume", "volume 1"}
SoundDevices ==
    {NoDevice, "TTY_HEADSET", "TTY_VCO", "TTY_HCO", "STEREO_HEADSET_AND_SPEAKER", "BT", "HEADSET",
     "SPEAKER", "HANDSET", "IN_S_SADC_OUT_HANDSET", "IN_S_SADC_OUT_SPEAKER_PHONE"}
Job == [at : Places, to : SoundDevices]
Hw == [mMode : {"NORMAL", "IN_CALL", "IN_COMMUNICATION"}, mMicMute : BOOLEAN,
       mCurSndDevice : SoundDevices, mTtyMode : {"OFF", "FULL", "VCO", "HCO"},
       mDualMicEnabled : BOOLEAN]
Snd == [device : SoundDevices, ear_mute : BOOLEAN, mic_mute : BOOLEAN, volume : Int]
JobTypes ==
    /\ job \in [RouteThreads -> Job] /\ hw \in Hw /\ snd \in Snd
    /\ outDevices \in OutDevices /\ voipDevices \in OutDevices
    /\ input \in [open : BOOLEAN, mState : {"CLOSED", "OPENED", "STARTED"}, mDevices : InDevices]

(* mLock is held from the selection to the store; the driver's device is   *)
(* the current one, unless that was cleared or is about to be stored, or   *)
(* the driver refused it.                                                  *)
LockHeld == \A t \in RouteThreads : job[t].at \in {"set", "store"} => routeLock = t
DeviceKept ==
    /\ \A t \in RouteThreads :
         job[t].at = "store" => snd.device = job[t].to \/ "device" \in refused
    /\ hw.mCurSndDevice \in {NoDevice, snd.device} \/ "device" \in refused
         \/ \E t \in RouteThreads : job[t].at = "store"

(* Whoever changes what doRouting selects from routes afterwards; a thread *)
(* that has selected before that is overtaken by it.                       *)
Settled ==
    /\ ~pending /\ input.mDevices = "none" /\ OutputRoute(Wanted) # NoDevice
    /\ ~(hw.mMode = "IN_CALL" /\ "HEADSET" \in Wanted)
RouteComes ==
    Settled =>
      \/ \E t \in RouteThreads : job[t].at \in Routing
      \/ \E t \in RouteThreads : job[t].at = "set" /\ job[t].to = Selected(FALSE, Wanted)
      \/ /\ snd.device = Selected(FALSE, Wanted) \/ "device" \in refused
         /\ \A t \in RouteThreads : job[t].at # "set"
MicKept == snd.mic_mute = hw.mMicMute \/ "mic" \in refused
RouteInv ==
    /\ JobTypes /\ LockHeld /\ DeviceKept /\ RouteComes
    /\ MicKept

(* What doRouting selects for the output depends, outside a call on the    *)
(* headset, only on the mode, the output's devices and the second          *)
(* microphone; and it is a device.                                         *)
LEMMA SelectionKept ==
    ASSUME JobTypes, UNCHANGED <<outDevices, voipDevices, routedFor, pending>>, hw'.mMode = hw.mMode,
           hw'.mDualMicEnabled = hw.mDualMicEnabled, input'.mDevices = input.mDevices, Settled'
    PROVE  Settled /\ Selected(FALSE, Wanted)' = Selected(FALSE, Wanted)
<1>0. Wanted' = Wanted
  BY DEF Wanted
<1>1. ~OnTty(Wanted) /\ ~OnTty(Wanted)'
  BY <1>0 DEF Settled, OnTty
<1>2. OutputRoute(Wanted)' = OutputRoute(Wanted)
  <2> DEFINE d == Wanted
  <2>1. d' = d /\ \/ d = {"SCO"} \/ d = {"CARKIT"} \/ d = {"HEADSET"} \/ d = {"SPEAKER"}
                  \/ d = {"EARPIECE"} \/ d = {"HEADSET", "SPEAKER"}
    BY <1>0 DEF JobTypes, OutDevices, Wanted
  <2>2. CASE d = {"HEADSET", "SPEAKER"}
    BY <1>1, <2>1, <2>2, SMTT(30) DEF OutputRoute
  <2>3. CASE d = {"SCO"}
    BY <1>1, <2>1, <2>3 DEF OutputRoute
  <2>4. CASE d = {"CARKIT"}
    BY <1>1, <2>1, <2>4 DEF OutputRoute
  <2>5. CASE d = {"HEADSET"}
    BY <1>1, <2>1, <2>5 DEF OutputRoute
  <2>6. CASE d = {"SPEAKER"}
    BY <1>1, <2>1, <2>6 DEF OutputRoute
  <2>7. CASE d = {"EARPIECE"}
    BY <1>1, <2>1, <2>7 DEF OutputRoute
  <2> QED
    BY <2>1, <2>2, <2>3, <2>4, <2>5, <2>6, <2>7
<1> QED
  BY <1>0, <1>2 DEF Settled, Selected, DualMic

(* Without an input of its own, the input's route is the output's.         *)
LEMMA SelectionSame ==
    ASSUME Settled
    PROVE  Selected(TRUE, Wanted) = Selected(FALSE, Wanted) /\ Selected(FALSE, Wanted) # NoDevice
<1>1. InputRoute(Wanted) = OutputRoute(Wanted)
  BY DEF Settled, InputRoute
<1>2. OutputRoute(Wanted) # NoDevice
  BY DEF Settled
<1>3. \A d : d # NoDevice => DualMic(d) # NoDevice
  BY DEF DualMic, NoDevice
<1> QED
  BY <1>1, <1>2, <1>3 DEF Selected

(* A thread moves on to another point.                                     *)
LEMMA JobMoved ==
    ASSUME JobTypes, NEW t \in RouteThreads, NEW at \in Places, job' = [job EXCEPT ![t].at = at]
    PROVE  /\ job' \in [RouteThreads -> Job]
           /\ job'[t].at = at /\ job'[t].to = job[t].to
           /\ \A u \in RouteThreads : u # t => job'[u] = job[u]
BY DEF JobTypes, Job

(* A step outside of the locked part of doRouting: what it changes of the  *)
(* selection is routed afterwards, or the policy still has to route.       *)
LEMMA RouteKept ==
    ASSUME RouteInv, NEW t \in RouteThreads, NEW at \in Places \ {"set", "store"},
           job' = [job EXCEPT ![t].at = at], job[t].at \notin {"set", "store"},
           job[t].at \in Routing => at \in Routing,
           UNCHANGED <<routeLock, routedFor>>, snd'.device = snd.device,
           "device" \in refused' <=> "device" \in refused,
           hw'.mCurSndDevice \in {hw.mCurSndDevice, NoDevice},
           \/ at \in Routing \/ pending' \/ input'.mDevices # "none"
           \/ /\ UNCHANGED <<outDevices, voipDevices, pending>> /\ hw'.mMode = hw.mMode
              /\ hw'.mDualMicEnabled = hw.mDualMicEnabled /\ input'.mDevices = input.mDevices
    PROVE  LockHeld' /\ DeviceKept' /\ RouteComes'
<1>1. /\ job'[t].at = at /\ job'[t].to = job[t].to
      /\ \A u \in RouteThreads : u # t => job'[u] = job[u]
  BY JobMoved DEF RouteInv
<1>2. LockHeld'
  BY <1>1 DEF RouteInv, LockHeld
<1>3. DeviceKept'
  BY <1>1 DEF RouteInv, DeviceKept
<1>4. RouteComes'
  <2> SUFFICES ASSUME Settled', at \notin Routing
               PROVE  \/ \E u \in RouteThreads : job'[u].at \in Routing
                      \/ \E u \in RouteThreads : job'[u].at = "set" /\ job'[u].to = Selected(FALSE, Wanted)'
                      \/ /\ snd'.device = Selected(FALSE, Wanted)' \/ "device" \in refused'
                         /\ \A u \in RouteThreads : job'[u].at # "set"
      BY <1>1 DEF RouteComes
  <2>1. Settled /\ Selected(FALSE, Wanted)' = Selected(FALSE, Wanted)
    BY SelectionKept DEF Settled, RouteInv
  <2> QED
    BY <1>1, <2>1 DEF RouteInv, RouteComes
<1> QED
  BY <1>2, <1>3, <1>4

(* Every selection is the name of a device, or none.                       *)
LEMMA SelectedTyped ==
    ASSUME JobTypes, NEW forInput \in BOOLEAN, NEW d \in OutDevices
    PROVE  Selected(forInput, d) \in SoundDevices
<1>1. OnTty(d) => TtyDevice \in SoundDevices
  BY DEF OnTty, TtyDevice, JobTypes, Hw, SoundDevices
<1>2. OutputRoute(d) \in SoundDevices
  <2>1. \/ d = {"SCO"} \/ d = {"CARKIT"} \/ d = {"HEADSET"} \/ d = {"SPEAKER"}
        \/ d = {"EARPIECE"} \/ d = {"HEADSET", "SPEAKER"}
    BY DEF OutDevices
  <2>2. CASE d = {"HEADSET", "SPEAKER"}
    BY <1>1, <2>2 DEF OutputRoute, SoundDevices
  <2>3. CASE d = {"SCO"}
    BY <1>1, <2>3 DEF OutputRoute, SoundDevices
  <2>4. CASE d = {"CARKIT"}
    BY <1>1, <2>4 DEF OutputRoute, SoundDevices
  <2>5. CASE d = {"HEADSET"}
    BY <1>1, <2>5 DEF OutputRoute, SoundDevices
  <2>6. CASE d = {"SPEAKER"}
    BY <1>1, <2>6 DEF OutputRoute, SoundDevices
  <2>7. CASE d = {"EARPIECE"}
    BY <1>1, <2>7 DEF OutputRoute, SoundDevices
  <2> QED
    BY <2>1, <2>2, <2>3, <2>4, <2>5, <2>6, <2>7
<1>3. InputRoute(d) \in SoundDevices
  BY <1>2 DEF InputRoute, JobTypes, InDevices, SoundDevices
<1>4. \A e \in SoundDevices : DualMic(e) \in SoundDevices
  BY DEF DualMic, SoundDevices
<1> QED
  BY <1>2, <1>3, <1>4 DEF Selected

(* The types of the routing's state.                                       *)
LEMMA RouteTypes == JobTypes /\ [RouteNext]_routeVars => JobTypes'
<1> SUFFICES ASSUME JobTypes, [RouteNext]_routeVars PROVE JobTypes'
    OBVIOUS
<1>0. /\ job \in [RouteThreads -> Job] /\ hw \in Hw /\ snd \in Snd /\ outDevices \in OutDevices
      /\ voipDevices \in OutDevices
      /\ input \in [open : BOOLEAN, mState : {"CLOSED", "OPENED", "STARTED"}, mDevices : InDevices]
  BY DEF JobTypes
<1>1. \A t \in RouteThreads, at \in Places : Begin(t, at) \/ Continue(t, at) => job' \in [RouteThreads -> Job]
  BY JobMoved DEF Begin, Continue
<1>2. \A device \in SoundDevices \cup {SND_DEVICE_CURRENT}, mic \in BOOLEAN :
        doAudioRouteOrMute(device, mic) => snd' \in Snd
  BY <1>0 DEF doAudioRouteOrMute, SND_SET_DEVICE, Snd
<1>a. RouteThreads = {"binder", "player", "voip", "recorder"} /\ NoDevice \in SoundDevices
  BY DEF RouteThreads, SoundDevices
<1>3. ASSUME NEW t \in RouteThreads, doRouting(t) PROVE JobTypes'
  <2>1. PICK forInput \in BOOLEAN :
           \/ Continue(t, "idle")
           \/ job' = [job EXCEPT ![t] = [at |-> "set",
                         to |-> Selected(forInput, IF t = "voip" THEN voipDevices ELSE outDevices)]]
    BY <1>3 DEF doRouting
  <2> DEFINE sel == Selected(forInput, IF t = "voip" THEN voipDevices ELSE outDevices)
  <2>2. sel \in SoundDevices
    BY <1>0, SelectedTyped
  <2> HIDE DEF sel
  <2>3. ASSUME Continue(t, "idle") PROVE job' \in [RouteThreads -> Job]
    BY <1>1, <2>3 DEF Places
  <2>4. ASSUME job' = [job EXCEPT ![t] = [at |-> "set", to |-> sel]]
        PROVE  job' \in [RouteThreads -> Job]
    <3>1. [at |-> "set", to |-> sel] \in Job
      BY <2>2 DEF Job, Places
    <3> QED
      BY <1>0, <2>4, <3>1
  <2>5. job' \in [RouteThreads -> Job]
    BY <2>1, <2>3, <2>4 DEF sel
  <2>6. UNCHANGED <<hw, outDevices, voipDevices, input, snd, pending>>
    BY <1>3 DEF doRouting, streams, sndDriver
  <2> QED
    BY <1>0, <2>5, <2>6 DEF JobTypes
<1>4. ASSUME NEW t \in RouteThreads, RouteSet(t) PROVE JobTypes'
  BY <1>0, <1>1, <1>2, <1>4, ZenonT(60) DEF RouteSet, streams, sndDriver, JobTypes, Places, Job, Hw
<1>5. ASSUME NEW t \in RouteThreads, RouteStore(t) PROVE JobTypes'
  BY <1>0, <1>a, <1>5 DEF RouteStore, streams, sndDriver, JobTypes, AtRest, Job, Hw, Places
<1>6. ASSUME NEW t \in RouteThreads, clearCurDevice(t) PROVE JobTypes'
  BY <1>0, <1>a, <1>1, <1>6 DEF clearCurDevice, streams, sndDriver, JobTypes, Hw, Places, Routing
<1>7. CASE setMode
  BY <1>0, <1>a, <1>1, <1>2, <1>7 DEF setMode, streams, sndDriver, JobTypes, Places, Routing, Hw
<1>8. CASE setDualMic
  BY <1>0, <1>a, <1>1, <1>2, <1>8 DEF setDualMic, streams, sndDriver, JobTypes, Places, Routing, AfterDualMic, Hw
<1>9. CASE setBluetoothName
  BY <1>0, <1>a, <1>1, <1>2, <1>9 DEF setBluetoothName, streams, sndDriver, JobTypes, Places, Routing
<1>10. CASE setMicMute
  BY <1>0, <1>a, <1>1, <1>2, <1>10, ZenonT(60) DEF setMicMute, streams, sndDriver, JobTypes, Places, Routing, Hw, Snd
<1>11. CASE setTtyMode
  BY <1>0, <1>a, <1>1, <1>2, <1>11 DEF setTtyMode, streams, sndDriver, JobTypes, Places, Routing, Hw
<1>12. CASE setVoiceVolume
  BY <1>0, <1>a, <1>1, <1>2, <1>12 DEF setVoiceVolume, streams, sndDriver, JobTypes, Places, Routing
<1>13. CASE set_volume_rpc
  <2>1. job' \in [RouteThreads -> Job]
    BY <1>a, <1>1, <1>13 DEF set_volume_rpc, Places
  <2>2. PICK v \in {1, 5} : snd' = [snd EXCEPT !.volume = v]
    BY <1>13 DEF set_volume_rpc
  <2>4. snd' \in Snd
    BY <1>0, <2>2 DEF Snd
  <2>3. UNCHANGED <<hw, outDevices, voipDevices, input, pending>>
    BY <1>13 DEF set_volume_rpc, streams
  <2> QED
    BY <1>0, <2>1, <2>4, <2>3 DEF JobTypes
<1>14. CASE openInputStream
  <2>1. job' \in [RouteThreads -> Job]
    BY <1>a, <1>1, <1>14 DEF openInputStream, Places
  <2>2. input' \in [open : BOOLEAN, mState : {"CLOSED", "OPENED", "STARTED"}, mDevices : InDevices]
    BY <1>14 DEF openInputStream
  <2>3. UNCHANGED <<hw, outDevices, voipDevices, snd, pending>>
    BY <1>14 DEF openInputStream, OnlyInput, sndDriver
  <2> QED
    BY <1>0, <2>1, <2>2, <2>3 DEF JobTypes
<1>15. CASE closeInputStream
  BY <1>0, <1>a, <1>1, <1>2, <1>15 DEF closeInputStream, OnlyInput, streams, sndDriver, JobTypes, Places, Routing
<1>16. CASE setInputRouting
  BY <1>0, <1>a, <1>1, <1>2, <1>16 DEF setInputRouting, OnlyInput, streams, sndDriver, JobTypes, Places, Routing
<1>17. CASE read
  BY <1>0, <1>a, <1>1, <1>2, <1>17 DEF read, OnlyInput, streams, sndDriver, JobTypes, Places, Routing
<1>18. CASE standbyInput
  BY <1>0, <1>a, <1>1, <1>2, <1>18 DEF standbyInput, OnlyInput, streams, sndDriver, JobTypes, Places, Routing
<1>19. CASE setOutputRouting
  BY <1>0, <1>a, <1>1, <1>2, <1>19 DEF setOutputRouting, streams, sndDriver, JobTypes, Places, Routing
<1>23. CASE setVoipRouting
  BY <1>0, <1>a, <1>1, <1>23 DEF setVoipRouting, streams, sndDriver, JobTypes, Places, Routing
<1>20. CASE write
  BY <1>0, <1>a, <1>1, <1>2, <1>20 DEF write, streams, sndDriver, JobTypes, Places, Routing
<1>21. CASE standby
  BY <1>0, <1>a, <1>1, <1>2, <1>21 DEF standby, streams, sndDriver, JobTypes, Places, Routing
<1>22. CASE UNCHANGED routeVars
  BY <1>0, <1>22 DEF routeVars, streams, sndDriver, JobTypes
<1> QED
  BY <1>3, <1>4, <1>5, <1>6, <1>7, <1>8, <1>9, <1>10, <1>11, <1>12,
     <1>13, <1>14, <1>15, <1>16, <1>17, <1>18, <1>19, <1>20, <1>21, <1>22, <1>23 DEF RouteNext

(* The routing's invariant is kept by every step.                          *)
LEMMA RouteStep == RouteInv /\ [RouteNext]_routeVars => RouteInv'
<1> SUFFICES ASSUME RouteInv, [RouteNext]_routeVars PROVE RouteInv'
    OBVIOUS
<1>0. JobTypes /\ JobTypes'
  BY RouteTypes DEF RouteInv
<1> SUFFICES LockHeld' /\ DeviceKept' /\ RouteComes' /\ MicKept'
    BY <1>0 DEF RouteInv
<1> DEFINE Goal == LockHeld' /\ DeviceKept' /\ RouteComes' /\ MicKept'
<1>1. ASSUME NEW t \in RouteThreads, doRouting(t) PROVE Goal
  <2>1. PICK forInput \in BOOLEAN :
           /\ job[t].at = (IF forInput THEN "doRouting(this)" ELSE "doRouting")
           /\ routeLock = "free"
           /\ IF Selected(forInput, Wanted') \in {NoDevice, hw.mCurSndDevice}
                THEN job' = [job EXCEPT ![t].at = "idle"] /\ UNCHANGED routeLock
                ELSE /\ job' = [job EXCEPT ![t] = [at |-> "set", to |-> Selected(forInput, Wanted')]]
                     /\ routeLock' = t
    <3>1. Wanted' = IF t = "voip" THEN voipDevices ELSE outDevices
      BY <1>1 DEF doRouting, streams, Wanted
    <3> QED
      BY <1>1, <3>1 DEF doRouting, Continue
  <2> DEFINE sel == Selected(forInput, Wanted')
  <2>2. \A u \in RouteThreads : job[u].at \notin {"set", "store"}
    BY <2>1 DEF RouteInv, LockHeld, RouteThreads
  <2>3. UNCHANGED <<hw, input, snd, refused, pending>>
    BY <1>1 DEF doRouting, sndDriver, streams
  <2>4. Settled' => Selected(FALSE, Wanted)' = sel /\ sel # NoDevice
    <3>1. \A d : OutputRoute(d)' = OutputRoute(d) /\ InputRoute(d)' = InputRoute(d)
      BY <2>3 DEF OutputRoute, InputRoute, OnTty, TtyDevice
    <3>2. Settled' => InputRoute(Wanted') = OutputRoute(Wanted')
      BY <2>3 DEF Settled, InputRoute
    <3>3. \A d : DualMic(d)' = DualMic(d) /\ (d # NoDevice => DualMic(d) # NoDevice)
      BY <2>3 DEF DualMic, NoDevice
    <3>4. Settled' => OutputRoute(Wanted') # NoDevice
      BY <2>3 DEF Settled, OutputRoute, OnTty, TtyDevice
    <3> QED
      BY <2>3, <3>2, <3>3, <3>4 DEF Selected, DualMic, OutputRoute, OnTty, TtyDevice
  <2>5. CASE sel \in {NoDevice, hw.mCurSndDevice}
    <3>1. /\ job'[t].at = "idle" /\ \A u \in RouteThreads : u # t => job'[u] = job[u]
      BY <1>0, <2>1, <2>5, JobMoved DEF Places
    <3>2. Settled' => snd.device = sel \/ "device" \in refused
      BY <2>2, <2>4, <2>5 DEF RouteInv, DeviceKept
    <3> QED
      BY <2>1, <2>2, <2>3, <2>4, <2>5, <3>1, <3>2 DEF RouteInv, LockHeld, DeviceKept, RouteComes, MicKept
  <2>6. CASE sel \notin {NoDevice, hw.mCurSndDevice}
    <3>1. /\ job'[t].at = "set" /\ job'[t].to = sel
          /\ \A u \in RouteThreads : u # t => job'[u] = job[u]
      BY <1>0, <2>1, <2>6 DEF JobTypes, Job
    <3> QED
      BY <2>1, <2>2, <2>3, <2>4, <2>6, <3>1 DEF RouteInv, LockHeld, DeviceKept, RouteComes, MicKept
  <2> QED
    BY <2>5, <2>6
<1>2. ASSUME NEW t \in RouteThreads, RouteSet(t) PROVE Goal
  <2>1. /\ job[t].at = "set" /\ job' = [job EXCEPT ![t].at = "store"]
        /\ UNCHANGED <<hw, routeLock, outDevices, voipDevices, routedFor, input, pending>>
    BY <1>2 DEF RouteSet, Continue, streams
  <2>2. /\ job'[t].at = "store" /\ job'[t].to = job[t].to
        /\ \A u \in RouteThreads : u # t => job'[u] = job[u]
    BY <1>0, <2>1, JobMoved DEF Places
  <2>3. /\ snd'.device = job[t].to \/ "device" \in refused'
        /\ snd'.mic_mute = hw.mMicMute \/ "mic" \in refused'
    <3>1. snd \in Snd /\ job[t].to \in SoundDevices /\ doAudioRouteOrMute(job[t].to, hw.mMicMute)
      BY <1>0, <1>2 DEF RouteSet, JobTypes, Job
    <3>2. job[t].to # SND_DEVICE_CURRENT
      BY <3>1 DEF SoundDevices, SND_DEVICE_CURRENT, NoDevice
    <3>3. \A mic : /\ SND_SET_DEVICE(job[t].to, mic).device = job[t].to
                  /\ SND_SET_DEVICE(job[t].to, mic).mic_mute = mic
      BY <3>1, <3>2 DEF SND_SET_DEVICE, Snd
    <3> QED
      BY <3>1, <3>2, <3>3 DEF doAudioRouteOrMute
  <2>4. \A u \in RouteThreads : u # t => job[u].at \notin {"set", "store"}
    BY <2>1 DEF RouteInv, LockHeld
  <2>5. Settled' => Settled /\ Selected(FALSE, Wanted)' = Selected(FALSE, Wanted)
    BY <1>0, <2>1, SelectionKept
  <2> QED
    BY <2>1, <2>2, <2>3, <2>4, <2>5 DEF RouteInv, LockHeld, DeviceKept, RouteComes, MicKept, Routing
<1>3. ASSUME NEW t \in RouteThreads, RouteStore(t) PROVE Goal
  <2>1. /\ job[t].at = "store" /\ job' = [job EXCEPT ![t] = AtRest]
        /\ hw' = [hw EXCEPT !.mCurSndDevice = job[t].to] /\ routeLock' = "free"
        /\ UNCHANGED <<outDevices, voipDevices, routedFor, input, snd, refused, pending>>
    BY <1>3 DEF RouteStore, streams, sndDriver
  <2>2. job'[t].at = "idle" /\ \A u \in RouteThreads : u # t => job'[u] = job[u]
    BY <1>0, <2>1 DEF JobTypes, AtRest, Job
  <2>3. /\ hw'.mMode = hw.mMode /\ hw'.mDualMicEnabled = hw.mDualMicEnabled
        /\ hw'.mMicMute = hw.mMicMute /\ hw'.mCurSndDevice = job[t].to
    BY <1>0, <2>1 DEF JobTypes, Hw
  <2>4. \A u \in RouteThreads : u # t => job[u].at \notin {"set", "store"}
    BY <2>1 DEF RouteInv, LockHeld
  <2>5. Settled' => Settled /\ Selected(FALSE, Wanted)' = Selected(FALSE, Wanted)
    BY <1>0, <2>1, <2>3, SelectionKept
  <2> QED
    BY <2>1, <2>2, <2>3, <2>4, <2>5 DEF RouteInv, LockHeld, DeviceKept, RouteComes, MicKept, Routing
<1>4. ASSUME NEW t \in RouteThreads, clearCurDevice(t) PROVE Goal
  <2>1. PICK next \in {"idle", "doRouting(this)"} :
          /\ job[t].at = (IF next = "idle" THEN "clear" ELSE "clear, route")
          /\ hw' = [hw EXCEPT !.mCurSndDevice = NoDevice] /\ job' = [job EXCEPT ![t].at = next]
    BY <1>4 DEF clearCurDevice, Continue
  <2>2. UNCHANGED <<routeLock, outDevices, voipDevices, routedFor, input, snd, refused, pending>>
    BY <1>4 DEF clearCurDevice, streams, sndDriver
  <2>3. /\ hw'.mMode = hw.mMode /\ hw'.mDualMicEnabled = hw.mDualMicEnabled
        /\ hw'.mMicMute = hw.mMicMute /\ hw'.mCurSndDevice = NoDevice
    BY <1>0, <2>1 DEF JobTypes, Hw
  <2>4. LockHeld' /\ DeviceKept' /\ RouteComes'
    BY <2>1, <2>2, <2>3, RouteKept DEF Routing, Places
  <2> QED
    BY <2>2, <2>3, <2>4 DEF RouteInv, MicKept
<1>5. ASSUME setMicMute PROVE Goal
  <2>1. /\ job["binder"].at = "idle" /\ job' = [job EXCEPT !["binder"].at = "idle"]
        /\ UNCHANGED <<routeLock, outDevices, voipDevices, routedFor, input, pending>>
    BY <1>5 DEF setMicMute, Begin, Resting, streams
  <2>2. /\ hw'.mMode = hw.mMode /\ hw'.mDualMicEnabled = hw.mDualMicEnabled
        /\ hw'.mCurSndDevice = hw.mCurSndDevice /\ snd'.device = snd.device
        /\ ("device" \in refused' <=> "device" \in refused) /\ MicKept'
    <3>1. PICK state \in BOOLEAN :
            IF hw.mMicMute = state THEN UNCHANGED <<hw, snd, refused>>
            ELSE /\ hw' = [hw EXCEPT !.mMicMute = state]
                 /\ doAudioRouteOrMute(SND_DEVICE_CURRENT, state)
      BY <1>5 DEF setMicMute, sndDriver
    <3>2. CASE hw.mMicMute = state
      BY <3>1, <3>2 DEF RouteInv, MicKept
    <3>3. CASE hw.mMicMute # state
      <4>1. hw \in Hw /\ snd \in Snd
        BY <1>0 DEF JobTypes
      <4>2. hw' = [hw EXCEPT !.mMicMute = state]
        BY <3>1, <3>3
      <4>3. doAudioRouteOrMute(SND_DEVICE_CURRENT, state)
        BY <3>1, <3>3
      <4>4. /\ snd'.device = snd.device /\ ("device" \in refused' <=> "device" \in refused)
            /\ snd'.mic_mute = state \/ "mic" \in refused'
        BY <4>1, <4>3 DEF doAudioRouteOrMute, SND_SET_DEVICE, SND_DEVICE_CURRENT, Snd
      <4>5. /\ hw'.mMode = hw.mMode /\ hw'.mDualMicEnabled = hw.mDualMicEnabled
            /\ hw'.mCurSndDevice = hw.mCurSndDevice /\ hw'.mMicMute = state
        BY <4>1, <4>2 DEF Hw
      <4> QED
        BY <4>4, <4>5 DEF MicKept
    <3> QED
      BY <3>2, <3>3
  <2>3. LockHeld' /\ DeviceKept' /\ RouteComes'
    BY <2>1, <2>2, RouteKept DEF sndDriver, Routing, Places, RouteThreads
  <2> QED
    BY <2>2, <2>3
<1>6. ASSUME set_volume_rpc PROVE Goal
  <2>1. /\ job["binder"].at \in {"volume", "volume 1"} /\ job' = [job EXCEPT !["binder"].at = "idle"]
        /\ UNCHANGED <<hw, routeLock, outDevices, voipDevices, routedFor, refused, input, pending>>
    BY <1>6 DEF set_volume_rpc, Continue, streams
  <2>2. snd'.device = snd.device /\ snd'.mic_mute = snd.mic_mute
    BY <1>0, <1>6 DEF set_volume_rpc, JobTypes, Snd
  <2>3. LockHeld' /\ DeviceKept' /\ RouteComes'
    BY <2>1, <2>2, RouteKept DEF sndDriver, Routing, Places, RouteThreads
  <2> QED
    BY <2>1, <2>2, <2>3 DEF RouteInv, MicKept
<1>7. ASSUME setTtyMode \/ setVoiceVolume PROVE Goal
  <2>1. PICK at \in {"doRouting", "idle", "volume 1", "volume"} :
          job["binder"].at = "idle" /\ job' = [job EXCEPT !["binder"].at = at]
    BY <1>7 DEF setTtyMode, setVoiceVolume, Begin, Resting
  <2>2. /\ UNCHANGED <<routeLock, outDevices, voipDevices, routedFor, input, snd, refused, pending>>
        /\ hw'.mMode = hw.mMode /\ hw'.mDualMicEnabled = hw.mDualMicEnabled
        /\ hw'.mCurSndDevice = hw.mCurSndDevice /\ hw'.mMicMute = hw.mMicMute
    BY <1>0, <1>7 DEF setTtyMode, setVoiceVolume, streams, sndDriver, JobTypes, Hw
  <2>3. LockHeld' /\ DeviceKept' /\ RouteComes'
    BY <2>1, <2>2, RouteKept DEF sndDriver, Routing, Places, RouteThreads
  <2> QED
    BY <2>2, <2>3 DEF RouteInv, MicKept
<1>8. ASSUME setMode PROVE Goal
  <2>1. /\ job["binder"].at = "idle" /\ job' = [job EXCEPT !["binder"].at = "clear"]
        /\ UNCHANGED <<routeLock, routedFor, sndDriver>> /\ hw'.mCurSndDevice = hw.mCurSndDevice
        /\ hw'.mMicMute = hw.mMicMute
    BY <1>0, <1>8 DEF setMode, Begin, Resting, streams, sndDriver, JobTypes, Hw
  <2>2. LockHeld' /\ DeviceKept' /\ RouteComes'
    BY <1>8, <2>1, RouteKept DEF setMode, sndDriver, streams, Routing, Places, RouteThreads
  <2> QED
    BY <2>1, <2>2 DEF RouteInv, MicKept, sndDriver
<1>9. ASSUME setBluetoothName PROVE Goal
  <2>1. /\ job["binder"].at = "idle" /\ job' = [job EXCEPT !["binder"].at = "doRouting"]
        /\ UNCHANGED <<routeLock, routedFor, sndDriver>> /\ hw'.mCurSndDevice = hw.mCurSndDevice
        /\ hw'.mMicMute = hw.mMicMute
    BY <1>0, <1>9 DEF setBluetoothName, Begin, Resting, streams, sndDriver, JobTypes, Hw
  <2>2. LockHeld' /\ DeviceKept' /\ RouteComes'
    BY <1>9, <2>1, RouteKept DEF setBluetoothName, sndDriver, streams, Routing, Places, RouteThreads
  <2> QED
    BY <2>1, <2>2 DEF RouteInv, MicKept, sndDriver
<1>10. ASSUME setDualMic PROVE Goal
  <2>1. /\ job["binder"].at = "idle" /\ job' = [job EXCEPT !["binder"].at = "doRouting"]
        /\ UNCHANGED <<routeLock, routedFor, sndDriver>> /\ hw'.mCurSndDevice = hw.mCurSndDevice
        /\ hw'.mMicMute = hw.mMicMute
    BY <1>0, <1>10 DEF setDualMic, AfterDualMic, Begin, Resting, streams, sndDriver, JobTypes, Hw
  <2>2. LockHeld' /\ DeviceKept' /\ RouteComes'
    BY <1>10, <2>1, RouteKept DEF setDualMic, sndDriver, streams, Routing, Places, RouteThreads
  <2> QED
    BY <2>1, <2>2 DEF RouteInv, MicKept, sndDriver
<1>11. ASSUME openInputStream PROVE Goal
  <2>1. /\ job["binder"].at = "idle" /\ job' = [job EXCEPT !["binder"].at = "idle"]
        /\ UNCHANGED <<routeLock, routedFor, sndDriver>> /\ hw'.mCurSndDevice = hw.mCurSndDevice
        /\ hw'.mMicMute = hw.mMicMute
    BY <1>0, <1>11 DEF openInputStream, OnlyInput, Begin, Resting, streams, sndDriver, JobTypes, Hw
  <2>2. input'.mDevices # "none" /\ pending' = pending
    BY <1>0, <1>11 DEF openInputStream, OnlyInput, streams, InDevices
  <2>3. LockHeld' /\ DeviceKept' /\ RouteComes'
    BY <2>1, <2>2, RouteKept DEF sndDriver, Routing, Places, RouteThreads
  <2> QED
    BY <2>1, <2>3 DEF RouteInv, MicKept, sndDriver
<1>12. ASSUME closeInputStream PROVE Goal
  <2>1. /\ job["binder"].at = "idle" /\ job' = [job EXCEPT !["binder"].at = "clear, route"]
        /\ UNCHANGED <<routeLock, routedFor, sndDriver>> /\ hw'.mCurSndDevice = hw.mCurSndDevice
        /\ hw'.mMicMute = hw.mMicMute
    BY <1>0, <1>12 DEF closeInputStream, OnlyInput, Begin, Resting, streams, sndDriver, JobTypes, Hw
  <2>2. LockHeld' /\ DeviceKept' /\ RouteComes'
    BY <1>12, <2>1, RouteKept DEF closeInputStream, OnlyInput, sndDriver, streams, Routing, Places, RouteThreads
  <2> QED
    BY <2>1, <2>2 DEF RouteInv, MicKept, sndDriver
<1>13. ASSUME setOutputRouting PROVE Goal
  <2>1. /\ job["player"].at = "idle" /\ job' = [job EXCEPT !["player"].at = "doRouting"]
        /\ UNCHANGED <<routeLock, routedFor, sndDriver>> /\ hw'.mCurSndDevice = hw.mCurSndDevice
        /\ hw'.mMicMute = hw.mMicMute
    BY <1>0, <1>13 DEF setOutputRouting, Begin, Resting, streams, sndDriver, JobTypes, Hw
  <2>2. LockHeld' /\ DeviceKept' /\ RouteComes'
    BY <1>13, <2>1, RouteKept DEF setOutputRouting, sndDriver, streams, Routing, Places, RouteThreads
  <2> QED
    BY <2>1, <2>2 DEF RouteInv, MicKept, sndDriver
<1>14. ASSUME write PROVE Goal
  <2>1. /\ job["player"].at = "idle" /\ job' = [job EXCEPT !["player"].at = "idle"]
        /\ UNCHANGED <<routeLock, routedFor, sndDriver>> /\ hw'.mCurSndDevice = hw.mCurSndDevice
        /\ hw'.mMicMute = hw.mMicMute
    BY <1>0, <1>14 DEF write, Begin, Resting, streams, sndDriver, JobTypes, Hw
  <2>2. LockHeld' /\ DeviceKept' /\ RouteComes'
    BY <1>14, <2>1, RouteKept DEF write, sndDriver, streams, Routing, Places, RouteThreads
  <2> QED
    BY <2>1, <2>2 DEF RouteInv, MicKept, sndDriver
<1>15. ASSUME standby PROVE Goal
  <2>1. /\ job["player"].at = "idle" /\ job' = [job EXCEPT !["player"].at = "idle"]
        /\ UNCHANGED <<routeLock, routedFor, sndDriver>> /\ hw'.mCurSndDevice = hw.mCurSndDevice
        /\ hw'.mMicMute = hw.mMicMute
    BY <1>0, <1>15 DEF standby, Begin, Resting, streams, sndDriver, JobTypes, Hw
  <2>2. LockHeld' /\ DeviceKept' /\ RouteComes'
    BY <1>15, <2>1, RouteKept DEF standby, sndDriver, streams, Routing, Places, RouteThreads
  <2> QED
    BY <2>1, <2>2 DEF RouteInv, MicKept, sndDriver
<1>16. ASSUME setInputRouting PROVE Goal
  <2>1. /\ job["recorder"].at = "idle" /\ job' = [job EXCEPT !["recorder"].at = "doRouting(this)"]
        /\ UNCHANGED <<routeLock, routedFor, sndDriver>> /\ hw'.mCurSndDevice = hw.mCurSndDevice
        /\ hw'.mMicMute = hw.mMicMute
    BY <1>0, <1>16 DEF setInputRouting, OnlyInput, Begin, Resting, streams, sndDriver, JobTypes, Hw
  <2>2. LockHeld' /\ DeviceKept' /\ RouteComes'
    BY <1>16, <2>1, RouteKept DEF setInputRouting, OnlyInput, sndDriver, streams, Routing, Places, RouteThreads
  <2> QED
    BY <2>1, <2>2 DEF RouteInv, MicKept, sndDriver
<1>17. ASSUME read PROVE Goal
  <2>1. /\ job["recorder"].at = "idle"
        /\ \E at \in {"idle", "clear, route"} : job' = [job EXCEPT !["recorder"].at = at]
        /\ UNCHANGED <<routeLock, routedFor, sndDriver>> /\ hw'.mCurSndDevice = hw.mCurSndDevice
        /\ hw'.mMicMute = hw.mMicMute
    BY <1>0, <1>17 DEF read, OnlyInput, Begin, Resting, streams, sndDriver, JobTypes, Hw
  <2>2. input'.mDevices = input.mDevices /\ UNCHANGED <<outDevices, voipDevices, pending, hw>>
    BY <1>0, <1>17 DEF read, OnlyInput, streams, JobTypes
  <2>3. LockHeld' /\ DeviceKept' /\ RouteComes'
    BY <2>1, <2>2, RouteKept DEF sndDriver, Routing, Places, RouteThreads
  <2> QED
    BY <2>1, <2>3 DEF RouteInv, MicKept, sndDriver
<1>18. ASSUME standbyInput PROVE Goal
  <2>1. /\ job["recorder"].at = "idle" /\ job' = [job EXCEPT !["recorder"].at = "clear, route"]
        /\ UNCHANGED <<routeLock, routedFor, sndDriver>> /\ hw'.mCurSndDevice = hw.mCurSndDevice
        /\ hw'.mMicMute = hw.mMicMute
    BY <1>0, <1>18 DEF standbyInput, OnlyInput, Begin, Resting, streams, sndDriver, JobTypes, Hw
  <2>2. LockHeld' /\ DeviceKept' /\ RouteComes'
    BY <1>18, <2>1, RouteKept DEF standbyInput, OnlyInput, sndDriver, streams, Routing, Places, RouteThreads
  <2> QED
    BY <2>1, <2>2 DEF RouteInv, MicKept, sndDriver
<1>20. ASSUME setVoipRouting PROVE Goal
  <2>1. /\ job["voip"].at = "idle" /\ job' = [job EXCEPT !["voip"].at = "doRouting"]
        /\ UNCHANGED <<routeLock, routedFor, sndDriver>> /\ hw'.mCurSndDevice = hw.mCurSndDevice
        /\ hw'.mMicMute = hw.mMicMute
    BY <1>0, <1>20 DEF setVoipRouting, Begin, Resting, streams, sndDriver, JobTypes, Hw
  <2>2. LockHeld' /\ DeviceKept' /\ RouteComes'
    BY <1>20, <2>1, RouteKept DEF setVoipRouting, sndDriver, streams, Routing, Places, RouteThreads
  <2> QED
    BY <2>1, <2>2 DEF RouteInv, MicKept, sndDriver
<1>19. CASE UNCHANGED routeVars
  <2>1. Settled' => Settled /\ Selected(FALSE, Wanted)' = Selected(FALSE, Wanted)
    BY <1>0, <1>19, SelectionKept DEF routeVars, streams, sndDriver
  <2> QED
    BY <1>19, <2>1 DEF routeVars, streams, sndDriver, RouteInv, LockHeld, DeviceKept, RouteComes, MicKept
<1> QED
  BY <1>1, <1>2, <1>3, <1>4, <1>5, <1>6, <1>7, <1>8, <1>9, <1>10, <1>11,
     <1>12, <1>13, <1>14, <1>15, <1>16, <1>17, <1>18, <1>19, <1>20
     DEF RouteNext

(* doRouting: once the threads rest and the policy has routed, the driver  *)
(* is set to the device of the last selection and its microphone muted as  *)
(* asked, however the threads interleaved, except for what the driver has  *)
(* refused and was not set again since.                                    *)
THEOREM RouteSettles == RouteSpec => []RouteFollows
<1>1. RouteInit => RouteInv
  BY DEF RouteInit, RouteInv, JobTypes, LockHeld, DeviceKept, RouteComes, MicKept, Settled, AtRest, NoDevice,
         OutDevices, InDevices, NoInput, Job, Hw, Snd, Places, SoundDevices, RouteThreads
<1>2. RouteInv => RouteFollows
  BY DEF RouteInv, RouteComes, MicKept, Settled, RouteFollows, AllRest, Resting, Routing
<1> QED
  BY <1>1, <1>2, RouteStep, PTL DEF RouteSpec

-----------------------------------------------------------------------------
(* AudioVoip.  An operation under way: its next step is one of heads, what *)
(* comes after it is from rest, and it will end with one of ends.          *)
Steps(heads, rest, ends) ==
    {s \in Seq(heads) : s # <<>> /\ Tail(s) \in Seq(rest) /\ s[Len(s)] \in ends}

SetSteps == {"in.set", "in.open", "in.start", "in.active", "in.error"}
Switching == {"setup", "unmute"}
PlaySteps == Switching \cup
    {"out.fd", "out.open", "out.start", "out.active", "out.error", "out.frame", "out.device",
     "out.ready", "out.standby", "out.close", "restore", "mute", "out.inStandby"}
PlayRest == {"out.ready", "restore", "out.inStandby"}
PlayJobs == Steps(PlaySteps, PlayRest, PlaySteps)
ReadSteps == SetSteps \cup Switching \cup {"lock", "reopened", "in.frame"}
ReadRest == {"in.set", "reopened", "in.frame"}
ReadJobs == Steps(ReadSteps, ReadRest, ReadSteps)
RestSteps == {"in.standby", "in.close", "restore", "mute", "in.closed", "in.leave"}
RestRest == {"restore", "in.closed", "in.leave"}
RestJobs == Steps(RestSteps, RestRest, RestSteps)
OpenOutSteps == Switching \cup {"openOut", "openedOut", "createdOut"}
OpenOutJobs == Steps(OpenOutSteps, {"createdOut"}, {"createdOut"})
ShutOutSteps == {"out.standby", "out.close", "restore", "mute", "out.inStandby", "deletedOut"}
ShutOutRest == {"restore", "out.inStandby", "deletedOut"}
ShutOutJobs == Steps(ShutOutSteps, ShutOutRest, {"deletedOut"})
OpenInSteps == SetSteps \cup Switching \cup {"lock", "openIn", "openedIn", "createdIn"}
OpenInRest == {"in.set", "openIn", "createdIn"}
OpenInJobs == Steps(OpenInSteps, OpenInRest, {"createdIn"})
ShutInSteps == RestSteps \cup {"closeIn", "in.delete", "deletedIn"}
ShutInRest == RestRest \cup {"in.standby", "deletedIn"}
ShutInJobs == Steps(ShutInSteps, ShutInRest, {"deletedIn"})
OutJobs == OpenOutJobs \cup ShutOutJobs \cup {<<"closeOut">>}
InJobs == OpenInJobs \cup ShutInJobs

VoipTypes ==
    /\ todo[Player] \in {<<>>} \cup PlayJobs
    /\ todo[Recorder] \in {<<>>} \cup ReadJobs \cup RestJobs
    /\ todo[Binder] \in {<<>>} \cup OutJobs \cup InJobs
    /\ DOMAIN todo = VoipThreads /\ mDirectOutrefCnt \in Nat /\ mvs \subseteq Fds

(* The player runs only while the output is open, and nobody else then     *)
(* touches the descriptor it started.                                      *)
OutputAlone ==
    /\ todo[Player] # <<>> => mDirectOutrefCnt > 0 /\ todo[Binder] # <<"closeOut">>
    /\ todo[Binder] = <<"closeOut">> => mDirectOutrefCnt > 0
    /\ todo[Binder] \in ShutOutJobs => mDirectOutrefCnt = 0
    /\ At(Player, "out.start") => outFd # NoFd

(* The record thread and the policy thread do not work on the input at the *)
(* same time; a standby that has begun left the input out of use.          *)
InputAlone ==
    /\ todo[Recorder] # <<>> => inOpen /\ todo[Binder] \notin InJobs
    /\ \A t \in VoipThreads : At(t, "in.start") => inFd # NoFd
    /\ todo[Recorder] \in RestJobs => Head(todo[Recorder]) = "in.standby" \/ ~mVoipInActive
    /\ todo[Binder] \in ShutInJobs =>
         \/ Head(todo[Binder]) \in {"closeIn", "in.delete", "in.standby"}
         \/ ~mVoipInActive
    /\ At(Binder, "closeIn") \/ At(Binder, "in.delete") =>
         Tail(todo[Binder]) = <<"in.standby", "deletedIn">>
    /\ mVoipInActive => mState # "CLOSED"

(* The shared descriptor is in use, about to be, or about to be closed.    *)
OutputWill ==
    \E t \in VoipThreads :
      \/ At(t, "out.start") \/ At(t, "out.active") \/ At(t, "out.standby") \/ At(t, "out.close")
      \/ At(t, "out.error") /\ outFd # NoFd
InputWill ==
    \E t \in VoipThreads :
      \/ At(t, "in.start") \/ At(t, "in.active") \/ At(t, "in.close")
      \/ At(t, "in.error") /\ inFd # NoFd
      \/ At(t, "in.standby") /\ mState # "CLOSED"
FdKept == mVoipFd # NoFd => mVoipInActive \/ mVoipOutActive \/ OutputWill \/ InputWill

VoipInv == VoipTypes /\ OutputAlone /\ InputAlone /\ FdKept

(* A step h of a job of that kind may be replaced by the steps p.          *)
Fits(h, p, heads, rest, ends) ==
    h \in heads =>
      \/ p = <<>>
      \/ p \in Seq(heads) /\ Tail(p) \in Seq(rest) /\ (h \notin ends \/ p[Len(p)] \in ends)
Keeps(t, h, p) ==
    /\ t = Player => Fits(h, p, PlaySteps, PlayRest, PlaySteps)
    /\ t = Recorder =>
         Fits(h, p, ReadSteps, ReadRest, ReadSteps) /\ Fits(h, p, RestSteps, RestRest, RestSteps)
    /\ t = Binder =>
         /\ Fits(h, p, OpenOutSteps, {"createdOut"}, {"createdOut"})
         /\ Fits(h, p, ShutOutSteps, ShutOutRest, {"deletedOut"})
         /\ Fits(h, p, OpenInSteps, OpenInRest, {"createdIn"})
         /\ Fits(h, p, ShutInSteps, ShutInRest, {"deletedIn"})
         /\ h # "closeOut"

(* What is left of a job, or its continuation by other steps, is a job of  *)
(* the same kind.                                                          *)
LEMMA JobGoesOn ==
    ASSUME NEW heads, NEW rest, NEW ends, rest \subseteq heads, NEW s \in Steps(heads, rest, ends),
           NEW p, Fits(Head(s), p, heads, rest, ends)
    PROVE  /\ p = <<>> => p \o Tail(s) = <<>> \/ Head(p \o Tail(s)) \in rest
           /\ p # <<>> => p \o Tail(s) # <<>> /\ Head(p \o Tail(s)) = Head(p)
           /\ p \o Tail(s) \in {<<>>} \cup Steps(heads, rest, ends)
<1>1. s \in Seq(heads) /\ s # <<>> /\ Tail(s) \in Seq(rest) /\ s[Len(s)] \in ends /\ Head(s) \in heads
  BY DEF Steps
<1>2. CASE p = <<>>
  <2>1. p \o Tail(s) = Tail(s)
    BY <1>1, <1>2
  <2>2. CASE Tail(s) = <<>>
    BY <1>2, <2>1, <2>2
  <2>3. CASE Tail(s) # <<>>
    <3>1. Tail(s) \in Seq(heads) /\ Head(Tail(s)) \in rest /\ Tail(Tail(s)) \in Seq(rest)
      BY <1>1, <2>3
    <3>2. Tail(s)[Len(Tail(s))] = s[Len(s)]
      BY <1>1, <2>3
    <3> QED
      BY <1>1, <1>2, <2>1, <2>3, <3>1, <3>2 DEF Steps
  <2> QED
    BY <2>2, <2>3
<1>3. CASE p # <<>>
  <2> DEFINE q == p \o Tail(s)
  <2>1. p \in Seq(heads) /\ Tail(p) \in Seq(rest) /\ (Head(s) \notin ends \/ p[Len(p)] \in ends)
    BY <1>1, <1>3 DEF Fits
  <2>2. q \in Seq(heads) /\ q # <<>> /\ Head(q) = Head(p) /\ Len(q) = Len(p) + Len(s) - 1
    BY <1>1, <1>3, <2>1
  <2>3. Tail(q) = Tail(p) \o Tail(s)
    BY <1>1, <1>3, <2>1
  <2>4. Tail(q) \in Seq(rest)
    BY <1>1, <2>1, <2>3
  <2>5. q[Len(q)] \in ends
    <3>1. CASE Len(s) = 1
      <4>1. Head(s) \in ends /\ Len(q) = Len(p)
        BY <1>1, <2>1, <2>2, <3>1
      <4>2. q[Len(q)] = p[Len(p)]
        BY <1>1, <1>3, <2>1, <3>1, <4>1
      <4> QED
        BY <2>1, <4>1, <4>2
    <3>2. CASE Len(s) # 1
      <4>0. Len(s) \in Nat /\ Len(s) # 0
        BY <1>1
      <4>1. Len(s) > 1
        <5>1. \A n \in Nat : n # 0 /\ n # 1 => n > 1
          OBVIOUS
        <5> QED
          BY <3>2, <4>0, <5>1
      <4>4. Len(Tail(s)) = Len(s) - 1
        BY <1>1
      <4>2. q[Len(q)] = Tail(s)[Len(s) - 1]
        BY <1>1, <2>1, <2>2, <4>0, <4>1, <4>4
      <4>3. Tail(s)[Len(s) - 1] = s[Len(s)]
        BY <1>1, <4>0, <4>1, <4>4
      <4> QED
        BY <1>1, <4>2, <4>3
    <3> QED
      BY <3>1, <3>2
  <2> HIDE DEF q
  <2>6. q \in Steps(heads, rest, ends)
    BY <2>2, <2>4, <2>5 DEF Steps
  <2> QED
    BY <1>3, <2>2, <2>6 DEF q
<1> QED
  BY <1>2, <1>3

(* The steps t is at are replaced by p.                                    *)
Moves(t, p) ==
    /\ t \in VoipThreads /\ todo[t] # <<>> /\ Keeps(t, Head(todo[t]), p)
    /\ Goto(t, p)

(* The three threads.                                                      *)
LEMMA Threads ==
    /\ VoipThreads = {Player, Recorder, Binder}
    /\ Player # Recorder /\ Player # Binder /\ Recorder # Binder
BY DEF VoipThreads, Player, Recorder, Binder

(* The operations of the policy thread are told apart by their last step.  *)
LEMMA JobsDiffer ==
    /\ \A s \in OpenOutJobs : s \notin ShutOutJobs \cup InJobs \cup {<<"closeOut">>}
    /\ \A s \in ShutOutJobs : s \notin InJobs \cup {<<"closeOut">>}
    /\ \A s \in OpenInJobs : s \notin ShutInJobs \cup {<<"closeOut">>}
    /\ \A s \in ShutInJobs : s \notin {<<"closeOut">>}
    /\ \A s \in ReadJobs : s \notin RestJobs
    /\ <<>> \notin ReadJobs \cup RestJobs \cup OutJobs \cup InJobs
<1>1. \A s \in ReadJobs : Head(s) \in ReadSteps
  BY DEF ReadJobs, Steps
<1>2. \A s \in RestJobs : Head(s) \in RestSteps
  BY DEF RestJobs, Steps
<1>3. \A s \in ReadJobs : s \notin RestJobs
  BY <1>1, <1>2 DEF ReadSteps, RestSteps, SetSteps, Switching
<1>4. <<>> \notin ReadJobs \cup RestJobs \cup OutJobs \cup InJobs
  BY DEF ReadJobs, RestJobs, OutJobs, InJobs, OpenOutJobs, ShutOutJobs, OpenInJobs, ShutInJobs, Steps
<1> QED
  BY <1>3, <1>4 DEF OpenOutJobs, ShutOutJobs, InJobs, OpenInJobs, ShutInJobs, Steps

(* What such a move does to the jobs: the other threads keep theirs, and   *)
(* the kind of the operation stays.                                        *)
LEMMA Moved ==
    ASSUME VoipTypes, NEW t, NEW p, Moves(t, p)
    PROVE  /\ \A u \in VoipThreads : u # t => todo'[u] = todo[u]
           /\ p # <<>> => todo'[t] # <<>> /\ Head(todo'[t]) = Head(p)
           /\ p = <<>> /\ todo'[t] # <<>> =>
                Head(todo'[t]) \in
                  PlayRest \cup ReadRest \cup OpenInRest \cup ShutInRest \cup {"createdOut", "deletedOut"}
           /\ todo'[t] = p \o Tail(todo[t])
           /\ todo'[Player] \in {<<>>} \cup PlayJobs
           /\ todo'[Recorder] \in {<<>>} \cup ReadJobs \cup RestJobs
           /\ todo'[Binder] \in {<<>>} \cup OutJobs \cup InJobs
           /\ DOMAIN todo' = VoipThreads
           /\ t = Recorder /\ todo'[t] \in RestJobs => todo[t] \in RestJobs
           /\ t = Binder /\ todo'[t] \in ShutOutJobs => todo[t] \in ShutOutJobs
           /\ t = Binder /\ todo'[t] \in OpenInJobs => todo[t] \in OpenInJobs
           /\ t = Binder /\ todo'[t] \in ShutInJobs => todo[t] \in ShutInJobs
           /\ t = Binder => todo'[t] # <<"closeOut">>
<1> DEFINE s == todo[t]
           q == p \o Tail(todo[t])
<1>1. /\ todo'[t] = q /\ \A u \in VoipThreads : u # t => todo'[u] = todo[u]
      /\ DOMAIN todo' = VoipThreads
  BY DEF Moves, Goto, VoipTypes
<1>2. CASE t = Player
  <2>1. s \in PlayJobs /\ PlayRest \subseteq PlaySteps /\ Fits(Head(s), p, PlaySteps, PlayRest, PlaySteps)
    BY <1>2 DEF Moves, VoipTypes, PlayRest, PlaySteps, Keeps
  <2>2. /\ p = <<>> => q = <<>> \/ Head(q) \in PlayRest
        /\ p # <<>> => q # <<>> /\ Head(q) = Head(p)
        /\ q \in {<<>>} \cup PlayJobs
    BY <2>1, JobGoesOn DEF PlayJobs
  <2> QED
    BY <1>1, <1>2, <2>2, Threads DEF VoipTypes
<1>3. CASE t = Recorder
  <2>1. CASE s \in ReadJobs
    <3>1. ReadRest \subseteq ReadSteps /\ Fits(Head(s), p, ReadSteps, ReadRest, ReadSteps)
      BY <1>3 DEF Moves, Keeps, ReadSteps, ReadRest, SetSteps, Switching, RestSteps, RestRest
    <3>2. /\ p = <<>> => q = <<>> \/ Head(q) \in ReadRest
          /\ p # <<>> => q # <<>> /\ Head(q) = Head(p)
          /\ q \in {<<>>} \cup ReadJobs
      BY <2>1, <3>1, JobGoesOn DEF ReadJobs
    <3> QED
      BY <1>3, <1>1, <2>1, <3>2, Threads, JobsDiffer
         DEF VoipTypes, InJobs, OutJobs, PlayRest, ShutInRest, ShutOutRest
  <2>2. CASE s \in RestJobs
    <3>1. RestRest \subseteq RestSteps /\ Fits(Head(s), p, RestSteps, RestRest, RestSteps)
      BY <1>3 DEF Moves, Keeps, RestSteps, RestRest, SetSteps, Switching
    <3>2. /\ p = <<>> => q = <<>> \/ Head(q) \in RestRest
          /\ p # <<>> => q # <<>> /\ Head(q) = Head(p)
          /\ q \in {<<>>} \cup RestJobs
      BY <2>2, <3>1, JobGoesOn DEF RestJobs
    <3> QED
      BY <1>3, <1>1, <2>2, <3>2, Threads, JobsDiffer
         DEF VoipTypes, InJobs, OutJobs, PlayRest, ShutInRest, ShutOutRest
  <2> QED
    BY <1>3, <2>1, <2>2 DEF VoipTypes, Moves
<1>4. CASE t = Binder
  <2>1. CASE s \in OpenOutJobs
    <3>1. /\ {"createdOut"} \subseteq OpenOutSteps
          /\ Fits(Head(s), p, OpenOutSteps, {"createdOut"}, {"createdOut"})
      BY <1>4 DEF Moves, Keeps, OpenOutSteps, SetSteps, Switching, RestSteps, RestRest
    <3>2. /\ p = <<>> => q = <<>> \/ Head(q) \in {"createdOut"}
          /\ p # <<>> => q # <<>> /\ Head(q) = Head(p)
          /\ q \in {<<>>} \cup OpenOutJobs
      BY <2>1, <3>1, JobGoesOn DEF OpenOutJobs
    <3> QED
      BY <1>4, <1>1, <2>1, <3>2, Threads, JobsDiffer
         DEF VoipTypes, InJobs, OutJobs, PlayRest, ShutInRest, ShutOutRest
  <2>2. CASE s \in ShutOutJobs
    <3>1. ShutOutRest \subseteq ShutOutSteps /\ Fits(Head(s), p, ShutOutSteps, ShutOutRest, {"deletedOut"})
      BY <1>4 DEF Moves, Keeps, ShutOutSteps, ShutOutRest, SetSteps, Switching, RestSteps, RestRest
    <3>2. /\ p = <<>> => q = <<>> \/ Head(q) \in ShutOutRest
          /\ p # <<>> => q # <<>> /\ Head(q) = Head(p)
          /\ q \in {<<>>} \cup ShutOutJobs
      BY <2>2, <3>1, JobGoesOn DEF ShutOutJobs
    <3> QED
      BY <1>4, <1>1, <2>2, <3>2, Threads, JobsDiffer
         DEF VoipTypes, InJobs, OutJobs, PlayRest, ShutInRest, ShutOutRest
  <2>3. CASE s \in OpenInJobs
    <3>1. OpenInRest \subseteq OpenInSteps /\ Fits(Head(s), p, OpenInSteps, OpenInRest, {"createdIn"})
      BY <1>4 DEF Moves, Keeps, OpenInSteps, OpenInRest, SetSteps, Switching, RestSteps, RestRest
    <3>2. /\ p = <<>> => q = <<>> \/ Head(q) \in OpenInRest
          /\ p # <<>> => q # <<>> /\ Head(q) = Head(p)
          /\ q \in {<<>>} \cup OpenInJobs
      BY <2>3, <3>1, JobGoesOn DEF OpenInJobs
    <3> QED
      BY <1>4, <1>1, <2>3, <3>2, Threads, JobsDiffer
         DEF VoipTypes, InJobs, OutJobs, PlayRest, ShutInRest, ShutOutRest
  <2>4. CASE s \in ShutInJobs
    <3>1. ShutInRest \subseteq ShutInSteps /\ Fits(Head(s), p, ShutInSteps, ShutInRest, {"deletedIn"})
      BY <1>4 DEF Moves, Keeps, ShutInSteps, ShutInRest, SetSteps, Switching, RestSteps, RestRest
    <3>2. /\ p = <<>> => q = <<>> \/ Head(q) \in ShutInRest
          /\ p # <<>> => q # <<>> /\ Head(q) = Head(p)
          /\ q \in {<<>>} \cup ShutInJobs
      BY <2>4, <3>1, JobGoesOn DEF ShutInJobs
    <3>3. /\ s \notin OutJobs \cup OpenInJobs
          /\ q \notin OutJobs \cup OpenInJobs \cup {<<"closeOut">>}
      BY <2>4, <3>2, JobsDiffer DEF InJobs, OutJobs
    <3>4. /\ todo'[Player] \in {<<>>} \cup PlayJobs
          /\ todo'[Recorder] \in {<<>>} \cup ReadJobs \cup RestJobs
          /\ todo'[Binder] \in {<<>>} \cup OutJobs \cup InJobs
      BY <1>4, <1>1, <3>2, Threads DEF VoipTypes, InJobs
    <3> QED
      BY <1>4, <1>1, <2>4, <3>2, <3>3, <3>4, Threads DEF OutJobs
  <2>5. s # <<"closeOut">>
    BY <1>4 DEF Moves, Keeps
  <2> QED
    BY <1>4, <2>1, <2>2, <2>3, <2>4, <2>5 DEF VoipTypes, Moves, OutJobs, InJobs
<1> QED
  BY <1>2, <1>3, <1>4, Threads DEF Moves

InWill == {"in.start", "in.active", "in.close", "in.error", "in.standby"}
OutWill == {"out.start", "out.active", "out.standby", "out.close", "out.error"}

(* A step outside what the input's claims are about keeps them.            *)
LEMMA InputKept ==
    ASSUME VoipInv, NEW t, NEW p, Moves(t, p), Head(todo[t]) \notin InWill \cup {"closeIn", "in.delete"},
           p # <<>> => Head(p) \notin {"in.start", "closeIn", "in.delete"},
           UNCHANGED <<inFd, mVoipInActive>>, inOpen => inOpen', mState # "CLOSED" => mState' # "CLOSED"
    PROVE  InputAlone' /\ (InputWill => InputWill')
<1>0. VoipTypes /\ InputAlone
  BY DEF VoipInv
<1>1. /\ \A u \in VoipThreads : u # t => todo'[u] = todo[u]
      /\ todo'[t] # <<>> => Head(todo'[t]) \notin {"in.start", "closeIn", "in.delete"}
      /\ t = Recorder /\ todo'[t] \in RestJobs => todo[t] \in RestJobs
      /\ t = Binder /\ todo'[t] \in OpenInJobs => todo[t] \in OpenInJobs
      /\ t = Binder /\ todo'[t] \in ShutInJobs => todo[t] \in ShutInJobs
  BY <1>0, Moved DEF PlayRest, ReadRest, OpenInRest, ShutInRest, RestRest
<1>2. t \in VoipThreads /\ todo[t] # <<>>
  BY DEF Moves
<1>3. InputAlone'
  <2>1. (todo[Recorder] # <<>> => inOpen /\ todo[Binder] \notin InJobs)'
    BY <1>0, <1>1, <1>2, Threads DEF InputAlone, InJobs
  <2>2. (\A u \in VoipThreads : At(u, "in.start") => inFd # NoFd)'
    BY <1>0, <1>1, <1>2, Threads DEF InputAlone, At
  <2>3. (todo[Recorder] \in RestJobs => Head(todo[Recorder]) = "in.standby" \/ ~mVoipInActive)'
    BY <1>0, <1>1, <1>2, Threads DEF InputAlone, InWill
  <2>4. (todo[Binder] \in ShutInJobs =>
           \/ Head(todo[Binder]) \in {"closeIn", "in.delete", "in.standby"}
           \/ ~mVoipInActive)'
    BY <1>0, <1>1, <1>2, Threads DEF InputAlone, InWill
  <2>5. (At(Binder, "closeIn") \/ At(Binder, "in.delete") =>
           Tail(todo[Binder]) = <<"in.standby", "deletedIn">>)'
    BY <1>0, <1>1, <1>2, Threads DEF InputAlone, At
  <2>6. (mVoipInActive => mState # "CLOSED")'
    BY <1>0 DEF InputAlone
  <2> QED
    BY <2>1, <2>2, <2>3, <2>4, <2>5, <2>6 DEF InputAlone
<1>4. InputWill => InputWill'
  BY <1>1, <1>2 DEF InputWill, At, InWill
<1> QED
  BY <1>3, <1>4

(* The same for the output.                                                *)
LEMMA OutputKept ==
    ASSUME VoipInv, NEW t, NEW p, Moves(t, p), Head(todo[t]) \notin OutWill,
           p # <<>> => Head(p) # "out.start", UNCHANGED <<mDirectOutrefCnt, outFd>>
    PROVE  OutputAlone' /\ (OutputWill => OutputWill')
<1>0. VoipTypes /\ OutputAlone
  BY DEF VoipInv
<1>1. /\ \A u \in VoipThreads : u # t => todo'[u] = todo[u]
      /\ todo'[t] # <<>> => Head(todo'[t]) # "out.start"
      /\ t = Binder /\ todo'[t] \in ShutOutJobs => todo[t] \in ShutOutJobs
      /\ t = Binder => todo'[t] # <<"closeOut">>
  BY <1>0, Moved DEF PlayRest, ReadRest, OpenInRest, ShutInRest, RestRest
<1>2. t \in VoipThreads /\ todo[t] # <<>>
  BY DEF Moves
<1>3. OutputAlone'
  BY <1>0, <1>1, <1>2, Threads DEF OutputAlone, At
<1>4. OutputWill => OutputWill'
  BY <1>1, <1>2 DEF OutputWill, At, OutWill
<1> QED
  BY <1>3, <1>4

(* A step that touches neither.                                            *)
QuietMove(t, p) ==
    /\ todo[t] # <<>> /\ Head(todo[t]) \notin InWill \cup OutWill \cup {"closeIn", "in.delete", "closeOut"}
    /\ p # <<>> => Head(p) \notin {"in.start", "closeIn", "in.delete", "out.start"}
    /\ Keeps(t, Head(todo[t]), p) /\ Goto(t, p)
    /\ UNCHANGED <<inFd, mVoipInActive, mDirectOutrefCnt, outFd, mVoipFd, mVoipOutActive, mvs>>
    /\ inOpen => inOpen'
    /\ mState # "CLOSED" => mState' # "CLOSED"
(* It keeps the invariant.                                                 *)
LEMMA QuietStep ==
    ASSUME VoipInv, NEW t \in VoipThreads, NEW p, QuietMove(t, p)
    PROVE  VoipInv'
<1>0. Moves(t, p)
  BY DEF Moves, QuietMove
<1>1. InputAlone' /\ (InputWill => InputWill')
  BY <1>0, InputKept DEF QuietMove
<1>2. OutputAlone' /\ (OutputWill => OutputWill')
  BY <1>0, OutputKept DEF QuietMove
<1>3. VoipTypes'
  BY <1>0, Moved DEF VoipInv, VoipTypes, QuietMove
<1>4. FdKept'
  BY <1>1, <1>2 DEF VoipInv, FdKept, QuietMove
<1> QED
  BY <1>1, <1>2, <1>3, <1>4 DEF VoipInv

(* The steps of the code keep the kind of operation they belong to.        *)
LEMMA StepsFit ==
    ASSUME NEW t, NEW h
    PROVE  /\ h # "closeOut" => Keeps(t, h, <<>>)
           /\ h = "setup" => Keeps(t, h, <<"unmute">>)
           /\ h = "restore" => Keeps(t, h, <<"mute">>)
           /\ h = "out.device" => Keeps(t, h, <<"setup">>)
           /\ h = "out.ready" => Keeps(t, h, <<"out.frame">>)
           /\ h = "out.frame" => Keeps(t, h, <<"out.error">>)
           /\ h = "in.frame" => Keeps(t, h, <<"setup">>)
           /\ h = "openOut" => Keeps(t, h, <<"openedOut">>)
           /\ h = "openedOut" => Keeps(t, h, <<"setup">>)
           /\ h = "openIn" => Keeps(t, h, <<"openedIn">>)
           /\ h = "openedIn" => Keeps(t, h, <<"setup">>)
           /\ h = "out.fd" => Keeps(t, h, <<"out.active">>) /\ Keeps(t, h, <<"out.open">>)
           /\ h = "out.open" => Keeps(t, h, <<"out.start">>) /\ Keeps(t, h, <<"out.error">>)
           /\ h = "out.start" => Keeps(t, h, <<"out.active">>) /\ Keeps(t, h, <<"out.error">>)
           /\ h = "out.active" => Keeps(t, h, <<"out.device", "out.ready">>)
           /\ h = "out.standby" =>
                /\ Keeps(t, h, <<"out.inStandby">>)
                /\ Keeps(t, h, <<"out.close", "restore", "out.inStandby">>)
           /\ h = "in.set" => Keeps(t, h, <<"in.active">>) /\ Keeps(t, h, <<"in.open">>)
           /\ h = "in.open" => Keeps(t, h, <<"in.start">>) /\ Keeps(t, h, <<"in.error">>)
           /\ h = "in.start" => Keeps(t, h, <<"in.active">>) /\ Keeps(t, h, <<"in.error">>)
           /\ h = "in.standby" =>
                /\ Keeps(t, h, <<"in.leave">>) /\ Keeps(t, h, <<"in.closed", "in.leave">>)
                /\ Keeps(t, h, <<"in.close", "restore", "in.closed", "in.leave">>)
<1> USE DEF Keeps, Fits, PlaySteps, PlayRest, ReadSteps, ReadRest, RestSteps, RestRest, OpenOutSteps,
             ShutOutSteps, ShutOutRest, OpenInSteps, OpenInRest, ShutInSteps, ShutInRest, SetSteps, Switching
<1>1. h # "closeOut" => Keeps(t, h, <<>>)
  OBVIOUS
<1>2. h = "setup" => Keeps(t, h, <<"unmute">>)
  OBVIOUS
<1>3. h = "restore" => Keeps(t, h, <<"mute">>)
  OBVIOUS
<1>4. h = "out.device" => Keeps(t, h, <<"setup">>)
  OBVIOUS
<1>5. h = "out.ready" => Keeps(t, h, <<"out.frame">>)
  OBVIOUS
<1>6. h = "out.frame" => Keeps(t, h, <<"out.error">>)
  OBVIOUS
<1>7. h = "in.frame" => Keeps(t, h, <<"setup">>)
  OBVIOUS
<1>8. h = "openOut" => Keeps(t, h, <<"openedOut">>)
  OBVIOUS
<1>9. h = "openedOut" => Keeps(t, h, <<"setup">>)
  OBVIOUS
<1>10. h = "openIn" => Keeps(t, h, <<"openedIn">>)
  OBVIOUS
<1>11. h = "openedIn" => Keeps(t, h, <<"setup">>)
  OBVIOUS
<1>12. h = "out.fd" => Keeps(t, h, <<"out.active">>) /\ Keeps(t, h, <<"out.open">>)
  OBVIOUS
<1>13. h = "out.open" => Keeps(t, h, <<"out.start">>) /\ Keeps(t, h, <<"out.error">>)
  OBVIOUS
<1>14. h = "out.start" => Keeps(t, h, <<"out.active">>) /\ Keeps(t, h, <<"out.error">>)
  OBVIOUS
<1>15. h = "out.active" => Keeps(t, h, <<"out.device", "out.ready">>)
  OBVIOUS
<1>16. h = "out.standby" =>
       /\ Keeps(t, h, <<"out.inStandby">>)
       /\ Keeps(t, h, <<"out.close", "restore", "out.inStandby">>)
  OBVIOUS
<1>17. h = "in.set" => Keeps(t, h, <<"in.active">>) /\ Keeps(t, h, <<"in.open">>)
  OBVIOUS
<1>18. h = "in.open" => Keeps(t, h, <<"in.start">>) /\ Keeps(t, h, <<"in.error">>)
  OBVIOUS
<1>19. h = "in.start" => Keeps(t, h, <<"in.active">>) /\ Keeps(t, h, <<"in.error">>)
  OBVIOUS
<1>20. h = "in.standby" =>
       /\ Keeps(t, h, <<"in.leave">>) /\ Keeps(t, h, <<"in.closed", "in.leave">>)
       /\ Keeps(t, h, <<"in.close", "restore", "in.closed", "in.leave">>)
  OBVIOUS
<1> QED
  BY <1>1, <1>2, <1>3, <1>4, <1>5, <1>6, <1>7, <1>8, <1>9, <1>10,
     <1>11, <1>12, <1>13, <1>14, <1>15, <1>16, <1>17, <1>18, <1>19, <1>20

(* Jobs of one to four steps.                                              *)
LEMMA Job1 ==
    ASSUME NEW heads, NEW rest, NEW ends, NEW a \in heads, rest \subseteq heads, a \in ends
    PROVE  <<a>> \in Steps(heads, rest, ends)
<1>1. <<a>> \in Seq(heads) /\ <<a>> # <<>> /\ Len(<<a>>) = 1
  OBVIOUS
<1>2. Tail(<<a>>) = <<>> /\ <<>> \in Seq(rest)
  OBVIOUS
<1> QED
  BY <1>1, <1>2 DEF Steps
LEMMA Job2 ==
    ASSUME NEW heads, NEW rest, NEW ends, NEW a \in heads, NEW b \in rest, rest \subseteq heads, b \in ends
    PROVE  <<a, b>> \in Steps(heads, rest, ends)
<1>1. <<a, b>> \in Seq(heads) /\ <<a, b>> # <<>> /\ Len(<<a, b>>) = 2
  OBVIOUS
<1>2. Tail(<<a, b>>) = <<b>> /\ <<b>> \in Seq(rest)
  OBVIOUS
<1> QED
  BY <1>1, <1>2 DEF Steps
LEMMA Job3 ==
    ASSUME NEW heads, NEW rest, NEW ends, NEW a \in heads, NEW b \in rest, NEW c \in rest,
           rest \subseteq heads, c \in ends
    PROVE  <<a, b, c>> \in Steps(heads, rest, ends)
<1>1. <<a, b, c>> \in Seq(heads) /\ <<a, b, c>> # <<>> /\ Len(<<a, b, c>>) = 3
  OBVIOUS
<1>2. Tail(<<a, b, c>>) = <<b, c>> /\ <<b, c>> \in Seq(rest)
  OBVIOUS
<1> QED
  BY <1>1, <1>2 DEF Steps
LEMMA Job4 ==
    ASSUME NEW heads, NEW rest, NEW ends, NEW a \in heads, NEW b \in rest, NEW c \in rest, NEW d \in rest,
           rest \subseteq heads, d \in ends
    PROVE  <<a, b, c, d>> \in Steps(heads, rest, ends)
<1>1. <<a, b, c, d>> \in Seq(heads) /\ <<a, b, c, d>> # <<>> /\ Len(<<a, b, c, d>>) = 4
  OBVIOUS
<1>2. Tail(<<a, b, c, d>>) = <<b, c, d>> /\ <<b, c, d>> \in Seq(rest)
  OBVIOUS
<1> QED
  BY <1>1, <1>2 DEF Steps

(* The operations as they begin.                                           *)
LEMMA JobsBegin ==
    /\ {<<"out.fd">>, <<"out.frame">>, <<"out.standby">>} \subseteq PlayJobs
    /\ {<<"lock", "in.set", "reopened", "in.frame">>, <<"in.frame">>} \subseteq ReadJobs
    /\ {<<"in.standby">>} \subseteq RestJobs
    /\ {<<"openOut", "createdOut">>} \subseteq OpenOutJobs
    /\ {<<"out.standby", "deletedOut">>} \subseteq ShutOutJobs
    /\ {<<"lock", "in.set", "openIn", "createdIn">>} \subseteq OpenInJobs
    /\ {<<"closeIn", "in.standby", "deletedIn">>,
        <<"in.delete", "in.standby", "deletedIn">>} \subseteq ShutInJobs
<1> USE DEF PlaySteps, PlayRest, ReadSteps, ReadRest, RestSteps, RestRest, OpenOutSteps, ShutOutSteps,
             ShutOutRest, OpenInSteps, OpenInRest, ShutInSteps, ShutInRest, SetSteps, Switching
<1>1. {<<"out.fd">>, <<"out.frame">>, <<"out.standby">>} \subseteq PlayJobs
  BY Job1 DEF PlayJobs
<1>2. {<<"lock", "in.set", "reopened", "in.frame">>, <<"in.frame">>} \subseteq ReadJobs
  BY Job1, Job4 DEF ReadJobs
<1>3. {<<"in.standby">>} \subseteq RestJobs
  BY Job1 DEF RestJobs
<1>4. {<<"openOut", "createdOut">>} \subseteq OpenOutJobs
  BY Job2 DEF OpenOutJobs
<1>5. {<<"out.standby", "deletedOut">>} \subseteq ShutOutJobs
  BY Job2 DEF ShutOutJobs
<1>6. {<<"lock", "in.set", "openIn", "createdIn">>} \subseteq OpenInJobs
  BY Job4 DEF OpenInJobs
<1>7. {<<"closeIn", "in.standby", "deletedIn">>,
      <<"in.delete", "in.standby", "deletedIn">>} \subseteq ShutInJobs
  BY Job3 DEF ShutInJobs
<1> QED
  BY <1>1, <1>2, <1>3, <1>4, <1>5, <1>6, <1>7

(* Steps that change neither a flag, nor a descriptor, nor how often the   *)
(* output is open.                                                         *)
LEMMA QuietSteps ==
    ASSUME VoipInv, NEW t \in VoipThreads,
           \/ SetupMode(t) \/ SetupMic(t) \/ Lock(t) \/ WriteDevice(t) \/ WriteReady(t) \/ WriteFrame(t)
           \/ StandbyOutEnd(t) \/ ReadFrame(t) \/ Reopened(t)
           \/ StandbyInEnd(t) /\ At(t, "in.leave")
           \/ t = Binder /\ (Created \/ OpenedOut \/ DeletedOut \/ OpenIn \/ OpenedIn)
    PROVE  VoipInv'
<1> USE DEF At, flags, outVars, inVars, driver, InWill, OutWill
<1> DEFINE Q(p) == QuietMove(t, p)
<1>1. CASE SetupMode(t)
  <2>1. Q(<<"unmute">>) \/ Q(<<>>) \/ Q(<<"mute">>)
    BY <1>1, StepsFit DEF QuietMove, SetupMode
  <2> QED
    BY <2>1, QuietStep
<1>2. CASE SetupMic(t) \/ Lock(t)
  <2>1. Q(<<>>)
    BY <1>2, StepsFit DEF QuietMove, SetupMic, Lock
  <2> QED
    BY <2>1, QuietStep
<1>3. CASE WriteDevice(t)
  <2>1. Q(<<"setup">>) \/ Q(<<>>)
    BY <1>3, StepsFit DEF QuietMove, WriteDevice
  <2> QED
    BY <2>1, QuietStep
<1>4. CASE WriteReady(t)
  <2>1. Q(<<"out.frame">>)
    BY <1>4, StepsFit DEF QuietMove, WriteReady
  <2> QED
    BY <2>1, QuietStep
<1>5. CASE WriteFrame(t)
  <2>1. Q(<<"out.error">>) \/ Q(<<>>)
    BY <1>5, StepsFit DEF QuietMove, WriteFrame
  <2> QED
    BY <2>1, QuietStep
<1>6. CASE ReadFrame(t)
  <2>1. Q(<<"setup">>) \/ Q(<<>>)
    BY <1>6, StepsFit DEF QuietMove, ReadFrame
  <2> QED
    BY <2>1, QuietStep
<1>7. CASE StandbyOutEnd(t) \/ Reopened(t)
  <2>1. Q(<<>>)
    BY <1>7, StepsFit DEF QuietMove, StandbyOutEnd, Reopened
  <2> QED
    BY <2>1, QuietStep
<1>8. CASE StandbyInEnd(t) /\ At(t, "in.leave")
  <2>1. Q(<<>>)
    BY <1>8, StepsFit DEF QuietMove, StandbyInEnd
  <2> QED
    BY <2>1, QuietStep
<1>9. CASE t = Binder /\ (Created \/ DeletedOut)
  <2>1. Q(<<>>)
    BY <1>9, StepsFit DEF QuietMove, Created, DeletedOut
  <2> QED
    BY <2>1, QuietStep
<1>10. CASE t = Binder /\ (OpenedOut \/ OpenedIn)
  <2>1. Q(<<"setup">>) \/ Q(<<>>)
    BY <1>10, StepsFit DEF QuietMove, OpenedOut, OpenedIn
  <2> QED
    BY <2>1, QuietStep
<1>11. CASE t = Binder /\ OpenIn
  <2>1. Q(<<"openedIn">>)
    BY <1>11, StepsFit DEF QuietMove, OpenIn
  <2> QED
    BY <2>1, QuietStep
<1> QED
  BY <1>1, <1>2, <1>3, <1>4, <1>5, <1>6, <1>7, <1>8, <1>9, <1>10, <1>11

(* Whoever is at a step of the output's own is alone with its descriptor.  *)
OutMove(t, p) ==
    /\ todo[t] # <<>> /\ Keeps(t, Head(todo[t]), p) /\ Goto(t, p)
    /\ Head(todo[t]) \in OutWill \cup {"out.fd", "out.open"}
    /\ p # <<>> => Head(p) \notin {"in.start", "closeIn", "in.delete"}
    /\ UNCHANGED <<inFd, mVoipInActive, inOpen, mState, mDirectOutrefCnt>> /\ mvs' \subseteq Fds
    /\ p # <<>> /\ Head(p) = "out.start" => outFd' # NoFd
(* It keeps all but the claim about the shared descriptor.                 *)
LEMMA OutputStep ==
    ASSUME VoipInv, NEW t \in VoipThreads, NEW p, OutMove(t, p)
    PROVE  /\ VoipTypes' /\ OutputAlone' /\ InputAlone' /\ (InputWill => InputWill')
           /\ p # <<>> => todo'[t] # <<>> /\ Head(todo'[t]) = Head(p)
<1>0. Moves(t, p) /\ VoipTypes /\ OutputAlone
  BY DEF Moves, OutMove, VoipInv
<1>1. InputAlone' /\ (InputWill => InputWill')
  BY <1>0, InputKept DEF OutMove, InWill, OutWill
<1>2. VoipTypes'
  BY <1>0, Moved DEF VoipTypes, OutMove
<1>3. /\ \A u \in VoipThreads : u # t => todo'[u] = todo[u]
      /\ p # <<>> => todo'[t] # <<>> /\ Head(todo'[t]) = Head(p)
      /\ p = <<>> /\ todo'[t] # <<>> => Head(todo'[t]) # "out.start"
      /\ t = Binder /\ todo'[t] \in ShutOutJobs => todo[t] \in ShutOutJobs
      /\ t = Binder => todo'[t] # <<"closeOut">>
  BY <1>0, Moved DEF PlayRest, ReadRest, OpenInRest, ShutInRest, RestRest
<1>4. t = Player \/ (t = Binder /\ todo[t] \in ShutOutJobs)
  <2>1. t # Recorder
    BY <1>0 DEF VoipTypes, OutMove, OutWill, ReadJobs, RestJobs, Steps, ReadSteps, RestSteps, SetSteps, Switching
  <2>2. t = Binder => todo[t] \in ShutOutJobs
    BY <1>0 DEF VoipTypes, OutMove, OutWill, OutJobs, InJobs, OpenOutJobs, OpenInJobs, ShutInJobs, Steps,
                OpenOutSteps, OpenInSteps, ShutInSteps, RestSteps, SetSteps, Switching
  <2> QED
    BY <2>1, <2>2, Threads
<1>5. OutputAlone'
  <2>1. CASE t = Player
    BY <1>0, <1>3, <2>1, Threads DEF OutputAlone, OutMove, At
  <2>2. CASE t = Binder /\ todo[t] \in ShutOutJobs
    <3>1. todo[Player] = <<>> /\ todo'[Player] = <<>>
      BY <1>0, <1>3, <2>2, Threads DEF OutputAlone, VoipTypes
    <3> QED
      BY <1>0, <1>3, <2>2, <3>1, Threads DEF OutputAlone, OutMove, At
  <2> QED
    BY <1>4, <2>1, <2>2
<1> QED
  BY <1>1, <1>2, <1>3, <1>5

(* open() finds a free descriptor while there is one.                      *)
LEMMA NextFdOpens == ASSUME mvs \subseteq Fds, mvs # Fds PROVE NextFd \in Fds \ mvs
<1>0. Fds = {1, 2, 3}
  BY DEF Fds
<1>1. \E f \in Fds \ mvs : \A g \in Fds \ mvs : f <= g
  <2>1. CASE 1 \notin mvs
    BY <1>0, <2>1
  <2>2. CASE 1 \in mvs /\ 2 \notin mvs
    BY <1>0, <2>2
  <2>3. CASE 1 \in mvs /\ 2 \in mvs
    <3>1. 3 \notin mvs
      BY <1>0, <2>3
    <3> QED
      BY <1>0, <2>3, <3>1
  <2> QED
    BY <2>1, <2>2, <2>3
<1> QED
  BY <1>1 DEF NextFd

(* write() and standby of the output.                                      *)
LEMMA OutputSteps ==
    ASSUME VoipInv, NEW t \in VoipThreads,
           \/ WriteFd(t) \/ WriteOpen(t) \/ WriteStart(t) \/ WriteActive(t) \/ WriteError(t)
           \/ StandbyOut(t) \/ StandbyOutClose(t)
    PROVE  VoipInv'
<1> DEFINE M(p) == OutMove(t, p)
<1> USE DEF At, flags, outVars, inVars, driver, InWill, OutWill, OutMove
<1>0. VoipTypes /\ OutputAlone /\ FdKept /\ mvs \subseteq Fds
  BY DEF VoipInv, VoipTypes
<1>1. CASE WriteFd(t)
  <2>1. CASE mVoipFd # NoFd
    <3>1. M(<<"out.active">>)
      BY <1>0, <1>1, <2>1, StepsFit DEF WriteFd
    <3>2. At(t, "out.active")' /\ VoipTypes' /\ OutputAlone' /\ InputAlone'
      BY <3>1, OutputStep
    <3> QED
      BY <3>2 DEF VoipInv, FdKept, OutputWill
  <2>2. CASE mVoipFd = NoFd
    <3>1. QuietMove(t, <<"out.open">>)
      BY <1>1, <2>2, StepsFit DEF WriteFd, QuietMove
    <3> QED
      BY <3>1, QuietStep
  <2> QED
    BY <2>1, <2>2
<1>2. CASE WriteOpen(t)
  <2>1. CASE mvs # Fds /\ mvs' = mvs \cup {NextFd} /\ outFd' = NextFd /\ Goto(t, <<"out.start">>)
    <3>1. NextFd \in Fds /\ NextFd # NoFd
      BY <1>0, <2>1, NextFdOpens DEF NoFd, Fds
    <3>2. M(<<"out.start">>)
      BY <1>0, <1>2, <2>1, <3>1, StepsFit DEF WriteOpen
    <3>3. At(t, "out.start")' /\ VoipTypes' /\ OutputAlone' /\ InputAlone'
      BY <3>2, OutputStep
    <3> QED
      BY <3>3 DEF VoipInv, FdKept, OutputWill
  <2>2. CASE Goto(t, <<"out.error">>) /\ UNCHANGED <<mvs, outFd, mVoipFd>>
    <3>2. Keeps(t, "out.open", <<"out.error">>)
      BY StepsFit
    <3>3. At(t, "out.open") /\ UNCHANGED <<flags, mDirectOutrefCnt, inVars>>
      BY <1>2 DEF WriteOpen
    <3>1. QuietMove(t, <<"out.error">>)
      BY <2>2, <3>2, <3>3 DEF QuietMove
    <3> QED
      BY <3>1, QuietStep
  <2> QED
    BY <1>2, <2>1, <2>2 DEF WriteOpen
<1>3. CASE WriteStart(t)
  <2>1. M(<<"out.active">>) \/ M(<<"out.error">>)
    BY <1>0, <1>3, StepsFit DEF WriteStart
  <2>2. /\ VoipTypes' /\ OutputAlone' /\ InputAlone'
        /\ At(t, "out.active")' \/ At(t, "out.error")'
    BY <2>1, OutputStep
  <2>3. outFd' # NoFd
    <3>1. At(t, "out.start")
      BY <1>3 DEF WriteStart
    <3>2. todo[Recorder] = <<>> \/ Head(todo[Recorder]) # "out.start"
      BY <1>0 DEF VoipTypes, ReadJobs, RestJobs, Steps, ReadSteps, RestSteps, SetSteps, Switching
    <3>3. todo[Binder] = <<>> \/ Head(todo[Binder]) # "out.start"
      <4>1. \A s \in OutJobs : Head(s) # "out.start"
        BY DEF OutJobs, OpenOutJobs, ShutOutJobs, Steps, OpenOutSteps, ShutOutSteps, Switching
      <4>2. \A s \in InJobs : Head(s) # "out.start"
        BY DEF InJobs, OpenInJobs, ShutInJobs, Steps, OpenInSteps, ShutInSteps, RestSteps, SetSteps, Switching
      <4> QED
        BY <1>0, <4>1, <4>2 DEF VoipTypes
    <3>4. t = Player
      BY <3>1, <3>2, <3>3, Threads
    <3> QED
      BY <1>0, <1>3, <3>1, <3>4 DEF OutputAlone, WriteStart
  <2> QED
    BY <2>2, <2>3 DEF VoipInv, FdKept, OutputWill
<1>4. CASE WriteActive(t)
  <2>1. M(<<"out.device", "out.ready">>) /\ mVoipOutActive'
    BY <1>0, <1>4, StepsFit DEF WriteActive
  <2> QED
    BY <2>1, OutputStep DEF VoipInv, FdKept
<1>5. CASE WriteError(t)
  <2>1. M(<<>>)
    BY <1>0, <1>5, StepsFit DEF WriteError, Closed
  <2>2. VoipTypes' /\ OutputAlone' /\ InputAlone' /\ (InputWill => InputWill')
    BY <2>1, OutputStep
  <2>3. CASE outFd # NoFd
    BY <1>5, <2>2, <2>3 DEF WriteError, VoipInv, FdKept
  <2>4. CASE outFd = NoFd
    <3>1. OutputWill => OutputWill'
      <4>1. \A u \in VoipThreads : u # t => todo'[u] = todo[u]
        BY <1>0, <2>1, Moved DEF Moves
      <4> QED
        BY <1>5, <2>4, <4>1 DEF OutputWill, WriteError
    <3> QED
      BY <1>0, <1>5, <2>2, <2>4, <3>1 DEF WriteError, VoipInv, FdKept
  <2> QED
    BY <2>3, <2>4
<1>6. CASE StandbyOut(t)
  <2>1. CASE OutKeepsDriver
    <3>0. /\ Goto(t, <<"out.inStandby">>) /\ At(t, "out.standby")
          /\ UNCHANGED <<inFd, mVoipInActive, inOpen, mState, mDirectOutrefCnt, mvs>>
      BY <1>6, <2>1 DEF StandbyOut
    <3>2. Keeps(t, "out.standby", <<"out.inStandby">>)
      BY StepsFit
    <3>1. M(<<"out.inStandby">>)
      BY <1>0, <3>0, <3>2
    <3> QED
      BY <1>6, <2>1, <3>1, OutputStep DEF StandbyOut, OutKeepsDriver, VoipInv, FdKept
  <2>2. CASE ~OutKeepsDriver
    <3>1. M(<<"out.close", "restore", "out.inStandby">>)
      BY <1>0, <1>6, <2>2, StepsFit DEF StandbyOut
    <3>2. At(t, "out.close")' /\ VoipTypes' /\ OutputAlone' /\ InputAlone'
      BY <3>1, OutputStep
    <3> QED
      BY <3>2 DEF VoipInv, FdKept, OutputWill
  <2> QED
    BY <2>1, <2>2
<1>7. CASE StandbyOutClose(t)
  <2>1. M(<<>>) /\ mVoipFd' = NoFd
    BY <1>0, <1>7, StepsFit DEF StandbyOutClose, Closed
  <2> QED
    BY <2>1, OutputStep DEF VoipInv, FdKept
<1> QED
  BY <1>1, <1>2, <1>3, <1>4, <1>5, <1>6, <1>7

(* Whoever is at a step of the input's own is alone with the input.        *)
InOwn == InWill \cup {"in.set", "in.open", "in.closed", "closeIn", "in.delete", "deletedIn"}
OnInput(t) == t = Recorder \/ (t = Binder /\ todo[t] \in InJobs)
InMove(t, p) ==
    /\ todo[t] # <<>> /\ Keeps(t, Head(todo[t]), p) /\ Goto(t, p)
    /\ Head(todo[t]) \in InOwn
    /\ p # <<>> => Head(p) \notin {"out.start", "closeIn", "in.delete"}
    /\ UNCHANGED <<mDirectOutrefCnt, outFd, mVoipOutActive>> /\ mvs' \subseteq Fds
    /\ p # <<>> /\ Head(p) = "in.start" => inFd' # NoFd
    /\ t # Binder => inOpen' = inOpen
    /\ Head(todo[t]) \in {"in.standby", "closeIn", "in.delete"} => ~mVoipInActive'
    /\ mVoipInActive' => mState' # "CLOSED" /\ (mVoipInActive \/ Head(todo[t]) = "in.active")
(* Nobody else is then on the input.                                       *)
LEMMA InputExclusive ==
    ASSUME VoipTypes, InputAlone, NEW t \in VoipThreads, todo[t] # <<>>,
           Head(todo[t]) \in InOwn
    PROVE  /\ OnInput(t)
           /\ t = Recorder => todo[Binder] \notin InJobs
           /\ t = Binder => todo[Recorder] = <<>>
           /\ \A u \in VoipThreads : u # t => todo[u] = <<>> \/ Head(todo[u]) \notin InWill
<1>1. todo[Player] = <<>> \/ Head(todo[Player]) \notin InOwn
  BY DEF VoipTypes, PlayJobs, Steps, PlaySteps, Switching, InWill, InOwn
<1>2. todo[Binder] \in InJobs \/ todo[Binder] = <<>>
        \/ Head(todo[Binder]) \notin InOwn
  BY DEF VoipTypes, OutJobs, OpenOutJobs, ShutOutJobs, Steps, OpenOutSteps, ShutOutSteps, Switching, InWill, InOwn
<1> QED
  BY <1>1, <1>2, Threads, JobsDiffer DEF InputAlone, OnInput, InWill, InOwn

(* A step on the input keeps all but the claim about the shared            *)
(* descriptor.                                                             *)
LEMMA InputStep ==
    ASSUME VoipInv, NEW t \in VoipThreads, NEW p, InMove(t, p)
    PROVE  /\ VoipTypes' /\ OutputAlone' /\ InputAlone' /\ (OutputWill => OutputWill')
           /\ p # <<>> => todo'[t] # <<>> /\ Head(todo'[t]) = Head(p)
           /\ \A u \in VoipThreads : u # t => todo'[u] = todo[u]
<1>0. Moves(t, p) /\ VoipTypes /\ InputAlone
  BY DEF Moves, InMove, VoipInv
<1>1. OutputAlone' /\ (OutputWill => OutputWill')
  BY <1>0, OutputKept DEF InMove, InWill, InOwn, OutWill
<1>2. VoipTypes'
  BY <1>0, Moved DEF VoipTypes, InMove
<1>3. /\ \A u \in VoipThreads : u # t => todo'[u] = todo[u]
      /\ p # <<>> => todo'[t] # <<>> /\ Head(todo'[t]) = Head(p)
      /\ todo'[t] # <<>> => Head(todo'[t]) \notin {"closeIn", "in.delete"}
      /\ p = <<>> /\ todo'[t] # <<>> => Head(todo'[t]) # "in.start"
      /\ t = Recorder /\ todo'[t] \in RestJobs => todo[t] \in RestJobs
      /\ t = Binder /\ todo'[t] \in OpenInJobs => todo[t] \in OpenInJobs
      /\ t = Binder /\ todo'[t] \in ShutInJobs => todo[t] \in ShutInJobs
  BY <1>0, Moved DEF PlayRest, ReadRest, OpenInRest, ShutInRest, RestRest, InMove
<1>4. /\ OnInput(t) /\ todo[t] # <<>>
      /\ t = Recorder => todo[Binder] \notin InJobs
      /\ t = Binder => todo[Recorder] = <<>>
      /\ \A u \in VoipThreads : u # t => todo[u] = <<>> \/ Head(todo[u]) \notin InWill
  BY <1>0, InputExclusive DEF InMove
<1>5. InputAlone'
  <2>1. (todo[Recorder] # <<>> => inOpen /\ todo[Binder] \notin InJobs)'
    BY <1>0, <1>3, <1>4, Threads DEF InputAlone, InMove, OnInput
  <2>2. (\A u \in VoipThreads : At(u, "in.start") => inFd # NoFd)'
    BY <1>3, <1>4 DEF InMove, At, InWill, InOwn
  <2>3. (todo[Recorder] \in RestJobs => Head(todo[Recorder]) = "in.standby" \/ ~mVoipInActive)'
    <3>1. CASE t = Recorder
      <4>1. todo[t] \in RestJobs => Head(todo[t]) # "in.active"
        BY DEF RestJobs, RestSteps, Steps
      <4> QED
        BY <1>0, <1>3, <3>1, <4>1 DEF InputAlone, InMove
    <3>2. CASE t = Binder
      BY <1>3, <1>4, <3>2, Threads, JobsDiffer
    <3> QED
      BY <1>4, <3>1, <3>2 DEF OnInput
  <2>4. (todo[Binder] \in ShutInJobs =>
           \/ Head(todo[Binder]) \in {"closeIn", "in.delete", "in.standby"}
           \/ ~mVoipInActive)'
    <3>1. CASE t = Recorder
      BY <1>3, <1>4, <3>1, Threads DEF InJobs
    <3>2. CASE t = Binder
      <4>1. todo[t] \in ShutInJobs => Head(todo[t]) # "in.active"
        BY DEF ShutInJobs, ShutInSteps, RestSteps, Steps
      <4> QED
        BY <1>0, <1>3, <3>2, <4>1 DEF InputAlone, InMove
    <3> QED
      BY <1>4, <3>1, <3>2 DEF OnInput
  <2>5. (At(Binder, "closeIn") \/ At(Binder, "in.delete") =>
           Tail(todo[Binder]) = <<"in.standby", "deletedIn">>)'
    BY <1>0, <1>3, Threads DEF InputAlone, At
  <2>6. (mVoipInActive => mState # "CLOSED")'
    BY DEF InMove
  <2> QED
    BY <2>1, <2>2, <2>3, <2>4, <2>5, <2>6 DEF InputAlone
<1> QED
  BY <1>1, <1>2, <1>3, <1>5

(* set(), standby and close of the input.                                  *)
LEMMA InputSteps ==
    ASSUME VoipInv, NEW t \in VoipThreads,
           \/ SetFd(t) \/ SetOpen(t) \/ SetStart(t) \/ SetActive(t)
           \/ StandbyIn(t) \/ StandbyInClose(t)
           \/ StandbyInEnd(t) /\ At(t, "in.closed")
           \/ t = Binder /\ (CloseIn \/ DeletedIn)
    PROVE  VoipInv'
<1> DEFINE M(p) == InMove(t, p)
<1> USE DEF At, flags, outVars, inVars, driver, InWill, InOwn, OutWill, InMove
<1>0. VoipTypes /\ InputAlone /\ FdKept /\ mvs \subseteq Fds
  BY DEF VoipInv, VoipTypes
<1>1. CASE SetFd(t)
  <2>1. CASE mVoipFd # NoFd
    <3>1. M(<<"in.active">>)
      BY <1>0, <1>1, <2>1, StepsFit DEF SetFd, InputAlone
    <3>2. At(t, "in.active")' /\ VoipTypes' /\ OutputAlone' /\ InputAlone'
      BY <3>1, InputStep
    <3> QED
      BY <3>2 DEF VoipInv, FdKept, InputWill
  <2>2. CASE mVoipFd = NoFd
    <3>2. Keeps(t, "in.set", <<"in.open">>)
      BY StepsFit
    <3>1. QuietMove(t, <<"in.open">>)
      BY <1>1, <2>2, <3>2 DEF SetFd, QuietMove
    <3> QED
      BY <3>1, QuietStep
  <2> QED
    BY <2>1, <2>2
<1>2. CASE SetOpen(t)
  <2>1. CASE mvs # Fds /\ mvs' = mvs \cup {NextFd} /\ inFd' = NextFd /\ Goto(t, <<"in.start">>)
    <3>1. NextFd \in Fds /\ NextFd # NoFd
      BY <1>0, <2>1, NextFdOpens DEF NoFd, Fds
    <3>2. M(<<"in.start">>)
      BY <1>0, <1>2, <2>1, <3>1, StepsFit DEF SetOpen, InputAlone
    <3>3. At(t, "in.start")' /\ VoipTypes' /\ OutputAlone' /\ InputAlone'
      BY <3>2, InputStep
    <3> QED
      BY <3>3 DEF VoipInv, FdKept, InputWill
  <2>2. CASE Goto(t, <<"in.error">>) /\ UNCHANGED <<mvs, inFd, mVoipFd>>
    <3>2. Keeps(t, "in.open", <<"in.error">>)
      BY StepsFit
    <3>3. At(t, "in.open") /\ UNCHANGED <<flags, outVars, inOpen, mState>>
      BY <1>2 DEF SetOpen
    <3>1. QuietMove(t, <<"in.error">>)
      BY <2>2, <3>2, <3>3 DEF QuietMove
    <3> QED
      BY <3>1, QuietStep
  <2> QED
    BY <1>2, <2>1, <2>2 DEF SetOpen
<1>3. CASE SetStart(t)
  <2>1. M(<<"in.active">>) \/ M(<<"in.error">>)
    BY <1>0, <1>3, StepsFit DEF SetStart, InputAlone
  <2>2. /\ VoipTypes' /\ OutputAlone' /\ InputAlone'
        /\ At(t, "in.active")' \/ At(t, "in.error")'
    BY <2>1, InputStep
  <2>3. inFd' # NoFd
    BY <1>0, <1>3 DEF SetStart, InputAlone
  <2> QED
    BY <2>2, <2>3 DEF VoipInv, FdKept, InputWill
<1>4. CASE SetActive(t)
  <2>1. M(<<>>) /\ mVoipInActive'
    BY <1>0, <1>4, StepsFit DEF SetActive
  <2> QED
    BY <2>1, InputStep DEF VoipInv, FdKept
<1>5. CASE StandbyIn(t)
  <2>0. ~mVoipInActive' /\ At(t, "in.standby")
    BY <1>5 DEF StandbyIn
  <2>1. CASE mState = "CLOSED" \/ mVoipOutActive
    <3>0. /\ Goto(t, <<"in.leave">>)
          /\ UNCHANGED <<mVoipFd, mVoipOutActive, outVars, inVars, driver>>
      BY <1>5, <2>1 DEF StandbyIn
    <3>1. M(<<"in.leave">>)
      BY <1>0, <2>0, <3>0, StepsFit
    <3>2. /\ VoipTypes' /\ OutputAlone' /\ InputAlone' /\ (OutputWill => OutputWill')
          /\ \A u \in VoipThreads : u # t => todo'[u] = todo[u]
      BY <3>1, InputStep
    <3>3. mState = "CLOSED" => (InputWill => InputWill') /\ ~mVoipInActive
      BY <1>0, <2>0, <3>0, <3>2 DEF InputWill, InputAlone
    <3> QED
      BY <1>0, <2>1, <3>0, <3>2, <3>3 DEF VoipInv, FdKept
  <2>2. CASE mState # "CLOSED" /\ ~mVoipOutActive /\ mVoipFd = NoFd
    <3>0. /\ Goto(t, <<"in.closed", "in.leave">>)
          /\ UNCHANGED <<mVoipFd, mVoipOutActive, outVars, inVars, driver>>
      BY <1>5, <2>2 DEF StandbyIn
    <3>1. M(<<"in.closed", "in.leave">>)
      BY <1>0, <2>0, <3>0, StepsFit
    <3> QED
      BY <2>2, <3>0, <3>1, InputStep DEF VoipInv, FdKept
  <2>3. CASE mState # "CLOSED" /\ ~mVoipOutActive /\ mVoipFd # NoFd
    <3>0. /\ Goto(t, <<"in.close", "restore", "in.closed", "in.leave">>)
          /\ UNCHANGED <<mVoipFd, mVoipOutActive, outVars, inVars, driver>>
      BY <1>5, <2>3 DEF StandbyIn
    <3>1. M(<<"in.close", "restore", "in.closed", "in.leave">>)
      BY <1>0, <2>0, <3>0, StepsFit
    <3>2. At(t, "in.close")' /\ VoipTypes' /\ OutputAlone' /\ InputAlone'
      BY <3>1, InputStep
    <3> QED
      BY <3>2 DEF VoipInv, FdKept, InputWill
  <2> QED
    BY <2>1, <2>2, <2>3
<1>6. CASE StandbyInClose(t)
  <2>1. M(<<>>) /\ mVoipFd' = NoFd
    BY <1>0, <1>6, StepsFit DEF StandbyInClose, Closed, InputAlone
  <2> QED
    BY <2>1, InputStep DEF VoipInv, FdKept
<1>7. CASE StandbyInEnd(t) /\ At(t, "in.closed")
  <2>1. /\ At(t, "in.closed") /\ Goto(t, <<>>)
        /\ UNCHANGED <<mVoipFd, flags, outVars, inOpen, inFd, driver>>
    BY <1>7 DEF StandbyInEnd
  <2>2. OnInput(t) /\ ~InputWill
    BY <1>0, <2>1, InputExclusive DEF InputWill
  <2>3. ~mVoipInActive
    <3>1. t = Recorder => todo[t] \in RestJobs
      BY <1>0, <2>1 DEF VoipTypes, ReadJobs, ReadSteps, SetSteps, Switching, Steps
    <3>2. t = Binder => todo[t] \in ShutInJobs
      BY <1>0, <2>1, <2>2, Threads DEF OnInput, InJobs, OpenInJobs, OpenInSteps, SetSteps, Switching, Steps
    <3> QED
      BY <1>0, <2>1, <2>2, <3>1, <3>2 DEF InputAlone, OnInput
  <2>4. M(<<>>)
    BY <1>0, <2>1, <2>3, StepsFit
  <2> QED
    BY <1>0, <2>1, <2>2, <2>3, <2>4, InputStep DEF VoipInv, FdKept
<1>8. CASE t = Binder /\ CloseIn
  <2>1. /\ At(t, "closeIn") \/ At(t, "in.delete")
        /\ Goto(t, <<>>) /\ ~mVoipInActive'
        /\ UNCHANGED <<mVoipFd, mVoipOutActive, outVars, inVars, driver>>
    BY <1>8 DEF CloseIn
  <2>2. M(<<>>)
    BY <1>0, <2>1, StepsFit
  <2>3. VoipTypes' /\ OutputAlone' /\ InputAlone' /\ (OutputWill => OutputWill')
    BY <2>2, InputStep
  <2>4. ~InputWill
    BY <1>0, <2>1, InputExclusive DEF InputWill
  <2>5. mVoipInActive => InputWill'
    <3>1. Tail(todo[t]) = <<"in.standby", "deletedIn">>
      BY <1>0, <1>8, <2>1 DEF InputAlone
    <3>2. todo'[t] = <<>> \o Tail(todo[t])
      BY <1>0, <2>1 DEF Goto, VoipTypes
    <3>3. todo'[t] = <<"in.standby", "deletedIn">>
      BY <3>1, <3>2
    <3>4. At(t, "in.standby")'
      BY <3>3
    <3> QED
      BY <1>0, <2>1, <3>4 DEF InputAlone, InputWill
  <2> QED
    BY <1>0, <2>1, <2>3, <2>4, <2>5 DEF VoipInv, FdKept
<1>9. CASE t = Binder /\ DeletedIn
  <2>1. /\ At(t, "deletedIn") /\ Goto(t, <<>>)
        /\ UNCHANGED <<mVoipFd, flags, outVars, driver>>
    BY <1>9 DEF DeletedIn
  <2>2. OnInput(t) /\ ~InputWill
    BY <1>0, <2>1, InputExclusive DEF InputWill
  <2>3. ~mVoipInActive
    <3>1. todo[t] \in ShutInJobs
      BY <1>0, <1>9, <2>1, <2>2, Threads DEF OnInput, InJobs, OpenInJobs, OpenInSteps, SetSteps, Switching, Steps
    <3> QED
      BY <1>0, <1>9, <2>1, <3>1 DEF InputAlone
  <2>4. M(<<>>)
    BY <1>0, <1>9, <2>1, <2>3, StepsFit
  <2> QED
    BY <1>0, <2>1, <2>2, <2>3, <2>4, InputStep DEF VoipInv, FdKept
<1> QED
  BY <1>1, <1>2, <1>3, <1>4, <1>5, <1>6, <1>7, <1>8, <1>9

(* A set() that fails gives up what it opened, and an open then deletes    *)
(* the stream.                                                             *)
LEMMA SetErrorStep ==
    ASSUME VoipInv, NEW t \in VoipThreads, SetError(t)
    PROVE  VoipInv'
<1> DEFINE j == IF t = Binder THEN <<"in.delete", "in.standby", "deletedIn">> ELSE <<>>
<1> USE DEF At, flags, outVars, inVars, driver, InWill, InOwn
<1>0. VoipTypes /\ InputAlone /\ OutputAlone /\ FdKept
  BY DEF VoipInv
<1>1. /\ todo'[t] = j /\ (\A u \in VoipThreads : u # t => todo'[u] = todo[u]) /\ DOMAIN todo' = VoipThreads
      /\ At(t, "in.error")
      /\ UNCHANGED <<flags, outVars, inOpen, mState>>
  BY <1>0 DEF SetError, VoipTypes
<1>2. /\ t = Recorder => todo[Binder] \notin InJobs
      /\ t = Binder => todo[Recorder] = <<>>
      /\ OnInput(t)
      /\ \A u \in VoipThreads : u # t => todo[u] = <<>> \/ Head(todo[u]) \notin InWill
  BY <1>0, <1>1, InputExclusive
<1>3. <<"in.delete", "in.standby", "deletedIn">> \in ShutInJobs
  BY JobsBegin
<1>4. /\ t = Binder =>
           /\ todo'[Binder] \in ShutInJobs
           /\ todo'[Binder] \notin ShutOutJobs \cup OpenInJobs \cup {<<"closeOut">>}
      /\ t = Recorder => todo'[Recorder] = <<>>
  BY <1>1, <1>3, Threads, JobsDiffer DEF InJobs
<1>5. VoipTypes'
  BY <1>0, <1>1, <1>2, <1>4, Threads DEF VoipTypes, InJobs, OnInput, SetError, Closed
<1>6. OutputAlone'
  BY <1>0, <1>1, <1>2, <1>4, Threads DEF OutputAlone, OnInput
<1>7. InputAlone'
  <2>1. todo'[t] # <<>> =>
          /\ t = Binder /\ Head(todo'[t]) = "in.delete"
          /\ Tail(todo'[t]) = <<"in.standby", "deletedIn">>
    BY <1>1
  <2>2. todo'[Recorder] # <<>> => t # Recorder /\ t # Binder
    BY <1>1, <1>2, <1>4, Threads
  <2>3. todo'[Recorder] = <<>>
    BY <1>2, <2>2 DEF OnInput
  <2>4. <<>> \notin RestJobs
    BY DEF RestJobs, Steps
  <2>5. CASE t = Binder
    <3>1. /\ todo'[Binder] # <<>> /\ Head(todo'[Binder]) = "in.delete"
          /\ Tail(todo'[Binder]) = <<"in.standby", "deletedIn">>
      <4>1. todo'[Binder] = <<"in.delete", "in.standby", "deletedIn">>
        BY <1>1, <2>5
      <4>2. Tail(<<"in.delete", "in.standby", "deletedIn">>) = <<"in.standby", "deletedIn">>
        OBVIOUS
      <4> QED
        BY <4>1, <4>2
    <3>2. \A u \in VoipThreads : ~At(u, "in.start")'
      BY <1>1, <1>2, <2>5, <3>1
    <3>3. (mVoipInActive => mState # "CLOSED")'
      BY <1>0, <1>1 DEF InputAlone
    <3> QED
      BY <2>3, <2>4, <3>1, <3>2, <3>3 DEF InputAlone
  <2>6. CASE t = Recorder
    BY <1>0, <1>1, <1>2, <2>1, <2>3, <2>4, <2>6, Threads DEF InputAlone
  <2> QED
    BY <1>2, <2>5, <2>6 DEF OnInput
<1>8. FdKept'
  <2>1. OutputWill => OutputWill'
    BY <1>1 DEF OutputWill
  <2>2. CASE inFd # NoFd
    BY <2>2 DEF SetError, FdKept
  <2>3. CASE inFd = NoFd
    <3>1. ~InputWill
      BY <1>1, <1>2, <2>3 DEF InputWill
    <3>2. UNCHANGED mVoipFd
      BY <2>3 DEF SetError
    <3> QED
      BY <1>0, <1>1, <2>1, <3>1, <3>2 DEF FdKept
  <2> QED
    BY <2>2, <2>3
<1> QED
  BY <1>5, <1>6, <1>7, <1>8 DEF VoipInv

(* The first open and the last close of the output.                        *)
LEMMA OpenOutStep ==
    ASSUME VoipInv, OpenOut
    PROVE  VoipInv'
<1> USE DEF At, flags, outVars, inVars, driver, InWill, OutWill
<1>0. VoipTypes /\ OutputAlone /\ FdKept /\ Binder \in VoipThreads
  BY Threads DEF VoipInv
<1>1. /\ At(Binder, "openOut") /\ (Goto(Binder, <<"openedOut">>) \/ Goto(Binder, <<>>))
      /\ UNCHANGED <<mVoipInActive, inVars, mVoipFd, mvs>> /\ (mVoipOutActive => mVoipOutActive')
  BY DEF OpenOut
<1>2. PICK p \in {<<"openedOut">>, <<>>} : Moves(Binder, p)
  BY <1>0, <1>1, StepsFit DEF Moves
<1>3. InputAlone' /\ (InputWill => InputWill')
  BY <1>1, <1>2, InputKept
<1>4. /\ \A u \in VoipThreads : u # Binder => todo'[u] = todo[u]
      /\ todo'[Binder] \in ShutOutJobs => todo[Binder] \in ShutOutJobs
      /\ todo'[Binder] # <<"closeOut">>
  BY <1>0, <1>2, Moved
<1>5. todo[Binder] \notin ShutOutJobs
  BY <1>1 DEF ShutOutJobs, ShutOutSteps, Steps
<1>6. /\ mDirectOutrefCnt' = mDirectOutrefCnt + 1 /\ mDirectOutrefCnt \in Nat
      /\ mDirectOutrefCnt # 0 => UNCHANGED outFd
  BY <1>0 DEF OpenOut, VoipTypes
<1>7. OutputAlone'
  BY <1>0, <1>4, <1>5, <1>6, Threads DEF OutputAlone
<1>8. VoipTypes'
  BY <1>0, <1>1, <1>2, <1>6, Moved DEF VoipTypes
<1>9. OutputWill => OutputWill' \/ mVoipOutActive'
  BY <1>0, <1>1, <1>4, <1>6 DEF OutputWill, OpenOut
<1> QED
  BY <1>0, <1>1, <1>3, <1>7, <1>8, <1>9 DEF VoipInv, FdKept

(* The last close announces standby, which will give up the descriptor.    *)
LEMMA CloseOutStep ==
    ASSUME VoipInv, CloseOut
    PROVE  VoipInv'
<1> USE DEF At, flags, outVars, inVars, driver, InWill, OutWill
<1>0. VoipTypes /\ OutputAlone /\ InputAlone /\ FdKept /\ Binder \in VoipThreads
  BY Threads DEF VoipInv
<1>1. todo[Binder] = <<"closeOut">>
  BY <1>0 DEF CloseOut, VoipTypes, OutJobs, InJobs, OpenOutJobs, ShutOutJobs, OpenInJobs, ShutInJobs, Steps,
              OpenOutSteps, ShutOutSteps, OpenInSteps, ShutInSteps, RestSteps, SetSteps, Switching
<1>2. /\ todo[Player] = <<>> /\ mDirectOutrefCnt > 0 /\ mDirectOutrefCnt \in Nat
      /\ mDirectOutrefCnt' = mDirectOutrefCnt - 1
  BY <1>0, <1>1 DEF OutputAlone, CloseOut, VoipTypes
<1>3. UNCHANGED <<mVoipFd, mVoipInActive, outFd, inVars, mvs>>
  BY DEF CloseOut
<1>4. Tail(todo[Binder]) = <<>>
  BY <1>1
<1>5. /\ \A u \in VoipThreads : u # Binder => todo'[u] = todo[u]
      /\ DOMAIN todo' = VoipThreads
      /\ \/ mDirectOutrefCnt = 1 /\ todo'[Binder] = <<"out.standby", "deletedOut">>
         \/ mDirectOutrefCnt # 1 /\ todo'[Binder] = <<>> /\ UNCHANGED mVoipOutActive
  BY <1>0, <1>4 DEF CloseOut, Goto, VoipTypes
<1>6. /\ <<"out.standby", "deletedOut">> \in ShutOutJobs /\ <<>> \notin ShutOutJobs \cup InJobs
      /\ <<"out.standby", "deletedOut">> \notin InJobs
  <2>1. <<"out.standby", "deletedOut">> \in ShutOutJobs
    BY JobsBegin
  <2> QED
    BY <2>1, JobsDiffer DEF OutJobs
<1>7. VoipTypes'
  BY <1>0, <1>2, <1>3, <1>5, <1>6, Threads DEF VoipTypes, OutJobs
<1>8. OutputAlone'
  BY <1>2, <1>5, <1>6, Threads DEF OutputAlone
<1>9. InputAlone'
  BY <1>0, <1>3, <1>5, <1>6, Threads DEF InputAlone, InJobs
<1>10. FdKept'
  <2>1. InputWill => InputWill'
    BY <1>1, <1>3, <1>5 DEF InputWill
  <2>2. OutputWill => OutputWill'
    BY <1>1, <1>3, <1>5 DEF OutputWill
  <2>3. mDirectOutrefCnt = 1 => OutputWill'
    BY <1>0, <1>5 DEF OutputWill
  <2> QED
    BY <1>0, <1>3, <1>5, <2>1, <2>2, <2>3 DEF FdKept
<1> QED
  BY <1>7, <1>8, <1>9, <1>10 DEF VoipInv

(* An operation begins when its thread is idle and its stream exists.      *)
Begins(t, j) ==
    /\ Idle(t) /\ todo' = [todo EXCEPT ![t] = j]
    /\ UNCHANGED <<mVoipFd, flags, mDirectOutrefCnt, outFd, inOpen, inFd, mState, mvs>>
    /\ j # <<>> => Head(j) \notin {"out.start", "in.start", "in.delete"}
    /\ t = Player => j \in PlayJobs /\ mDirectOutrefCnt > 0 /\ todo[Binder] # <<"closeOut">>
    /\ t = Recorder =>
         /\ j \in ReadJobs \cup RestJobs /\ inOpen /\ todo[Binder] \notin InJobs
         /\ j \in RestJobs => Head(j) = "in.standby"
    /\ t = Binder =>
         \/ j \in {<<>>} \cup OpenOutJobs /\ (j # <<>> => Head(j) # "closeIn")
         \/ j = <<"closeOut">> /\ mDirectOutrefCnt > 0 /\ Idle(Player)
         \/ j \in OpenInJobs /\ Idle(Recorder) /\ Head(j) # "closeIn"
         \/ j = <<"closeIn", "in.standby", "deletedIn">> /\ Idle(Recorder)
(* An operation that begins keeps the invariant.                           *)
LEMMA BeginStep ==
    ASSUME VoipInv, NEW t \in VoipThreads, NEW j, Begins(t, j)
    PROVE  VoipInv'
<1> USE DEF At, Idle, flags
<1>0. VoipTypes /\ OutputAlone /\ InputAlone /\ FdKept
  BY DEF VoipInv
<1>1. /\ todo[t] = <<>> /\ todo'[t] = j /\ \A u \in VoipThreads : u # t => todo'[u] = todo[u]
      /\ DOMAIN todo' = VoipThreads
      /\ UNCHANGED <<mVoipFd, mVoipInActive, mVoipOutActive, mDirectOutrefCnt, outFd, inOpen, inFd, mState, mvs>>
  BY <1>0 DEF Begins, VoipTypes
<1>2. <<"closeIn", "in.standby", "deletedIn">> \in ShutInJobs
  BY JobsBegin
<1>3. VoipTypes'
  BY <1>0, <1>1, <1>2, Threads DEF VoipTypes, Begins, OutJobs, InJobs
<1>4. OutputAlone'
  <2>1. CASE t = Player
    BY <1>0, <1>1, <2>1, Threads DEF OutputAlone, Begins
  <2>2. CASE t = Recorder
    BY <1>0, <1>1, <2>2, Threads DEF OutputAlone
  <2>3. CASE t = Binder
    <3>1. j \notin ShutOutJobs
      BY <1>2, <2>3, JobsDiffer DEF Begins, InJobs, OutJobs
    <3>2. j = <<"closeOut">> => mDirectOutrefCnt > 0 /\ todo[Player] = <<>>
      BY <2>3, <1>2, JobsDiffer DEF Begins, OutJobs
    <3> QED
      BY <1>0, <1>1, <2>3, <3>1, <3>2, Threads DEF OutputAlone
  <2> QED
    BY <2>1, <2>2, <2>3, Threads
<1>5. InputAlone'
  <2>1. CASE t = Player
    BY <1>0, <1>1, <2>1, Threads DEF InputAlone, Begins
  <2>2. CASE t = Recorder
    <3>1. j \in ReadJobs \cup RestJobs /\ inOpen /\ todo[Binder] \notin InJobs /\ j # <<>> /\ Head(j) # "in.start"
      BY <2>2, JobsDiffer DEF Begins
    <3>2. j \in RestJobs => Head(j) = "in.standby"
      BY <2>2 DEF Begins
    <3> QED
      BY <1>0, <1>1, <2>2, <3>1, <3>2, Threads DEF InputAlone
  <2>3. CASE t = Binder
    <3>1. j # <<>> => Head(j) \notin {"in.start", "in.delete"}
      BY DEF Begins
    <3>2. j \in InJobs => todo[Recorder] = <<>>
      BY <1>2, <2>3, JobsDiffer DEF Begins, OutJobs, InJobs
    <3>3. j \in ShutInJobs => Head(j) = "closeIn"
      BY <1>2, <2>3, JobsDiffer DEF Begins, OutJobs, InJobs
    <3>4. j # <<>> /\ Head(j) = "closeIn" => Tail(j) = <<"in.standby", "deletedIn">>
      <4>1. j # <<>> /\ Head(j) = "closeIn" => j = <<"closeIn", "in.standby", "deletedIn">>
        BY <2>3 DEF Begins
      <4>2. Tail(<<"closeIn", "in.standby", "deletedIn">>) = <<"in.standby", "deletedIn">>
        OBVIOUS
      <4> QED
        BY <4>1, <4>2
    <3> QED
      BY <1>0, <1>1, <2>3, <3>1, <3>2, <3>3, <3>4, Threads DEF InputAlone
  <2> QED
    BY <2>1, <2>2, <2>3, Threads
<1>6. FdKept'
  <2>1. OutputWill => OutputWill'
    BY <1>1 DEF OutputWill
  <2>2. InputWill => InputWill'
    BY <1>1 DEF InputWill
  <2> QED
    BY <1>0, <1>1, <2>1, <2>2 DEF FdKept
<1> QED
  BY <1>3, <1>4, <1>5, <1>6 DEF VoipInv

(* So do the calls from outside.                                           *)
LEMMA CallSteps ==
    ASSUME VoipInv, VoipCall
    PROVE  VoipInv'
<1> DEFINE B(t, j) == Begins(t, j)
<1> USE DEF Call, outVars, inVars, driver
<1>0. VoipTypes /\ OutputAlone /\ InputAlone
  BY DEF VoipInv
<1>1. UNCHANGED <<mVoipFd, flags, mDirectOutrefCnt, outFd, inOpen, inFd, mState, mvs>>
  BY DEF VoipCall, setVoipMode
<1>2. OutThread => mDirectOutrefCnt > 0 /\ todo[Binder] # <<"closeOut">>
  <2>1. todo[Binder] = <<"closeOut">> => todo[Binder][1] = "closeOut" /\ 1 \in DOMAIN todo[Binder]
    OBVIOUS
  <2> QED
    BY <2>1 DEF OutThread, Busy
<1>3. InThread => inOpen /\ todo[Binder] \notin InJobs
  <2>1. \A s \in OpenInJobs : s[Len(s)] = "createdIn" /\ Len(s) \in DOMAIN s
    BY DEF OpenInJobs, Steps
  <2>2. \A s \in ShutInJobs : s[Len(s)] = "deletedIn" /\ Len(s) \in DOMAIN s
    BY DEF ShutInJobs, Steps
  <2> QED
    BY <2>1, <2>2 DEF InThread, Busy, InJobs
<1>4. CASE openOutputStream
  <2>1. B(Binder, <<"openOut", "createdOut">>)
    BY <1>1, <1>4, JobsBegin, Threads DEF openOutputStream, Begins
  <2> QED
    BY <2>1, BeginStep, Threads
<1>5. CASE closeOutputStream
  <2>1. B(Binder, <<"closeOut">>)
    BY <1>1, <1>5, Threads DEF closeOutputStream, Begins
  <2> QED
    BY <2>1, BeginStep, Threads
<1>6. CASE openVoipInput
  <2>1. todo[Recorder] = <<>>
    BY <1>0, <1>6 DEF InputAlone, openVoipInput
  <2>2. B(Binder, <<"lock", "in.set", "openIn", "createdIn">>)
    BY <1>1, <1>6, <2>1, JobsBegin, Threads DEF openVoipInput, Begins, Idle
  <2> QED
    BY <2>2, BeginStep, Threads
<1>7. CASE closeVoipInput
  <2>1. B(Binder, <<"closeIn", "in.standby", "deletedIn">>)
    BY <1>1, <1>7, Threads DEF closeVoipInput, Begins
  <2> QED
    BY <2>1, BeginStep, Threads
<1>8. CASE writeVoip \/ standbyOut
  <2>1. B(Player, <<"out.fd">>) \/ B(Player, <<"out.frame">>) \/ B(Player, <<"out.standby">>)
    BY <1>1, <1>2, <1>8, JobsBegin, Threads DEF writeVoip, standbyOut, Begins
  <2> QED
    BY <2>1, BeginStep, Threads
<1>9. CASE readVoip \/ standbyIn
  <2>1. {<<"lock", "in.set", "reopened", "in.frame">>, <<"in.frame">>} \subseteq ReadJobs /\ <<"in.standby">> \in RestJobs
    BY JobsBegin
  <2>2. {<<"lock", "in.set", "reopened", "in.frame">>, <<"in.frame">>} \cap RestJobs = {}
    BY <2>1, JobsDiffer
  <2>3. \/ B(Recorder, <<"lock", "in.set", "reopened", "in.frame">>) \/ B(Recorder, <<"in.frame">>)
        \/ B(Recorder, <<"in.standby">>)
    BY <1>1, <1>3, <1>9, <2>1, <2>2, Threads DEF readVoip, standbyIn, Begins
  <2> QED
    BY <2>3, BeginStep, Threads
<1>10. CASE setVoipMode
  <2>1. B(Binder, <<>>)
    BY <1>1, <1>10, Threads DEF setVoipMode, Begins
  <2> QED
    BY <2>1, BeginStep, Threads
<1> QED
  BY <1>4, <1>5, <1>6, <1>7, <1>8, <1>9, <1>10 DEF VoipCall

(* The shared descriptor of the MVS driver is given up: however write(),   *)
(* read(), standby, open and close interleave, once both in-use flags are  *)
(* down and no operation is under way, mVoipFd is free, so the next user   *)
(* opens and starts the driver (AudioStreamOutDirect, AudioStreamInVoip).  *)
THEOREM MvsGivenUp == VoipSpec => []MvsReleased
<1>1. VoipInit => VoipInv
  BY Threads DEF VoipInit, VoipInv, VoipTypes, OutputAlone, InputAlone, FdKept, At, ShutOutJobs, ShutInJobs, RestJobs, Steps
<1>2. VoipInv /\ [VoipNext]_voipVars => VoipInv'
  <2> SUFFICES ASSUME VoipInv, [VoipNext]_voipVars PROVE VoipInv'
    OBVIOUS
  <2>0. Binder \in VoipThreads
    BY Threads
  <2>1. CASE UNCHANGED voipVars
    BY <2>1 DEF voipVars, flags, outVars, inVars, driver, VoipInv, VoipTypes, OutputAlone, InputAlone, FdKept,
                OutputWill, InputWill, At
  <2>2. CASE VoipCall
    BY <2>2, CallSteps
  <2>3. ASSUME NEW t \in VoipThreads, SetupMode(t) \/ SetupMic(t) \/ Lock(t)
        PROVE  VoipInv'
    BY <2>3, QuietSteps
  <2>4. ASSUME NEW t \in VoipThreads, OutStep(t)
        PROVE  VoipInv'
    BY <2>4, QuietSteps, OutputSteps DEF OutStep
  <2>5. ASSUME NEW t \in VoipThreads, InStep(t)
        PROVE  VoipInv'
    <3>1. StandbyInEnd(t) => At(t, "in.closed") \/ At(t, "in.leave")
      BY DEF StandbyInEnd
    <3> QED
      BY <2>5, <3>1, QuietSteps, InputSteps, SetErrorStep DEF InStep
  <2>6. CASE Created \/ OpenedOut \/ DeletedOut \/ OpenIn \/ OpenedIn
    BY <2>0, <2>6, QuietSteps
  <2>7. CASE OpenOut \/ CloseOut
    BY <2>7, OpenOutStep, CloseOutStep
  <2>8. CASE CloseIn \/ DeletedIn
    BY <2>0, <2>8, InputSteps
  <2>9. CASE SetRefuses
    BY <2>9, Threads DEF SetRefuses, VoipInv, VoipTypes, OutputAlone, InputAlone, FdKept, At,
                         ShutOutJobs, ShutInJobs, RestJobs, Steps
  <2> QED
    BY <2>1, <2>2, <2>3, <2>4, <2>5, <2>6, <2>7, <2>8, <2>9 DEF VoipNext
<1>3. VoipInv => MvsReleased
  BY DEF VoipInv, FdKept, OutputWill, InputWill, MvsReleased, Quiet, Idle, At
<1> QED
  BY <1>1, <1>2, <1>3, PTL DEF VoipSpec

-----------------------------------------------------------------------------
(* AudioPolicy.  The state record, in which the speaker and the earpiece   *)
(* stay connected.                                                         *)
PolicyState ==
    [phone : {"NORMAL", "RINGTONE", "IN_CALL", "IN_COMMUNICATION"},
     comm : {"NONE", "SPEAKER", "BT_SCO"}, media : {"NONE", "SPEAKER"},
     record : {"NONE", "BT_SCO"}, out : SUBSET Supported,
     in : SUBSET {"WIRED_HEADSET", "SCO"}, refs : [Strategies -> Nat],
     recentMusic : BOOLEAN, canBeMuted : BOOLEAN,
     cache : [Strategies -> SUBSET Supported], mDevice : SUBSET Supported,
     mutedByDevice : SUBSET Strategies, mMuteCount : [Strategies -> Nat],
     source : Sources, recording : BOOLEAN,
     inputDevice : {"COMMUNICATION", "VOICE_CALL", "BUILTIN_MIC", "SCO",
                    "WIRED_HEADSET"}]

(* The phone's cached device is what its strategy selects: whatever        *)
(* changes the one refreshes the other.                                    *)
CacheFresh(p) == p.cache["PHONE"] = PhoneDevice(p, "PHONE")

Playing(p) == [p EXCEPT !.recentMusic = TRUE]
OutputFollows(p) ==
    getNewDevice(p, FALSE) # None =>
      p.mDevice \in {getNewDevice(p, FALSE), getNewDevice(Playing(p), FALSE)}
InputFollows(p) ==
    p.recording => p.inputDevice = getDeviceForInputSource(p, p.source)
Plain(p) == p \in PolicyState /\ "SPEAKER" \in p.out
Sound(p) == Plain(p) /\ CacheFresh(p) /\ OutputFollows(p) /\ InputFollows(p)

PolicyInv == Sound(pol)

(* All that the selection of a device depends on.                          *)
SameChoice(p, q) ==
    /\ p.phone = q.phone /\ p.comm = q.comm /\ p.media = q.media
    /\ p.out = q.out /\ p.canBeMuted = q.canBeMuted
    /\ \A s \in Strategies : (p.refs[s] > 0) = (q.refs[s] > 0)
    /\ p.recentMusic = q.recentMusic /\ p.cache["PHONE"] = q.cache["PHONE"]

(* All that the selection of the input's device depends on.                *)
SameInput(p, q) ==
    /\ p.in = q.in /\ p.record = q.record /\ p.source = q.source
    /\ p.recording = q.recording /\ p.inputDevice = q.inputDevice

(* The first connected device depends on the connected ones only.          *)
LEMMA FirstOfSame ==
    ASSUME NEW p, NEW q, p.out = q.out
    PROVE  \A devices : FirstOf(p, devices) = FirstOf(q, devices)
BY DEF FirstOf

(* The phone strategy reads the connected devices and the forced use, not  *)
(* the phone state: a change of state leaves its cached device fresh.      *)
LEMMA PhoneSame ==
    ASSUME NEW p, NEW q, p.out = q.out, p.comm = q.comm
    PROVE  PhoneDevice(p, "PHONE") = PhoneDevice(q, "PHONE")
BY FirstOfSame DEF PhoneDevice, ScoDevice

(* What a strategy selects depends on nothing but SameChoice.              *)
LEMMA ChoiceSame ==
    ASSUME NEW p, NEW q, SameChoice(p, q), NEW s \in Strategies
    PROVE  getDeviceForStrategy(p, s) = getDeviceForStrategy(q, s)
<1>1. \A devices : FirstOf(p, devices) = FirstOf(q, devices)
  BY FirstOfSame DEF SameChoice
<1>2. \A st : ScoDevice(p, st) = ScoDevice(q, st)
  BY <1>1 DEF ScoDevice, SameChoice
<1>3. \A st : PhoneDevice(p, st) = PhoneDevice(q, st)
  BY <1>1, <1>2 DEF PhoneDevice, SameChoice
<1>4. \A with : MediaDevice(p, with) = MediaDevice(q, with)
  BY <1>1 DEF MediaDevice, SameChoice
<1>5. SonificationDevice(p) = SonificationDevice(q)
  BY <1>3, <1>4 DEF SonificationDevice, SameChoice
<1>6. EnforcedDevice(p) = EnforcedDevice(q)
  BY <1>4 DEF EnforcedDevice, SameChoice
<1>7. MusicActive(p) = MusicActive(q)
  BY DEF MusicActive, SameChoice, Strategies
<1> QED
  BY <1>3, <1>4, <1>5, <1>6, <1>7 DEF getDeviceForStrategy, SameChoice, Strategies

(* So does the strategy that decides.                                      *)
LEMMA DecidingSame ==
    ASSUME NEW p, NEW q, SameChoice(p, q)
    PROVE  /\ Deciding(p) = Deciding(q)
           /\ (\A s \in Strategies : ~InUse(p, s)) <=> (\A s \in Strategies : ~InUse(q, s))
<1>1. \A s \in Strategies : InUse(p, s) = InUse(q, s)
  BY DEF InUse, SameChoice
<1>2. \A i \in DOMAIN Order : Order[i] \in Strategies
  BY DEF Order, Strategies
<1>3. \A i \in DOMAIN Order : 1..(i - 1) \subseteq DOMAIN Order
  BY DEF Order
<1>4. \A s \in Strategies :
        (\E i \in DOMAIN Order : /\ Order[i] = s /\ InUse(p, s)
                                 /\ \A j \in 1..(i - 1) : ~InUse(p, Order[j]))
        = (\E i \in DOMAIN Order : /\ Order[i] = s /\ InUse(q, s)
                                 /\ \A j \in 1..(i - 1) : ~InUse(q, Order[j]))
  BY <1>1, <1>2, <1>3
<1> QED
  BY <1>1, <1>4 DEF Deciding

(* Some strategy decides exactly when one is started.                      *)
LEMMA DecidingIs ==
    ASSUME NEW p, ~(\A s \in Strategies : ~InUse(p, s))
    PROVE  Deciding(p) \in Strategies
<1>1. \A i \in 1..6 : Order[i] \in Strategies
  BY DEF Order, Strategies
<1>2. DOMAIN Order = 1..6
  BY DEF Order
<1>3. \E i \in 1..6 : InUse(p, Order[i])
  BY DEF Order, Strategies
<1>4. \E i \in 1..6 : InUse(p, Order[i]) /\ \A j \in 1..(i - 1) : ~InUse(p, Order[j])
  <2> DEFINE S(i) == InUse(p, Order[i])
  <2>1. S(1) \/ S(2) \/ S(3) \/ S(4) \/ S(5) \/ S(6)
    BY <1>3
  <2> HIDE DEF S
  <2>2. \E i \in 1..6 : S(i) /\ \A j \in 1..(i - 1) : ~S(j)
    <3>1. CASE S(1) BY <3>1
    <3>2. CASE ~S(1) /\ S(2) BY <3>2
    <3>3. CASE ~S(1) /\ ~S(2) /\ S(3) BY <3>3
    <3>4. CASE ~S(1) /\ ~S(2) /\ ~S(3) /\ S(4) BY <3>4
    <3>5. CASE ~S(1) /\ ~S(2) /\ ~S(3) /\ ~S(4) /\ S(5) BY <3>5
    <3>6. CASE ~S(1) /\ ~S(2) /\ ~S(3) /\ ~S(4) /\ ~S(5) /\ S(6) BY <3>6
    <3> QED BY <2>1, <3>1, <3>2, <3>3, <3>4, <3>5, <3>6
  <2> QED
    BY <2>2 DEF S
<1> QED
  BY <1>1, <1>2, <1>4 DEF Deciding

(* And so does the device getNewDevice finds.                              *)
LEMMA NewDeviceSame ==
    ASSUME NEW p, NEW q, SameChoice(p, q)
    PROVE  getNewDevice(p, FALSE) = getNewDevice(q, FALSE)
<1>1. Deciding(p) = Deciding(q)
  BY DecidingSame
<1>2. (\A s \in Strategies : ~InUse(p, s)) <=> (\A s \in Strategies : ~InUse(q, s))
  BY DecidingSame
<1>3. CASE \A s \in Strategies : ~InUse(p, s)
  BY <1>2, <1>3 DEF getNewDevice
<1>4. CASE ~(\A s \in Strategies : ~InUse(p, s))
  <2>1. getDeviceForStrategy(p, Deciding(p)) = getDeviceForStrategy(q, Deciding(p))
    BY <1>4, DecidingIs, ChoiceSame
  <2> QED
    BY <1>1, <1>2, <1>4, <2>1 DEF getNewDevice
<1> QED
  BY <1>3, <1>4

(* The first connected device is connected.                                *)
LEMMA FirstOfIn ==
    ASSUME NEW p, NEW devices
    PROVE  FirstOf(p, devices) \subseteq p.out
BY DEF FirstOf

(* Whatever a strategy selects, the output supports.                       *)
LEMMA ChoiceIn ==
    ASSUME NEW p, Plain(p), NEW s \in Strategies
    PROVE  getDeviceForStrategy(p, s) \subseteq Supported
<1>1. p.out \subseteq Supported /\ p.cache["PHONE"] \subseteq Supported
  BY DEF Plain, PolicyState, Strategies
<1>2. \A devices : FirstOf(p, devices) \subseteq Supported
  BY <1>1, FirstOfIn
<1>3. \A st : PhoneDevice(p, st) \subseteq Supported
  BY <1>2 DEF PhoneDevice, ScoDevice
<1>4. \A with : with \subseteq Supported => MediaDevice(p, with) \subseteq Supported
  BY <1>2 DEF MediaDevice
<1>5. {"SPEAKER"} \subseteq Supported /\ None \subseteq Supported
  BY DEF Supported, None
<1>6. SonificationDevice(p) \subseteq Supported
  BY <1>3, <1>4, <1>5 DEF SonificationDevice
<1>7. EnforcedDevice(p) \subseteq Supported
  BY <1>1, <1>4, <1>5 DEF EnforcedDevice
<1> QED
  BY <1>3, <1>4, <1>5, <1>6, <1>7 DEF getDeviceForStrategy, Strategies

(* The output supports what getNewDevice finds, cached or not.             *)
LEMMA NewDeviceIn ==
    ASSUME NEW p, Plain(p), NEW fromCache \in BOOLEAN
    PROVE  getNewDevice(p, fromCache) \subseteq Supported
<1>1. \A s \in Strategies : p.cache[s] \subseteq Supported
  BY DEF Plain, PolicyState
<1> QED
  BY <1>1, ChoiceIn, DecidingIs DEF getNewDevice, None

(* The speaker is there for what follows the media strategy.               *)
LEMMA MediaSome ==
    ASSUME NEW p, Plain(p), NEW with
    PROVE  MediaDevice(p, with) # None
<1>1. FirstOf(p, <<"SPEAKER">>) # {}
  <2>1. 1 \in DOMAIN <<"SPEAKER">> /\ <<"SPEAKER">>[1] \in p.out /\ 1..(1 - 1) = {}
    BY DEF Plain
  <2> QED
    BY <2>1 DEF FirstOf
<1>2. FirstOf(p, <<"WIRED_HEADPHONE", "WIRED_HEADSET", "AUX_DIGITAL", "SPEAKER">>) # {}
  <2> DEFINE dev == <<"WIRED_HEADPHONE", "WIRED_HEADSET", "AUX_DIGITAL", "SPEAKER">>
             is(i) == dev[i] \in p.out
  <2>1. DOMAIN dev = 1..4 /\ is(4)
    BY DEF Plain
  <2> HIDE DEF dev
  <2>2. \E i \in 1..4 : is(i) /\ \A j \in 1..(i - 1) : ~is(j)
    <3> HIDE DEF is
    <3>1. CASE is(1) BY <3>1
    <3>2. CASE ~is(1) /\ is(2) BY <3>2
    <3>3. CASE ~is(1) /\ ~is(2) /\ is(3) BY <3>3
    <3>4. CASE ~is(1) /\ ~is(2) /\ ~is(3) BY <2>1, <3>4
    <3> QED BY <3>1, <3>2, <3>3, <3>4
  <2>3. FirstOf(p, dev) # {}
    BY <2>1, <2>2 DEF FirstOf
  <2> QED
    BY <2>3 DEF dev
<1> QED
  BY <1>1, <1>2 DEF MediaDevice, None

(* A refreshed cache holds, for every strategy, what it selects.           *)
LEMMA UpdateIs ==
    ASSUME NEW p, Plain(p)
    PROVE  LET q == updateDevicesAndOutputs(p)
           IN /\ Plain(q) /\ CacheFresh(q) /\ SameInput(p, q)
              /\ q.mDevice = p.mDevice
              /\ CacheFresh(p) => SameChoice(p, q)
              /\ \A s \in Strategies : q.cache[s] = getDeviceForStrategy(q, s)
<1> DEFINE c1 == [p.cache EXCEPT !["PHONE"] = getDeviceForStrategy(p, "PHONE")]
           r == [p EXCEPT !.cache = c1]
           c2 == [s \in Strategies |-> getDeviceForStrategy(r, s)]
           q == [r EXCEPT !.cache = c2]
<1>1. updateDevicesAndOutputs(p) = q
  BY DEF updateDevicesAndOutputs
<1>2. "PHONE" \in Strategies
  BY DEF Strategies
<1>3. c1 \in [Strategies -> SUBSET Supported] /\ c1["PHONE"] = getDeviceForStrategy(p, "PHONE")
  BY <1>2, ChoiceIn DEF Plain, PolicyState
<1> HIDE DEF c1
<1>4. Plain(r) /\ r.cache = c1
  BY <1>3 DEF Plain, PolicyState
<1>5. c2 \in [Strategies -> SUBSET Supported]
  BY <1>4, ChoiceIn
<1>6. \A s \in Strategies : c2[s] = getDeviceForStrategy(r, s)
  OBVIOUS
<1> HIDE DEF c2
<1>7. Plain(q) /\ q.cache = c2
  BY <1>4, <1>5 DEF Plain, PolicyState
<1>8. SameInput(p, q) /\ q.mDevice = p.mDevice
  BY DEF Plain, PolicyState, SameInput
<1>9. PhoneDevice(p, "PHONE") = PhoneDevice(r, "PHONE") /\ PhoneDevice(r, "PHONE") = PhoneDevice(q, "PHONE")
  <2>1. p.out = r.out /\ p.comm = r.comm /\ r.out = q.out /\ r.comm = q.comm
    BY DEF Plain, PolicyState
  <2> QED
    BY <2>1, PhoneSame
<1>10. \A x : getDeviceForStrategy(x, "PHONE") = PhoneDevice(x, "PHONE")
  BY DEF getDeviceForStrategy
<1>11. c2["PHONE"] = PhoneDevice(r, "PHONE") /\ c1["PHONE"] = PhoneDevice(r, "PHONE")
  BY <1>2, <1>3, <1>6, <1>9, <1>10
<1>12. CacheFresh(q)
  BY <1>7, <1>9, <1>11 DEF CacheFresh
<1>13. SameChoice(r, q)
  BY <1>4, <1>7, <1>11 DEF SameChoice, Plain, PolicyState
<1>14. CacheFresh(p) => SameChoice(p, q)
  BY <1>4, <1>7, <1>9, <1>11 DEF SameChoice, Plain, PolicyState, CacheFresh
<1>15. \A s \in Strategies : q.cache[s] = getDeviceForStrategy(q, s)
  BY <1>6, <1>7, <1>13, ChoiceSame
<1> HIDE DEF r, q
<1> QED
  BY <1>1, <1>7, <1>8, <1>12, <1>14, <1>15

(* Muting changes nothing else.                                            *)
LEMMA MutesIs ==
    ASSUME NEW p, Plain(p), NEW prev
    PROVE  LET q == checkDeviceMuteStrategies(p, prev)
           IN /\ Plain(q) /\ SameChoice(p, q) /\ SameInput(p, q)
              /\ q.mDevice = p.mDevice /\ q.cache = p.cache
<1> DEFINE isActive == \E s \in Strategies : p.refs[s] > 0
           tempMute == isActive /\ getDeviceForVolume(p.mDevice)
                                   # getDeviceForVolume(prev)
           mute(s) == LET cur == getDeviceForStrategy(p, s)
                      IN isActive /\ cur \cap p.mDevice # None /\ cur # p.mDevice
           doMute(s) == mute(s) # (s \in p.mutedByDevice)
           count(s) == IF mute(s) THEN p.mMuteCount[s] + 1
                       ELSE IF p.mMuteCount[s] > 0 THEN p.mMuteCount[s] - 1 ELSE 0
           by == {s \in Strategies : mute(s)}
           counts == [s \in Strategies |->
                        IF doMute(s) \/ tempMute THEN count(s) ELSE p.mMuteCount[s]]
           q == [p EXCEPT !.mutedByDevice = by, !.mMuteCount = counts]
<1>1. checkDeviceMuteStrategies(p, prev) = q
  BY DEF checkDeviceMuteStrategies
<1>2. by \subseteq Strategies
  OBVIOUS
<1>3. counts \in [Strategies -> Nat]
  <2>1. \A s \in Strategies : p.mMuteCount[s] \in Nat
    BY DEF Plain, PolicyState
  <2> HIDE DEF mute, tempMute, doMute
  <2>2. \A s \in Strategies : count(s) \in Nat
    BY <2>1
  <2> HIDE DEF count
  <2> QED
    BY <2>1, <2>2
<1> HIDE DEF by, counts
<1>4. Plain(q)
  BY <1>2, <1>3 DEF Plain, PolicyState
<1>5. SameChoice(p, q) /\ SameInput(p, q) /\ q.mDevice = p.mDevice /\ q.cache = p.cache
  BY DEF Plain, PolicyState, SameChoice, SameInput
<1> HIDE DEF q
<1> QED
  BY <1>1, <1>4, <1>5

(* The output's device is the one given, if one is given.                  *)
LEMMA SetOutputIs ==
    ASSUME NEW p, Plain(p), NEW device \in SUBSET Supported
    PROVE  LET q == setOutputDevice(p, device)
           IN /\ Plain(q) /\ SameChoice(p, q) /\ SameInput(p, q)
              /\ q.cache = p.cache
              /\ q.mDevice = IF device = None THEN p.mDevice ELSE device
<1>1. ~(device # None /\ device \cap Supported = None)
  BY DEF None
<1>2. device \cap Supported = device
  OBVIOUS
<1> DEFINE dev == IF device = None THEN p.mDevice ELSE device
           r == [p EXCEPT !.mDevice = dev]
           q == checkDeviceMuteStrategies(r, p.mDevice)
<1>3. setOutputDevice(p, device) = q
  BY <1>1, <1>2 DEF setOutputDevice
<1>4. dev \in SUBSET Supported
  BY DEF Plain, PolicyState
<1> HIDE DEF dev
<1>5. Plain(r) /\ r.mDevice = dev
  BY <1>4 DEF Plain, PolicyState
<1>6. SameChoice(p, r) /\ SameInput(p, r) /\ r.cache = p.cache
  BY DEF Plain, PolicyState, SameChoice, SameInput
<1> HIDE DEF r
<1>7. /\ Plain(q) /\ SameChoice(r, q) /\ SameInput(r, q)
      /\ q.mDevice = r.mDevice /\ q.cache = r.cache
  BY <1>5, MutesIs
<1>8. SameChoice(p, q) /\ SameInput(p, q)
  BY <1>6, <1>7 DEF SameChoice, SameInput
<1> HIDE DEF q
<1> QED
  BY <1>3, <1>5, <1>6, <1>7, <1>8 DEF dev

(* The phone's cached device stays fresh when no selection changes.        *)
LEMMA FreshSame ==
    ASSUME NEW p, NEW q, SameChoice(p, q), CacheFresh(p)
    PROVE  CacheFresh(q)
BY PhoneSame DEF SameChoice, CacheFresh

(* As long as nothing the selections depend on changes, the output and the *)
(* input stay right.                                                       *)
LEMMA OutputSame ==
    ASSUME NEW p, NEW q, Plain(p), Plain(q), SameChoice(p, q), p.mDevice = q.mDevice, OutputFollows(p)
    PROVE  OutputFollows(q)
<1>1. SameChoice(Playing(p), Playing(q))
  BY DEF Plain, PolicyState, SameChoice, Playing
<1> QED
  BY <1>1, NewDeviceSame DEF OutputFollows

(* The same for the input: its device stays the one of its source.         *)
LEMMA InputSame ==
    ASSUME NEW p, NEW q, SameInput(p, q), InputFollows(p)
    PROVE  InputFollows(q)
BY DEF InputFollows, SameInput, getDeviceForInputSource

(* A selection that is what the strategies say now sets the output right.  *)
LEMMA RerouteIs ==
    ASSUME NEW p, Plain(p), NEW fromCache \in BOOLEAN
    PROVE  LET q == Reroute(p, fromCache)
           IN /\ Plain(q) /\ SameChoice(p, q) /\ SameInput(p, q) /\ q.cache = p.cache
              /\ getNewDevice(p, fromCache) = getNewDevice(p, FALSE) => OutputFollows(q)
<1> DEFINE device == getNewDevice(p, fromCache)
           q == setOutputDevice(p, device)
<1>1. device \in SUBSET Supported
  BY NewDeviceIn
<1>2. Reroute(p, fromCache) = q
  BY DEF Reroute
<1> HIDE DEF device
<1>3. /\ Plain(q) /\ SameChoice(p, q) /\ SameInput(p, q) /\ q.cache = p.cache
      /\ q.mDevice = IF device = None THEN p.mDevice ELSE device
  BY <1>1, SetOutputIs
<1> HIDE DEF q
<1>4. ASSUME device = getNewDevice(p, FALSE)
      PROVE  OutputFollows(q)
  BY <1>3, <1>4, NewDeviceSame DEF OutputFollows
<1> QED
  BY <1>2, <1>3, <1>4 DEF device

(* From a refreshed cache the output gets what the strategies select.      *)
LEMMA UpdatedReroute ==
    ASSUME NEW p, Plain(p)
    PROVE  LET q == Reroute(updateDevicesAndOutputs(p), TRUE)
           IN Plain(q) /\ CacheFresh(q) /\ OutputFollows(q) /\ SameInput(p, q)
<1> DEFINE r == updateDevicesAndOutputs(p)
           q == Reroute(r, TRUE)
<1>1. /\ Plain(r) /\ CacheFresh(r) /\ SameInput(p, r)
      /\ \A s \in Strategies : r.cache[s] = getDeviceForStrategy(r, s)
  BY UpdateIs
<1> HIDE DEF r
<1>2. getNewDevice(r, TRUE) = getNewDevice(r, FALSE)
  BY <1>1, DecidingIs DEF getNewDevice
<1>3. Plain(q) /\ SameChoice(r, q) /\ SameInput(r, q) /\ OutputFollows(q)
  BY <1>1, <1>2, RerouteIs
<1>4. CacheFresh(q) /\ SameInput(p, q)
  BY <1>1, <1>3, FreshSame DEF SameInput
<1> HIDE DEF q
<1> QED
  BY <1>3, <1>4 DEF r, q

(* RerouteInput makes the input right and leaves the output alone.         *)
LEMMA RerouteInputSound ==
    ASSUME NEW p, Plain(p), CacheFresh(p), OutputFollows(p)
    PROVE  Sound(RerouteInput(p))
<1>1. CASE ~p.recording
  BY <1>1 DEF RerouteInput, Sound, InputFollows
<1>2. CASE p.recording
  <2> DEFINE dev == getDeviceForInputSource(p, p.source)
             q == [p EXCEPT !.inputDevice = dev]
  <2>1. RerouteInput(p) = q
    BY <1>2 DEF RerouteInput
  <2>2. dev \in {"COMMUNICATION", "VOICE_CALL", "BUILTIN_MIC", "SCO", "WIRED_HEADSET"}
    <3>1. p.source \in Sources
      BY DEF Plain, PolicyState
    <3> QED
      BY <3>1 DEF getDeviceForInputSource, Sources
  <2>3. dev = getDeviceForInputSource(q, p.source)
    <3>1. q.record = p.record /\ q.in = p.in
      BY DEF Plain, PolicyState
    <3> QED
      BY <3>1 DEF getDeviceForInputSource
  <2> HIDE DEF dev
  <2>4. Plain(q) /\ SameChoice(p, q) /\ q.mDevice = p.mDevice
    BY <2>2 DEF Plain, PolicyState, SameChoice
  <2>5. q.source = p.source /\ q.inputDevice = dev
    BY DEF Plain, PolicyState
  <2>6. CacheFresh(q) /\ OutputFollows(q)
    BY <2>4, FreshSame, OutputSame
  <2> HIDE DEF q
  <2> QED
    BY <2>1, <2>3, <2>4, <2>5, <2>6 DEF Sound, InputFollows
<1> QED
  BY <1>1, <1>2

(* A forced use leaves output and input right.                             *)
LEMMA ForcedSound ==
    ASSUME NEW p, Plain(p)
    PROVE  Sound(Forced(p))
BY UpdatedReroute, RerouteInputSound DEF Forced

(* A device that came or went: the second selection, from the refreshed    *)
(* cache, makes good what the first took from a stale one.                 *)
LEMMA RerouteOutputsIs ==
    ASSUME NEW p, Plain(p)
    PROVE  LET q == RerouteOutputs(p)
           IN Plain(q) /\ CacheFresh(q) /\ OutputFollows(q) /\ SameInput(p, q)
<1> DEFINE r == Reroute(p, FALSE)
           q == Reroute(updateDevicesAndOutputs(r), TRUE)
<1>1. Plain(r) /\ SameInput(p, r)
  BY RerouteIs
<1> HIDE DEF r
<1>2. Plain(q) /\ CacheFresh(q) /\ OutputFollows(q) /\ SameInput(r, q)
  BY <1>1, UpdatedReroute
<1> HIDE DEF q
<1>3. SameInput(p, q)
  BY <1>1, <1>2 DEF SameInput
<1> QED
  BY <1>2, <1>3 DEF RerouteOutputs, r, q

(* The notification of music refreshes the cache and moves nothing.        *)
LEMMA NotifySound ==
    ASSUME NEW p, Sound(p), NEW s
    PROVE  Sound(Notify(p, s))
<1>1. CASE s = "MEDIA"
  <2> DEFINE q == updateDevicesAndOutputs(p)
  <2>1. /\ Plain(q) /\ CacheFresh(q) /\ SameInput(p, q) /\ q.mDevice = p.mDevice
        /\ SameChoice(p, q)
    BY UpdateIs DEF Sound
  <2> HIDE DEF q
  <2>2. OutputFollows(q) /\ InputFollows(q)
    BY <2>1, OutputSame, InputSame DEF Sound
  <2> QED
    BY <1>1, <2>1, <2>2 DEF Sound, Notify, q
<1>2. CASE s # "MEDIA"
  BY <1>2 DEF Notify
<1> QED
  BY <1>1, <1>2

(* A started or stopped stream: the output is routed anew, then the cache. *)
LEMMA RerouteSound ==
    ASSUME NEW p, Plain(p), CacheFresh(p), InputFollows(p), NEW s
    PROVE  Sound(Notify(Reroute(p, FALSE), s))
<1> DEFINE q == Reroute(p, FALSE)
<1>1. Plain(q) /\ SameChoice(p, q) /\ SameInput(p, q) /\ OutputFollows(q)
  BY RerouteIs
<1> HIDE DEF q
<1>2. Sound(q)
  BY <1>1, FreshSame, InputSame DEF Sound
<1> QED
  BY <1>2, NotifySound DEF q

(* startOutput.                                                            *)
LEMMA StartSound ==
    ASSUME Sound(pol), NEW s \in Strategies, startOutput(s)
    PROVE  Sound(pol')
<1> DEFINE refs == [pol.refs EXCEPT ![s] = @ + 1]
           p == [pol EXCEPT !.refs = refs]
<1>1. refs \in [Strategies -> Nat] /\ refs[s] = pol.refs[s] + 1 /\ pol.refs[s] \in Nat
  BY DEF Sound, Plain, PolicyState
<1>2. \A t \in Strategies : t # s => refs[t] = pol.refs[t]
  BY DEF Sound, Plain, PolicyState
<1> HIDE DEF refs
<1>3. Plain(p) /\ p.refs = refs /\ p.mDevice = pol.mDevice
  BY <1>1 DEF Sound, Plain, PolicyState
<1>4. SameInput(pol, p) /\ p.out = pol.out /\ p.comm = pol.comm /\ p.cache = pol.cache
  BY DEF Sound, Plain, PolicyState, SameInput
<1>5. CacheFresh(p) /\ InputFollows(p)
  BY <1>4, PhoneSame, InputSame DEF Sound, CacheFresh
<1>6. pol' = IF p.refs[s] = 1 THEN Notify(Reroute(p, FALSE), s) ELSE p
  BY DEF startOutput, refs
<1>7. ASSUME p.refs[s] # 1 PROVE Sound(p)
  <2>1. SameChoice(pol, p)
    BY <1>1, <1>2, <1>3, <1>7 DEF Sound, Plain, PolicyState, SameChoice
  <2> HIDE DEF p
  <2> QED
    BY <1>3, <1>5, <2>1, OutputSame DEF Sound
<1> HIDE DEF p
<1> QED
  BY <1>3, <1>5, <1>6, <1>7, RerouteSound

(* stopOutput, which starts the delay after the last music.                *)
LEMMA StopSound ==
    ASSUME Sound(pol), NEW s \in Strategies, stopOutput(s)
    PROVE  Sound(pol')
<1> DEFINE refs == [pol.refs EXCEPT ![s] = @ - 1]
           recent == pol.recentMusic \/ (s = "MEDIA" /\ pol.refs[s] = 1)
           p == [pol EXCEPT !.refs = refs, !.recentMusic = recent]
<1>1. /\ refs \in [Strategies -> Nat] /\ refs[s] = pol.refs[s] - 1 /\ pol.refs[s] \in Nat
      /\ pol.refs[s] > 0
  BY DEF Sound, Plain, PolicyState, stopOutput
<1>2. \A t \in Strategies : t # s => refs[t] = pol.refs[t]
  BY DEF Sound, Plain, PolicyState
<1>a. pol.refs[s] # 1 => recent = pol.recentMusic
  BY DEF Sound, Plain, PolicyState
<1>b. recent \in BOOLEAN
  BY DEF Sound, Plain, PolicyState
<1>6. pol' = IF p.refs[s] = 0 THEN Notify(Reroute(p, FALSE), s) ELSE p
  BY DEF stopOutput
<1> HIDE DEF refs, recent
<1>3. Plain(p) /\ p.refs = refs /\ p.mDevice = pol.mDevice
  BY <1>1, <1>b DEF Sound, Plain, PolicyState
<1>4. SameInput(pol, p) /\ p.out = pol.out /\ p.comm = pol.comm /\ p.cache = pol.cache
  BY DEF Sound, Plain, PolicyState, SameInput
<1>5. CacheFresh(p) /\ InputFollows(p)
  BY <1>4, PhoneSame, InputSame DEF Sound, CacheFresh
<1>7. ASSUME p.refs[s] # 0 PROVE Sound(p)
  <2>1. SameChoice(pol, p)
    BY <1>1, <1>2, <1>3, <1>7, <1>a DEF Sound, Plain, PolicyState, SameChoice
  <2> HIDE DEF p
  <2> QED
    BY <1>3, <1>5, <2>1, OutputSame DEF Sound
<1> HIDE DEF p
<1> QED
  BY <1>3, <1>5, <1>6, <1>7, RerouteSound

(* Music that counts as playing never leaves an output without a device.   *)
LEMMA PlayingSome ==
    ASSUME NEW p, Plain(p), getNewDevice(p, FALSE) # None
    PROVE  getNewDevice(Playing(p), FALSE) # None
<1> DEFINE q == Playing(p)
<1>1. /\ q.phone = p.phone /\ q.comm = p.comm /\ q.media = p.media /\ q.out = p.out
      /\ q.canBeMuted = p.canBeMuted /\ q.cache = p.cache /\ q.refs = p.refs
  BY DEF Playing, Plain, PolicyState
<1>2. Plain(q)
  BY DEF Playing, Plain, PolicyState
<1> HIDE DEF q
<1>3. \A s : InUse(p, s) = InUse(q, s)
  BY <1>1 DEF InUse
<1>4. Deciding(p) = Deciding(q)
  BY <1>3 DEF Deciding
<1>5. \A devices : FirstOf(p, devices) = FirstOf(q, devices)
  BY <1>1, FirstOfSame
<1>6. \A st : PhoneDevice(p, st) = PhoneDevice(q, st)
  BY <1>1, <1>5 DEF PhoneDevice, ScoDevice
<1>7. \A with : MediaDevice(p, with) = MediaDevice(q, with)
  BY <1>1, <1>5 DEF MediaDevice
<1>8. SonificationDevice(p) = SonificationDevice(q)
  BY <1>1, <1>6, <1>7 DEF SonificationDevice
<1>9. EnforcedDevice(p) = EnforcedDevice(q)
  BY <1>1, <1>7 DEF EnforcedDevice
<1>10. \A s \in Strategies : getDeviceForStrategy(p, s) # None => getDeviceForStrategy(q, s) # None
  <2>1. MediaDevice(q, None) # None
    BY <1>2, MediaSome
  <2>2. getDeviceForStrategy(q, "RESPECTFUL") \in {MediaDevice(q, None), SonificationDevice(q)}
    BY DEF getDeviceForStrategy
  <2>3. InState(q.phone) => getDeviceForStrategy(p, "RESPECTFUL") = getDeviceForStrategy(q, "RESPECTFUL")
    BY <1>1, <1>8 DEF getDeviceForStrategy
  <2>4. ~InState(q.phone) => getDeviceForStrategy(q, "RESPECTFUL") = MediaDevice(q, None)
    <3>1. MusicActive(q)
      BY DEF MusicActive, q, Playing, Plain, PolicyState
    <3> QED
      BY <3>1 DEF getDeviceForStrategy
  <2>5. \A s \in Strategies \ {"RESPECTFUL"} : getDeviceForStrategy(p, s) = getDeviceForStrategy(q, s)
    BY <1>1, <1>6, <1>7, <1>8, <1>9 DEF getDeviceForStrategy, Strategies
  <2> QED
    BY <2>1, <2>3, <2>4, <2>5
<1> QED
  BY <1>3, <1>4, <1>10, DecidingIs DEF getNewDevice, q

(* MusicDelayOver: the output stays with the selection as if music played. *)
LEMMA DelaySound ==
    ASSUME Sound(pol), MusicDelayOver
    PROVE  Sound(pol')
<1> DEFINE p == [pol EXCEPT !.recentMusic = FALSE]
<1>1. pol' = p /\ pol.recentMusic
  BY DEF MusicDelayOver
<1>2. Plain(p) /\ SameInput(pol, p) /\ p.mDevice = pol.mDevice
  BY DEF Sound, Plain, PolicyState, SameInput
<1>3. p.out = pol.out /\ p.comm = pol.comm /\ p.cache = pol.cache
  BY DEF Sound, Plain, PolicyState
<1>4. CacheFresh(p) /\ InputFollows(p)
  BY <1>2, <1>3, PhoneSame, InputSame DEF Sound, CacheFresh
<1>5. SameChoice(pol, Playing(p)) /\ SameChoice(pol, Playing(pol))
  BY <1>1 DEF SameChoice, Playing, Sound, Plain, PolicyState
<1> HIDE DEF p
<1>6. OutputFollows(p)
  <2>1. getNewDevice(pol, FALSE) = getNewDevice(Playing(p), FALSE)
    BY <1>5, NewDeviceSame
  <2>2. getNewDevice(pol, FALSE) = getNewDevice(Playing(pol), FALSE)
    BY <1>5, NewDeviceSame
  <2> QED
    BY <1>2, <2>1, <2>2, PlayingSome DEF OutputFollows, Sound
<1> QED
  BY <1>1, <1>2, <1>4, <1>6 DEF Sound

(* The input that came with a device, or went with it.                     *)
LEMMA InputsSound ==
    ASSUME NEW p, Sound(p), NEW inputs \in SUBSET {"WIRED_HEADSET", "SCO"}
    PROVE  Sound(RerouteInput([p EXCEPT !.in = inputs]))
<1> DEFINE q == [p EXCEPT !.in = inputs]
<1>1. Plain(q) /\ SameChoice(p, q) /\ q.mDevice = p.mDevice
  BY DEF Sound, Plain, PolicyState, SameChoice
<1>2. CacheFresh(q) /\ OutputFollows(q)
  BY <1>1, FreshSame, OutputSame DEF Sound
<1> QED
  BY <1>1, <1>2, RerouteInputSound

(* setDeviceConnectionState.                                               *)
LEMMA ConnectionSound ==
    ASSUME Sound(pol), NEW d \in Connectable, setDeviceConnectionState(d)
    PROVE  Sound(pol')
<1>1. InputOf(d) \subseteq {"WIRED_HEADSET", "SCO"}
  BY DEF InputOf, ScoDevices
<1>2. ASSUME NEW out \in SUBSET Supported, "SPEAKER" \in out
      PROVE  Sound(RerouteOutputs([pol EXCEPT !.out = out]))
  <2> DEFINE p == [pol EXCEPT !.out = out]
  <2>1. Plain(p) /\ SameInput(pol, p)
    BY <1>2 DEF Sound, Plain, PolicyState, SameInput
  <2> HIDE DEF p
  <2> DEFINE q == RerouteOutputs(p)
  <2>2. Plain(q) /\ CacheFresh(q) /\ OutputFollows(q) /\ SameInput(p, q)
    BY <2>1, RerouteOutputsIs
  <2> HIDE DEF q
  <2>3. InputFollows(q)
    BY <2>1, <2>2, InputSame DEF Sound
  <2> QED
    BY <2>2, <2>3 DEF Sound, p, q
<1>3. ASSUME NEW p, Sound(p) PROVE Sound(Connected(p, d)) /\ Sound(Disconnected(p, d))
  <2>1. p.in \subseteq {"WIRED_HEADSET", "SCO"}
    BY <1>3 DEF Sound, Plain, PolicyState
  <2>2. /\ p.in \cup InputOf(d) \in SUBSET {"WIRED_HEADSET", "SCO"}
        /\ p.in \ InputOf(d) \in SUBSET {"WIRED_HEADSET", "SCO"}
    BY <1>1, <2>1
  <2>3. Sound(Connected(p, d))
    BY <1>3, <2>2, InputsSound DEF Connected
  <2>4. Sound(Disconnected(p, d))
    BY <1>3, <2>2, InputsSound DEF Disconnected
  <2> QED
    BY <2>3, <2>4
<1>4. "SPEAKER" \in pol.out /\ pol.out \subseteq Supported /\ d # "SPEAKER" /\ d \in Supported
  BY DEF Sound, Plain, PolicyState, Connectable, Supported
<1>5. CASE d \in pol.out
  <2>1. Sound(RerouteOutputs([pol EXCEPT !.out = pol.out \ {d}]))
    BY <1>2, <1>4
  <2> QED
    BY <1>3, <1>5, <2>1 DEF setDeviceConnectionState
<1>6. CASE d \notin pol.out
  <2>1. Sound(RerouteOutputs([pol EXCEPT !.out = pol.out \cup {d}]))
    BY <1>2, <1>4
  <2> QED
    BY <1>3, <1>6, <2>1 DEF setDeviceConnectionState
<1> QED
  BY <1>5, <1>6

(* setPhoneState: the device was selected before the cache was refreshed,  *)
(* but the cached entry it may read was fresh already.                     *)
LEMMA PhoneSound ==
    ASSUME Sound(pol), NEW state \in {"NORMAL", "RINGTONE", "IN_CALL", "IN_COMMUNICATION"},
           setPhoneState(state)
    PROVE  Sound(pol')
<1> DEFINE p == [pol EXCEPT !.phone = state]
           newDevice == getNewDevice(p, FALSE)
           forced == IF InState(pol.phone) /\ newDevice = None THEN p.mDevice
                                                               ELSE newDevice
           r == updateDevicesAndOutputs(p)
           q == setOutputDevice(r, forced)
<1>1. pol' = q
  BY DEF setPhoneState
<1>2. Plain(p) /\ SameInput(pol, p)
  BY DEF Sound, Plain, PolicyState, SameInput
<1>3. p.out = pol.out /\ p.comm = pol.comm /\ p.cache = pol.cache
  BY DEF Sound, Plain, PolicyState
<1> HIDE DEF p
<1>4. CacheFresh(p)
  BY <1>3, PhoneSame DEF Sound, CacheFresh
<1>5. Plain(r) /\ CacheFresh(r) /\ SameInput(p, r) /\ SameChoice(p, r)
  BY <1>2, <1>4, UpdateIs
<1> HIDE DEF r
<1>6. newDevice = getNewDevice(r, FALSE) /\ newDevice \in SUBSET Supported
  BY <1>2, <1>5, NewDeviceSame, NewDeviceIn
<1> HIDE DEF newDevice
<1>7. forced \in SUBSET Supported /\ (newDevice # None => forced = newDevice)
  BY <1>2, <1>6 DEF Plain, PolicyState
<1> HIDE DEF forced
<1>8. /\ Plain(q) /\ SameChoice(r, q) /\ SameInput(r, q)
      /\ q.mDevice = IF forced = None THEN r.mDevice ELSE forced
  BY <1>5, <1>7, SetOutputIs
<1> HIDE DEF q
<1>9. newDevice = getNewDevice(q, FALSE)
  BY <1>6, <1>8, NewDeviceSame
<1>10. OutputFollows(q)
  BY <1>7, <1>8, <1>9 DEF OutputFollows
<1>11. CacheFresh(q) /\ InputFollows(q)
  <2>1. SameInput(pol, q)
    BY <1>2, <1>5, <1>8 DEF SameInput
  <2> QED
    BY <1>5, <1>8, <2>1, FreshSame, InputSame DEF Sound
<1> QED
  BY <1>1, <1>8, <1>10, <1>11 DEF Sound

(* setForceUse.                                                            *)
LEMMA ForceSound ==
    ASSUME Sound(pol), setForceUse
    PROVE  Sound(pol')
<1>1. ASSUME NEW c \in {"NONE", "SPEAKER", "BT_SCO"} PROVE Plain([pol EXCEPT !.comm = c])
  BY <1>1 DEF Sound, Plain, PolicyState
<1>2. ASSUME NEW c \in {"NONE", "SPEAKER"} PROVE Plain([pol EXCEPT !.media = c])
  BY <1>2 DEF Sound, Plain, PolicyState
<1>3. ASSUME NEW c \in {"NONE", "BT_SCO"} PROVE Plain([pol EXCEPT !.record = c])
  BY <1>3 DEF Sound, Plain, PolicyState
<1> QED
  BY <1>1, <1>2, <1>3, ForcedSound DEF setForceUse

(* startInput and stopInput.                                               *)
LEMMA CaptureSound ==
    ASSUME Sound(pol), (\E source \in Sources : startInput(source)) \/ stopInput
    PROVE  Sound(pol')
<1>1. ASSUME NEW source \in Sources, startInput(source) PROVE Sound(pol')
  <2> DEFINE p == [pol EXCEPT !.source = source, !.recording = TRUE]
  <2>1. Plain(p) /\ SameChoice(pol, p) /\ p.mDevice = pol.mDevice
    BY DEF Sound, Plain, PolicyState, SameChoice
  <2>2. CacheFresh(p) /\ OutputFollows(p)
    BY <2>1, FreshSame, OutputSame DEF Sound
  <2> HIDE DEF p
  <2>3. Sound(RerouteInput(p))
    BY <2>1, <2>2, RerouteInputSound
  <2> QED
    BY <1>1, <2>3 DEF startInput, p
<1>2. CASE stopInput
  <2> DEFINE p == [pol EXCEPT !.recording = FALSE]
  <2>1. Plain(p) /\ SameChoice(pol, p) /\ p.mDevice = pol.mDevice /\ ~p.recording
    BY DEF Sound, Plain, PolicyState, SameChoice
  <2>2. CacheFresh(p) /\ OutputFollows(p)
    BY <2>1, FreshSame, OutputSame DEF Sound
  <2> HIDE DEF p
  <2> QED
    BY <1>2, <2>1, <2>2 DEF stopInput, p, Sound, InputFollows
<1> QED
  BY <1>1, <1>2

(* The constructor leaves a right state: nothing is started.               *)
LEMMA PolicyStart == PolicyInit => Sound(pol)
<1> SUFFICES ASSUME PolicyInit PROVE Sound(pol)
  OBVIOUS
<1> DEFINE first(canBeMuted) ==
             [phone |-> "NORMAL", comm |-> "NONE", media |-> "NONE",
              record |-> "NONE", out |-> {"SPEAKER", "EARPIECE"},
              in |-> {}, refs |-> [s \in Strategies |-> 0],
              recentMusic |-> FALSE, canBeMuted |-> canBeMuted,
              cache |-> [s \in Strategies |-> None],
              mDevice |-> {"SPEAKER"}, mutedByDevice |-> {},
              mMuteCount |-> [s \in Strategies |-> 0],
              source |-> "MIC", recording |-> FALSE,
              inputDevice |-> "BUILTIN_MIC"]
<1>1. PICK canBeMuted \in BOOLEAN : pol = updateDevicesAndOutputs(first(canBeMuted))
  BY DEF PolicyInit
<1> DEFINE p == first(canBeMuted)
<1>2. Plain(p) /\ ~p.recording
  BY DEF Plain, PolicyState, Supported, Connectable, Sources, None
<1>3. ~InState(p.phone) /\ (\A s \in Strategies : ~(p.refs[s] > 0))
  BY DEF InState
<1> HIDE DEF p, first
<1>4. Plain(pol) /\ CacheFresh(pol) /\ SameInput(p, pol)
  BY <1>1, <1>2, UpdateIs DEF p
<1>5. pol.phone = p.phone /\ pol.refs = p.refs
  BY <1>1, <1>2 DEF updateDevicesAndOutputs, Plain, PolicyState, p
<1>6. getNewDevice(pol, FALSE) = None
  BY <1>3, <1>5 DEF getNewDevice, InUse
<1> QED
  BY <1>2, <1>4, <1>6 DEF Sound, OutputFollows, InputFollows, SameInput

(* Every operation keeps the invariant.                                    *)
LEMMA PolicyStep == PolicyInv /\ [PolicyNext]_policyVars => PolicyInv'
<1> SUFFICES ASSUME Sound(pol), [PolicyNext]_policyVars PROVE Sound(pol')
  BY DEF PolicyInv
<1>1. CASE \E s \in Strategies : startOutput(s) \/ stopOutput(s)
  BY <1>1, StartSound, StopSound
<1>2. CASE MusicDelayOver
  BY <1>2, DelaySound
<1>3. CASE \E d \in Connectable : setDeviceConnectionState(d)
  BY <1>3, ConnectionSound
<1>4. CASE \E state \in {"NORMAL", "RINGTONE", "IN_CALL", "IN_COMMUNICATION"} :
             setPhoneState(state)
  BY <1>4, PhoneSound
<1>5. CASE setForceUse
  BY <1>5, ForceSound
<1>6. CASE (\E source \in Sources : startInput(source)) \/ stopInput
  BY <1>6, CaptureSound
<1>7. CASE UNCHANGED policyVars
  BY <1>7 DEF policyVars
<1> QED
  BY <1>1, <1>2, <1>3, <1>4, <1>5, <1>6, <1>7 DEF PolicyNext

(* However streams start and stop, devices come and go, the phone changes  *)
(* state and uses are forced (AudioPolicyManager.cpp), an output in use    *)
(* goes to the devices its strategies select now.                          *)
THEOREM DevicesFollowAlways == PolicySpec => []DevicesFollow
<1>1. PolicyInit => PolicyInv
  BY PolicyStart DEF PolicyInv
<1>2. PolicyInv => DevicesFollow
  BY DEF PolicyInv, Sound, OutputFollows, InputFollows, Playing, DevicesFollow
<1> QED
  BY <1>1, <1>2, PolicyStep, PTL DEF PolicySpec
=============================================================================
