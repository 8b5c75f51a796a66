---------------------------- MODULE AudioPolicy ----------------------------
(***************************************************************************)
(* AudioPolicyManager.cpp: which devices the primary output and an input   *)
(* use, as streams start and stop, devices come and go, the phone changes  *)
(* state and uses are forced.  The policy service calls it with its lock   *)
(* held, one operation at a time; the state is one record, and an          *)
(* operation is the composition of the functions it calls.                 *)
(*                                                                         *)
(* AudioPolicyManagerBase (getNewDevice, updateDevicesAndOutputs,          *)
(* startInput, the mute counts) is external and modelled as it is used.    *)
(* The board's audio_policy.conf has the attached and supported devices.   *)
(* A2DP and USB, which have outputs of their own, are never connected.     *)
(***************************************************************************)
EXTENDS Integers, FiniteSets, Sequences

CONSTANTS MaxPolicyOps,     \* operations called in all
          MaxRefs           \* starts of one kind of stream not yet stopped

Strategies == {"MEDIA", "PHONE", "SONIFICATION", "RESPECTFUL", "DTMF",
               "ENFORCED_AUDIBLE"}
Sources == {"MIC", "CAMCORDER", "VOICE_UPLINK", "VOICE_CALL",
            "VOICE_COMMUNICATION"}
Connectable == {"WIRED_HEADSET", "WIRED_HEADPHONE", "SCO_HEADSET", "SCO_CARKIT",
                "AUX_DIGITAL"}
Supported == Connectable \cup {"SPEAKER", "EARPIECE"}
ScoDevices == {"SCO_HEADSET", "SCO_CARKIT"}
None == {}

VARIABLES
    pol,        \* the state of the AudioPolicyManager
    policyOps   \* operations called so far

policyVars == <<pol, policyOps>>

-----------------------------------------------------------------------------
(* The strategies.                                                         *)
InState(phone) == phone \in {"IN_CALL", "IN_COMMUNICATION"}
(* The first of the devices that is connected, or none.                    *)
FirstOf(p, devices) ==
    {devices[i] : i \in {i \in DOMAIN devices :
        devices[i] \in p.out /\ \A j \in 1..(i - 1) : devices[j] \notin p.out}}
ScoDevice(p, strategy) ==
    FirstOf(p, IF InState(p.phone) /\ strategy = "DTMF"
                 THEN <<"SCO_HEADSET">> ELSE <<"SCO_CARKIT", "SCO_HEADSET">>)
PhoneDevice(p, strategy) ==
    IF p.comm = "SPEAKER" THEN FirstOf(p, <<"AUX_DIGITAL", "SPEAKER">>)
    ELSE IF p.comm = "BT_SCO" /\ ScoDevice(p, strategy) # None
      THEN ScoDevice(p, strategy)
      ELSE FirstOf(p, <<"WIRED_HEADPHONE", "WIRED_HEADSET", "AUX_DIGITAL",
                        "EARPIECE">>)
(* with: the speaker, where sonification falls through to media.           *)
MediaDevice(p, with) ==
    IF p.media = "SPEAKER" THEN FirstOf(p, <<"SPEAKER">>)
    ELSE with \cup FirstOf(p, <<"WIRED_HEADPHONE", "WIRED_HEADSET",
                                "AUX_DIGITAL", "SPEAKER">>)
SonificationDevice(p) ==
    IF InState(p.phone) THEN PhoneDevice(p, "PHONE")
                        ELSE MediaDevice(p, {"SPEAKER"})
(* In a call the phone's device comes from the cache.                      *)
EnforcedDevice(p) ==
    LET device == MediaDevice(p, IF p.canBeMuted THEN None ELSE {"SPEAKER"})
    IN IF p.phone = "IN_CALL" /\ device # p.cache["PHONE"] /\ p.canBeMuted
         THEN p.cache["PHONE"] ELSE device
MusicActive(p) == p.refs["MEDIA"] > 0 \/ p.recentMusic
getDeviceForStrategy(p, strategy) ==
    CASE strategy = "MEDIA" -> MediaDevice(p, None)
      [] strategy = "PHONE" -> PhoneDevice(p, "PHONE")
      [] strategy = "SONIFICATION" -> SonificationDevice(p)
      [] strategy = "RESPECTFUL" ->
           IF ~InState(p.phone) /\ MusicActive(p) THEN MediaDevice(p, None)
                                                  ELSE SonificationDevice(p)
      [] strategy = "DTMF" -> IF InState(p.phone) THEN PhoneDevice(p, "DTMF")
                                                  ELSE MediaDevice(p, None)
      [] strategy = "ENFORCED_AUDIBLE" -> EnforcedDevice(p)

(* updateDevicesAndOutputs refreshes the cache, the phone's entry before   *)
(* the one of the enforced strategy.                                       *)
updateDevicesAndOutputs(p) ==
    LET q == [p EXCEPT !.cache["PHONE"] = getDeviceForStrategy(p, "PHONE")]
    IN [q EXCEPT !.cache = [s \in Strategies |-> getDeviceForStrategy(q, s)]]

(* getNewDevice: by the strategies with a started stream, in this order;   *)
(* in a call the phone's counts as started.                                *)
Order == <<"ENFORCED_AUDIBLE", "PHONE", "SONIFICATION", "RESPECTFUL", "MEDIA",
           "DTMF">>
InUse(p, s) == p.refs[s] > 0 \/ (s = "PHONE" /\ InState(p.phone))
Deciding(p) ==
    CHOOSE s \in Strategies :
      \E i \in DOMAIN Order :
        /\ Order[i] = s /\ InUse(p, s)
        /\ \A j \in 1..(i - 1) : ~InUse(p, Order[j])
getNewDevice(p, fromCache) ==
    IF \A s \in Strategies : ~InUse(p, s) THEN None
    ELSE IF fromCache THEN p.cache[Deciding(p)]
    ELSE getDeviceForStrategy(p, Deciding(p))

-----------------------------------------------------------------------------
(* setOutputDevice and the muting of strategies whose device overlaps.  A  *)
(* mute that is repeated counts twice; a mute count never falls below 0.   *)
getDeviceForVolume(device) ==
    IF device = None \/ "SPEAKER" \in device THEN {"SPEAKER"}
    ELSE IF Cardinality(device) > 1 /\ "WIRED_HEADSET" \in device
      THEN {"WIRED_HEADSET"} ELSE device
checkDeviceMuteStrategies(p, prevDevice) ==
    LET isActive == \E s \in Strategies : p.refs[s] > 0
        tempMute == isActive /\ getDeviceForVolume(p.mDevice)
                                # getDeviceForVolume(prevDevice)
        mute(s) == LET cur == getDeviceForStrategy(p, s)
                   IN isActive /\ cur \cap p.mDevice # None /\ cur # p.mDevice
        doMute(s) == mute(s) # (s \in p.mutedByDevice)
        count(s) == IF mute(s) THEN p.mMuteCount[s] + 1
                    ELSE IF p.mMuteCount[s] > 0 THEN p.mMuteCount[s] - 1 ELSE 0
    IN [p EXCEPT !.mutedByDevice = {s \in Strategies : mute(s)},
                 !.mMuteCount = [s \in Strategies |->
                   IF doMute(s) \/ tempMute THEN count(s) ELSE p.mMuteCount[s]]]
setOutputDevice(p, device) ==
    IF device # None /\ device \cap Supported = None THEN p
    ELSE checkDeviceMuteStrategies(
           [p EXCEPT !.mDevice = IF device = None THEN @ ELSE device \cap Supported],
           p.mDevice)
Reroute(p, fromCache) == setOutputDevice(p, getNewDevice(p, fromCache))

(* The inputs.                                                             *)
getDeviceForInputSource(p, source) ==
    CASE source = "VOICE_COMMUNICATION" -> "COMMUNICATION"
      [] source \in {"VOICE_UPLINK", "VOICE_CALL"} -> "VOICE_CALL"
      [] source = "CAMCORDER" -> "BUILTIN_MIC"
      [] source = "MIC" ->
           IF p.record = "BT_SCO" /\ "SCO" \in p.in THEN "SCO"
           ELSE IF "WIRED_HEADSET" \in p.in THEN "WIRED_HEADSET"
           ELSE "BUILTIN_MIC"
RerouteInput(p) ==
    IF ~p.recording THEN p
    ELSE [p EXCEPT !.inputDevice = getDeviceForInputSource(p, p.source)]

-----------------------------------------------------------------------------
PolicyInit ==
    /\ \E canBeMuted \in BOOLEAN :
         LET p == [phone |-> "NORMAL", comm |-> "NONE", media |-> "NONE",
                   record |-> "NONE", out |-> {"SPEAKER", "EARPIECE"},
                   in |-> {}, refs |-> [s \in Strategies |-> 0],
                   recentMusic |-> FALSE, canBeMuted |-> canBeMuted,
                   cache |-> [s \in Strategies |-> None],
                   mDevice |-> {"SPEAKER"}, mutedByDevice |-> {},
                   mMuteCount |-> [s \in Strategies |-> 0],
                   source |-> "MIC", recording |-> FALSE,
                   inputDevice |-> "BUILTIN_MIC"]
         IN pol = updateDevicesAndOutputs(p)
    /\ policyOps = 0

Op == policyOps < MaxPolicyOps /\ policyOps' = policyOps + 1

(* Starting and stopping a stream of a strategy.  Music decides what       *)
(* respectful sonification does, so it refreshes the cache.                *)
Notify(p, s) == IF s = "MEDIA" THEN updateDevicesAndOutputs(p) ELSE p
startOutput(s) ==
    /\ Op /\ pol.refs[s] < MaxRefs
    /\ LET p == [pol EXCEPT !.refs[s] = @ + 1]
       IN pol' = IF p.refs[s] = 1 THEN Notify(Reroute(p, FALSE), s) ELSE p
stopOutput(s) ==
    /\ Op /\ pol.refs[s] > 0
    /\ LET p == [pol EXCEPT !.refs[s] = @ - 1,
                            !.recentMusic = @ \/ (s = "MEDIA" /\ pol.refs[s] = 1)]
       IN pol' = IF p.refs[s] = 0 THEN Notify(Reroute(p, FALSE), s) ELSE p
(* SONIFICATION_RESPECTFUL_AFTER_MUSIC_DELAY has passed.                   *)
MusicDelayOver ==
    /\ pol.recentMusic /\ pol' = [pol EXCEPT !.recentMusic = FALSE]
    /\ UNCHANGED policyOps

(* A device comes or goes: the primary output first, from the strategies,  *)
(* then from the refreshed cache; a headset and SCO bring an input.  With  *)
(* the input already there, or gone, the call ends in an error.            *)
InputOf(d) == CASE d = "WIRED_HEADSET" -> {"WIRED_HEADSET"}
                [] d \in ScoDevices -> {"SCO"} [] OTHER -> {}
Connected(p, d) ==
    IF InputOf(d) \subseteq p.in THEN p
    ELSE RerouteInput([p EXCEPT !.in = @ \cup InputOf(d)])
Disconnected(p, d) ==
    IF InputOf(d) \cap p.in = {} THEN p
    ELSE RerouteInput([p EXCEPT !.in = @ \ InputOf(d)])
RerouteOutputs(p) == Reroute(updateDevicesAndOutputs(Reroute(p, FALSE)), TRUE)
setDeviceConnectionState(d) ==
    /\ Op
    /\ pol' = IF d \in pol.out
                THEN Disconnected(RerouteOutputs([pol EXCEPT !.out = @ \ {d}]), d)
                ELSE Connected(RerouteOutputs([pol EXCEPT !.out = @ \cup {d}]), d)

(* The primary output's device is selected before the cache is refreshed;  *)
(* at the end of a call it is set anew even if no stream is started.       *)
setPhoneState(state) ==
    /\ Op /\ state # pol.phone
    /\ LET p == [pol EXCEPT !.phone = state]
           newDevice == getNewDevice(p, FALSE)
           forced == IF InState(pol.phone) /\ newDevice = None THEN p.mDevice
                                                               ELSE newDevice
       IN pol' = setOutputDevice(updateDevicesAndOutputs(p), forced)

(* Faulty variant: the output is selected before the cache is refreshed.   *)
ForcedStale(p) == RerouteInput(updateDevicesAndOutputs(Reroute(p, TRUE)))

(* A forced use: the cache, the output from it, the active input.          *)
Forced(p) == RerouteInput(Reroute(updateDevicesAndOutputs(p), TRUE))
setForceUse ==
    /\ Op
    /\ \/ \E c \in {"NONE", "SPEAKER", "BT_SCO"} :
            pol' = Forced([pol EXCEPT !.comm = c])
       \/ \E c \in {"NONE", "SPEAKER"} : pol' = Forced([pol EXCEPT !.media = c])
       \/ \E c \in {"NONE", "BT_SCO"} : pol' = Forced([pol EXCEPT !.record = c])

(* An input is opened for a source and started; stopping it routes it to   *)
(* no device.                                                              *)
startInput(source) ==
    /\ Op /\ ~pol.recording
    /\ pol' = RerouteInput([pol EXCEPT !.source = source, !.recording = TRUE])
stopInput ==
    /\ Op /\ pol.recording /\ pol' = [pol EXCEPT !.recording = FALSE]

PolicyNext ==
    \/ \E s \in Strategies : startOutput(s) \/ stopOutput(s)
    \/ MusicDelayOver
    \/ \E d \in Connectable : setDeviceConnectionState(d)
    \/ \E state \in {"NORMAL", "RINGTONE", "IN_CALL", "IN_COMMUNICATION"} :
         setPhoneState(state)
    \/ setForceUse
    \/ \E source \in Sources : startInput(source)
    \/ stopInput

PolicySpec == PolicyInit /\ [][PolicyNext]_policyVars

(* After every operation, whatever came before: an output in use goes to   *)
(* the devices its strategies select now, although some operations select  *)
(* from the cache and some before it is refreshed, and the active input    *)
(* comes from the device of its source.  Where notifications decide, the   *)
(* selection as long as the last music counts as playing is accepted too:  *)
(* nothing is called when that delay ends.                                 *)
DevicesFollow ==
    /\ getNewDevice(pol, FALSE) # None =>
         pol.mDevice \in {getNewDevice(pol, FALSE),
                          getNewDevice([pol EXCEPT !.recentMusic = TRUE], FALSE)}
    /\ pol.recording =>
         pol.inputDevice = getDeviceForInputSource(pol, pol.source)

(* A strategy is muted exactly while its device overlaps with the          *)
(* output's: "mute/unmute strategies using an incompatible device          *)
(* combination".                                                           *)
MutesBalanced ==
    \A s \in Strategies :
      pol.mMuteCount[s] = IF s \in pol.mutedByDevice THEN 1 ELSE 0
=============================================================================
