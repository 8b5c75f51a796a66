----------------------------- MODULE AudioVoip -----------------------------
(***************************************************************************)
(* The two streams of a VoIP call in AudioHardware.cpp,                    *)
(* AudioStreamOutDirect and AudioStreamInVoip, which share one descriptor  *)
(* of the MVS driver (mVoipFd) and two flags that say who uses it.  open   *)
(* and close come from the policy thread Binder, write and standby of the  *)
(* output from its playback thread Player, read and standby of the input   *)
(* from its record thread Recorder.  standby holds mVoipLock, the input's  *)
(* set() and the opens and closes hold mLock, and write() holds neither.   *)
(*                                                                         *)
(* The threads and when they call are AudioFlinger's and external, as is   *)
(* the driver: open and the ioctls may fail, unless DriverFails is FALSE.  *)
(***************************************************************************)
EXTENDS Integers, Sequences, FiniteSets

CONSTANTS DriverFails,  \* may open() and the ioctls of the driver fail?
          MaxVoipOps    \* operations called in all

Binder == "B"
Player == "P"
Recorder == "R"
VoipThreads == {Binder, Player, Recorder}
Free == "free"
NoFd == -1
Fds == 1..3

VARIABLES
    todo,               \* of each thread: the steps of its operation still to do
    mLock, mVoipLock,   \* who holds them
    mVoipFd,            \* the shared descriptor
    mVoipInActive, mVoipOutActive,
    mDirectOutrefCnt,   \* opens of the output
    outFd, mStandby,    \* mFd and mStandby of the output
    inOpen, inFd,       \* the input exists; its mFd
    mState,             \* of the input: "CLOSED", "OPENED", "STARTED"
    mSetupDevice,
    mMode, mMicMute,    \* of the hardware
    mvs,                \* open descriptors of the driver
    started,            \* AUDIO_START without AUDIO_STOP
    voipOps             \* operations called so far

voipLocks == <<mLock, mVoipLock>>
flags == <<mVoipInActive, mVoipOutActive>>
outVars == <<mDirectOutrefCnt, outFd, mStandby>>
inVars == <<inOpen, inFd, mState, mSetupDevice>>
phone == <<mMode, mMicMute>>
driver == <<mvs, started>>
voipVars == <<todo, voipLocks, mVoipFd, flags, outVars, inVars, phone, driver,
              voipOps>>

VoipInit ==
    /\ todo = [t \in VoipThreads |-> <<>>]
    /\ mLock = Free /\ mVoipLock = Free
    /\ mVoipFd = NoFd /\ mVoipInActive = FALSE /\ mVoipOutActive = FALSE
    /\ mDirectOutrefCnt = 0 /\ outFd = NoFd /\ mStandby = TRUE
    /\ inOpen = FALSE /\ inFd = NoFd /\ mState = "CLOSED" /\ mSetupDevice = FALSE
    /\ mMode = "NORMAL" /\ mMicMute = TRUE
    /\ mvs = {} /\ started = FALSE /\ voipOps = 0

Idle(t) == todo[t] = <<>>
At(t, step) == todo[t] # <<>> /\ Head(todo[t]) = step
Goto(t, steps) == todo' = [todo EXCEPT ![t] = steps \o Tail(@)]
Call(t, steps) ==
    /\ Idle(t) /\ voipOps < MaxVoipOps /\ voipOps' = voipOps + 1
    /\ todo' = [todo EXCEPT ![t] = steps]
Closed(fd) == mvs \ {fd}
NextFd == CHOOSE f \in Fds \ mvs : \A g \in Fds \ mvs : f <= g

-----------------------------------------------------------------------------
(* The operations: who calls them when, and the steps they are made of.    *)
openOutputStream == Call(Binder, <<"openOut", "createdOut">>)
closeOutputStream == mDirectOutrefCnt > 0 /\ Idle(Player) /\ Call(Binder, <<"closeOut">>)
openVoipInput == ~inOpen /\ Call(Binder, <<"lock", "in.set", "openIn", "createdIn">>)
closeVoipInput ==
    inOpen /\ Idle(Recorder) /\ Call(Binder, <<"closeIn", "in.standby", "deletedIn">>)
(* A stream's thread starts when the stream has been opened, and has ended *)
(* before it is closed.                                                    *)
Busy(step) == \E i \in DOMAIN todo[Binder] : todo[Binder][i] = step
OutThread == mDirectOutrefCnt > 0 /\ ~Busy("createdOut") /\ ~Busy("closeOut")
InThread == inOpen /\ ~Busy("createdIn") /\ ~Busy("deletedIn")
writeVoip ==
    /\ OutThread
    /\ Call(Player, IF mStandby THEN <<"out.fd">> ELSE <<"out.frame">>)
standbyOut == OutThread /\ Call(Player, <<"out.standby">>)
readVoip ==
    /\ InThread
    /\ Call(Recorder, IF mState = "CLOSED" \/ mVoipFd = NoFd
                 THEN <<"lock", "in.set", "reopened", "in.frame">>
                 ELSE <<"in.frame">>)
standbyIn == InThread /\ Call(Recorder, <<"in.standby">>)
setVoipMode ==
    /\ Call(Binder, <<>>) /\ mMode' \in {"NORMAL", "IN_CALL"} \ {mMode}
    /\ UNCHANGED mMicMute

VoipCall ==
    \/ /\ \/ openOutputStream \/ closeOutputStream \/ openVoipInput
          \/ closeVoipInput \/ writeVoip \/ standbyOut \/ readVoip \/ standbyIn
       /\ UNCHANGED <<voipLocks, mVoipFd, flags, outVars, inVars, phone, driver>>
    \/ setVoipMode
       /\ UNCHANGED <<voipLocks, mVoipFd, flags, outVars, inVars, driver>>

-----------------------------------------------------------------------------
(* setupDeviceforVoipCall: the mode without a lock, then the mute of the   *)
(* microphone under mLock.                                                 *)
SetupMode(t) ==
    \E on \in BOOLEAN :
      /\ At(t, IF on THEN "setup" ELSE "restore")
      /\ IF mMode = "IN_CALL" /\ ~on THEN UNCHANGED mMode /\ Goto(t, <<>>)
         ELSE /\ mMode' = IF on THEN "IN_COMMUNICATION" ELSE "NORMAL"
              /\ Goto(t, IF on THEN <<"unmute">> ELSE <<"mute">>)
      /\ UNCHANGED <<voipLocks, mVoipFd, flags, outVars, inVars, mMicMute,
                     driver, voipOps>>
SetupMic(t) ==
    /\ mLock = Free
    /\ \/ At(t, "unmute") /\ mMicMute' = FALSE
       \/ At(t, "mute") /\ mMicMute' = TRUE
    /\ Goto(t, <<>>)
    /\ UNCHANGED <<voipLocks, mVoipFd, flags, outVars, inVars, mMode, driver,
                   voipOps>>

Lock(t) ==
    /\ At(t, "lock") /\ mLock = Free /\ mLock' = t /\ Goto(t, <<>>)
    /\ UNCHANGED <<mVoipLock, mVoipFd, flags, outVars, inVars, phone, driver,
                   voipOps>>

Created ==
    /\ At(Binder, "createdOut") \/ At(Binder, "createdIn")
    /\ Goto(Binder, <<>>)
    /\ UNCHANGED <<voipLocks, mVoipFd, flags, outVars, inVars, phone, driver,
                   voipOps>>

-----------------------------------------------------------------------------
(* AudioStreamOutDirect.  set() only says that the output is in use; the   *)
(* descriptor is opened by the first write.                                *)
OpenOut ==
    /\ At(Binder, "openOut") /\ mLock = Free
    /\ mDirectOutrefCnt' = mDirectOutrefCnt + 1
    /\ IF mDirectOutrefCnt = 0
         THEN /\ outFd' = NoFd /\ mStandby' = TRUE /\ mVoipOutActive' = TRUE
              /\ Goto(Binder, <<"openedOut">>)
         ELSE Goto(Binder, <<>>) /\ UNCHANGED <<outFd, mStandby, mVoipOutActive>>
    /\ UNCHANGED <<voipLocks, mVoipFd, mVoipInActive, inVars, phone, driver,
                   voipOps>>
OpenedOut ==
    /\ At(Binder, "openedOut")
    /\ Goto(Binder, IF mVoipInActive THEN <<"setup">> ELSE <<>>)
    /\ UNCHANGED <<voipLocks, mVoipFd, flags, outVars, inVars, phone, driver,
                   voipOps>>

(* A set() that refuses the format, the rate or the channels of either     *)
(* stream returns before it has stored mHardware, and the delete that      *)
(* follows writes through it: mediaserver ends and starts anew, the kernel *)
(* having closed and stopped its driver.                                   *)
SetRefuses ==
    /\ \/ At(Binder, "openOut") /\ mLock = Free /\ mDirectOutrefCnt = 0
       \/ At(Binder, "in.set")
    /\ todo' = [t \in VoipThreads |-> <<>>]
    /\ mLock' = Free /\ mVoipLock' = Free
    /\ mVoipFd' = NoFd /\ mVoipInActive' = FALSE /\ mVoipOutActive' = FALSE
    /\ mDirectOutrefCnt' = 0 /\ outFd' = NoFd /\ mStandby' = TRUE
    /\ inOpen' = FALSE /\ inFd' = NoFd /\ mState' = "CLOSED" /\ mSetupDevice' = FALSE
    /\ mMode' = "NORMAL" /\ mMicMute' = TRUE /\ mvs' = {} /\ started' = FALSE
    /\ UNCHANGED voipOps

WriteFd(t) ==
    /\ At(t, "out.fd")
    /\ IF mVoipFd # NoFd THEN outFd' = mVoipFd /\ Goto(t, <<"out.active">>)
                         ELSE UNCHANGED outFd /\ Goto(t, <<"out.open">>)
    /\ UNCHANGED <<voipLocks, mVoipFd, flags, mDirectOutrefCnt, mStandby,
                   inVars, phone, driver, voipOps>>
WriteOpen(t) ==
    /\ At(t, "out.open")
    /\ \/ /\ mvs # Fds /\ mvs' = mvs \cup {NextFd}
          /\ outFd' = NextFd /\ mVoipFd' = NextFd /\ Goto(t, <<"out.start">>)
       \/ /\ DriverFails /\ Goto(t, <<"out.error">>)
          /\ UNCHANGED <<mvs, outFd, mVoipFd>>
    /\ UNCHANGED <<voipLocks, flags, mDirectOutrefCnt, mStandby, inVars, phone,
                   started, voipOps>>
(* The MVS mode and rate the sample rate asks for, then AUDIO_SET_CONFIG   *)
(* and AUDIO_START: an unsupported rate ends like a failed ioctl.          *)
Configured == IF DriverFails THEN BOOLEAN ELSE {TRUE}
WriteStart(t) ==
    /\ At(t, "out.start")
    /\ \E ok \in Configured :
         /\ started' = (started \/ ok)
         /\ Goto(t, IF ok THEN <<"out.active">> ELSE <<"out.error">>)
    /\ UNCHANGED <<voipLocks, mVoipFd, flags, outVars, inVars, phone, mvs,
                   voipOps>>
WriteActive(t) ==
    /\ At(t, "out.active") /\ mVoipOutActive' = TRUE
    /\ Goto(t, <<"out.device", "out.ready">>)
    /\ UNCHANGED <<voipLocks, mVoipFd, mVoipInActive, outVars, inVars, phone,
                   driver, voipOps>>
WriteDevice(t) ==
    /\ At(t, "out.device")
    /\ Goto(t, IF mVoipInActive THEN <<"setup">> ELSE <<>>)
    /\ UNCHANGED <<voipLocks, mVoipFd, flags, outVars, inVars, phone, driver,
                   voipOps>>
WriteReady(t) ==
    /\ At(t, "out.ready") /\ mStandby' = FALSE /\ Goto(t, <<"out.frame">>)
    /\ UNCHANGED <<voipLocks, mVoipFd, flags, mDirectOutrefCnt, outFd, inVars,
                   phone, driver, voipOps>>
(* A compressed frame of negative length takes the error exit.             *)
WriteFrame(t) ==
    /\ At(t, "out.frame")
    /\ \E malformed \in {FALSE, DriverFails} :
         Goto(t, IF malformed THEN <<"out.error">> ELSE <<>>)
    /\ UNCHANGED <<voipLocks, mVoipFd, flags, outVars, inVars, phone, driver,
                   voipOps>>
WriteError(t) ==
    /\ At(t, "out.error")
    /\ IF outFd = NoFd THEN UNCHANGED <<mvs, outFd, mVoipFd>>
       ELSE mvs' = Closed(outFd) /\ outFd' = NoFd /\ mVoipFd' = NoFd
    /\ Goto(t, <<>>)
    /\ UNCHANGED <<voipLocks, flags, mDirectOutrefCnt, mStandby, inVars, phone,
                   started, voipOps>>

OutAlwaysKeeps == TRUE                                              \* faulty variant
OutKeepsDriver == mVoipFd = NoFd \/ mVoipInActive
StandbyOut(t) ==
    /\ At(t, "out.standby") /\ mVoipLock = Free /\ mVoipLock' = t
    /\ mVoipOutActive' = FALSE
    /\ Goto(t, IF OutKeepsDriver THEN <<"out.inStandby">>
               ELSE <<"out.close", "restore", "out.inStandby">>)
    /\ UNCHANGED <<mLock, mVoipFd, mVoipInActive, outVars, inVars, phone,
                   driver, voipOps>>
(* Stops the shared descriptor and closes the stream's own.                *)
StandbyOutClose(t) ==
    /\ At(t, "out.close")
    /\ started' = FALSE /\ mvs' = Closed(outFd)
    /\ outFd' = NoFd /\ mVoipFd' = NoFd /\ Goto(t, <<>>)
    /\ UNCHANGED <<voipLocks, flags, mDirectOutrefCnt, mStandby, inVars, phone,
                   voipOps>>
StandbyOutEnd(t) ==
    /\ At(t, "out.inStandby") /\ mStandby' = TRUE /\ mVoipLock' = Free
    /\ Goto(t, <<>>)
    /\ UNCHANGED <<mLock, mVoipFd, flags, mDirectOutrefCnt, outFd, inVars,
                   phone, driver, voipOps>>

(* The destructor runs under mLock, and its standby needs mVoipLock, then  *)
(* mLock again when it restores the device.                                *)
CloseOut ==
    /\ At(Binder, "closeOut") /\ mLock = Free
    /\ mDirectOutrefCnt' = mDirectOutrefCnt - 1
    /\ IF mDirectOutrefCnt = 1
         THEN /\ mLock' = Binder /\ mVoipOutActive' = FALSE
              /\ Goto(Binder, <<"out.standby", "deletedOut">>)
         ELSE Goto(Binder, <<>>) /\ UNCHANGED <<mLock, mVoipOutActive>>
    /\ UNCHANGED <<mVoipLock, mVoipFd, mVoipInActive, outFd, mStandby, inVars,
                   phone, driver, voipOps>>
DeletedOut ==
    /\ At(Binder, "deletedOut") /\ mLock' = Free /\ Goto(Binder, <<>>)
    /\ UNCHANGED <<mVoipLock, mVoipFd, flags, outVars, inVars, phone, driver,
                   voipOps>>

-----------------------------------------------------------------------------
(* AudioStreamInVoip.  set() runs with mLock held.                         *)
SetFd(t) ==
    /\ At(t, "in.set")
    /\ IF mVoipFd # NoFd THEN inFd' = mVoipFd /\ Goto(t, <<"in.active">>)
                         ELSE UNCHANGED inFd /\ Goto(t, <<"in.open">>)
    /\ UNCHANGED <<voipLocks, mVoipFd, flags, outVars, inOpen, mState,
                   mSetupDevice, phone, driver, voipOps>>
SetOpen(t) ==
    /\ At(t, "in.open")
    /\ \/ /\ mvs # Fds /\ mvs' = mvs \cup {NextFd}
          /\ inFd' = NextFd /\ mVoipFd' = NextFd /\ Goto(t, <<"in.start">>)
       \/ /\ DriverFails /\ Goto(t, <<"in.error">>)
          /\ UNCHANGED <<mvs, inFd, mVoipFd>>
    /\ UNCHANGED <<voipLocks, flags, outVars, inOpen, mState, mSetupDevice,
                   phone, started, voipOps>>
SetStart(t) ==
    /\ At(t, "in.start")
    /\ \E ok \in Configured :
         /\ started' = (started \/ ok)
         /\ Goto(t, IF ok THEN <<"in.active">> ELSE <<"in.error">>)
    /\ UNCHANGED <<voipLocks, mVoipFd, flags, outVars, inVars, phone, mvs,
                   voipOps>>
SetActive(t) ==
    /\ At(t, "in.active") /\ mState' = "OPENED" /\ mVoipInActive' = TRUE
    /\ Goto(t, <<>>)
    /\ UNCHANGED <<voipLocks, mVoipFd, mVoipOutActive, outVars, inOpen, inFd,
                   mSetupDevice, phone, driver, voipOps>>
(* A failed set() of an open deletes the stream again, a failed one of     *)
(* read() returns -1; both after mLock is released.                        *)
SetError(t) ==
    /\ At(t, "in.error") /\ mLock' = Free
    /\ IF inFd = NoFd THEN UNCHANGED <<mvs, inFd, mVoipFd>>
       ELSE mvs' = Closed(inFd) /\ inFd' = NoFd /\ mVoipFd' = NoFd
    /\ todo' = [todo EXCEPT ![t] =
                  IF t = Binder THEN <<"in.delete", "in.standby", "deletedIn">>
                           ELSE <<>>]
    /\ UNCHANGED <<mVoipLock, flags, outVars, inOpen, mState, mSetupDevice,
                   phone, started, voipOps>>

OpenIn ==
    /\ At(Binder, "openIn") /\ mLock' = Free /\ inOpen' = TRUE
    /\ Goto(Binder, <<"openedIn">>)
    /\ UNCHANGED <<mVoipLock, mVoipFd, flags, outVars, inFd, mState,
                   mSetupDevice, phone, driver, voipOps>>
OpenedIn ==
    /\ At(Binder, "openedIn")
    /\ IF mVoipOutActive THEN mSetupDevice' = TRUE /\ Goto(Binder, <<"setup">>)
                         ELSE UNCHANGED mSetupDevice /\ Goto(Binder, <<>>)
    /\ UNCHANGED <<voipLocks, mVoipFd, flags, outVars, inOpen, inFd, mState,
                   phone, driver, voipOps>>

Reopened(t) ==
    /\ At(t, "reopened") /\ mLock' = Free /\ mState' = "STARTED"
    /\ Goto(t, <<>>)
    /\ UNCHANGED <<mVoipLock, mVoipFd, flags, outVars, inOpen, inFd,
                   mSetupDevice, phone, driver, voipOps>>
(* The device is set up once; then frames are read from the stream's own   *)
(* descriptor.                                                             *)
ReadFrame(t) ==
    /\ At(t, "in.frame") /\ mSetupDevice' = TRUE
    /\ Goto(t, IF mSetupDevice THEN <<>> ELSE <<"setup">>)
    /\ UNCHANGED <<voipLocks, mVoipFd, flags, outVars, inOpen, inFd, mState,
                   phone, driver, voipOps>>

StandbyIn(t) ==
    /\ At(t, "in.standby") /\ mVoipLock = Free /\ mVoipLock' = t
    /\ mVoipInActive' = FALSE
    /\ Goto(t, IF mState = "CLOSED" \/ mVoipOutActive THEN <<"in.leave">>
               ELSE IF mVoipFd = NoFd THEN <<"in.closed", "in.leave">>
               ELSE <<"in.close", "restore", "in.closed", "in.leave">>)
    /\ UNCHANGED <<mLock, mVoipFd, mVoipOutActive, outVars, inVars, phone,
                   driver, voipOps>>
StandbyInClose(t) ==
    /\ At(t, "in.close")
    /\ started' = FALSE /\ mvs' = Closed(inFd)
    /\ inFd' = NoFd /\ mVoipFd' = NoFd /\ mSetupDevice' = FALSE /\ Goto(t, <<>>)
    /\ UNCHANGED <<voipLocks, flags, outVars, inOpen, mState, phone, voipOps>>
StandbyInEnd(t) ==
    /\ \/ At(t, "in.closed") /\ mState' = "CLOSED" /\ UNCHANGED mVoipLock
       \/ At(t, "in.leave") /\ mVoipLock' = Free /\ UNCHANGED mState
    /\ Goto(t, <<>>)
    /\ UNCHANGED <<mLock, mVoipFd, flags, outVars, inOpen, inFd, mSetupDevice,
                   phone, driver, voipOps>>

CloseIn ==
    /\ \/ At(Binder, "closeIn") /\ mLock = Free
       \/ At(Binder, "in.delete")
    /\ mVoipInActive' = FALSE /\ Goto(Binder, <<>>)
    /\ UNCHANGED <<voipLocks, mVoipFd, mVoipOutActive, outVars, inVars, phone,
                   driver, voipOps>>
DeletedIn ==
    /\ At(Binder, "deletedIn") /\ mLock = Free
    /\ inOpen' = FALSE /\ inFd' = NoFd /\ mState' = "CLOSED"
    /\ mSetupDevice' = FALSE /\ Goto(Binder, <<>>)
    /\ UNCHANGED <<voipLocks, mVoipFd, flags, outVars, phone, driver, voipOps>>

OutStep(t) ==
    \/ WriteFd(t) \/ WriteOpen(t) \/ WriteStart(t) \/ WriteActive(t)
    \/ WriteDevice(t) \/ WriteReady(t) \/ WriteFrame(t) \/ WriteError(t)
    \/ StandbyOut(t) \/ StandbyOutClose(t) \/ StandbyOutEnd(t)
InStep(t) ==
    \/ SetFd(t) \/ SetOpen(t) \/ SetStart(t) \/ SetActive(t) \/ SetError(t)
    \/ Reopened(t) \/ ReadFrame(t)
    \/ StandbyIn(t) \/ StandbyInClose(t) \/ StandbyInEnd(t)
VoipNext ==
    \/ VoipCall
    \/ \E t \in VoipThreads :
         SetupMode(t) \/ SetupMic(t) \/ Lock(t) \/ OutStep(t) \/ InStep(t)
    \/ Created \/ SetRefuses \/ OpenOut \/ OpenedOut \/ CloseOut \/ DeletedOut
    \/ OpenIn \/ OpenedIn \/ CloseIn \/ DeletedIn

VoipSpec == VoipInit /\ [][VoipNext]_voipVars

Quiet == \A t \in VoipThreads : Idle(t)

(* However the streams' threads interleave, and although write() takes no  *)
(* lock: once neither stream is in use and no operation is under way, the  *)
(* shared descriptor has been given up, so the next stream to be used      *)
(* opens and starts the driver again.                                      *)
MvsReleased ==
    Quiet /\ ~mVoipInActive /\ ~mVoipOutActive => mVoipFd = NoFd

(* The driver itself is stopped by then.                                   *)
DriverStopped ==
    Quiet /\ ~mVoipInActive /\ ~mVoipOutActive => mvs = {} /\ ~started

(* While frames are read the microphone is open.                           *)
MicOpen == At(Recorder, "in.frame") /\ mSetupDevice => ~mMicMute

(* No thread waits for a lock it holds, or for one whose holder waits for  *)
(* the lock it holds itself.                                               *)
NoDeadlock ==
    \A t \in VoipThreads :
      (At(t, "mute") \/ At(t, "unmute")) /\ mLock # Free =>
        /\ mLock # t
        /\ ~(mVoipLock = t /\ (At(mLock, "out.standby") \/ At(mLock, "in.standby")))
=============================================================================
