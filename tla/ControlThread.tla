----------------------------- MODULE ControlThread -----------------------------
(***************************************************************************)
(* The 3A thread of the version 2 emulated camera,                         *)
(* EmulatedFakeCamera2::ControlThread: auto-focus and auto-exposure.       *)
(*                                                                         *)
(* The framework triggers actions and hears of changes of state, the       *)
(* configure thread hands over what requests ask for, and the control      *)
(* thread goes through a pass every CycleDelay: it reads what is new,      *)
(* moves the two algorithms on, and sleeps.  Each takes mInputMutex for    *)
(* what they share, several times in a pass; a pass works on copies that   *)
(* may be out of date when they are written back.                          *)
(*                                                                         *)
(* A notification takes the camera's mMutex, with mInputMutex held; a      *)
(* trigger comes with mMutex held and takes mInputMutex.                   *)
(*                                                                         *)
(* Times are in units of which a cycle has CycleDelay.  Exposure times are *)
(* data and left out, as are effect, scene and white balance modes.        *)
(***************************************************************************)
EXTENDS Integers

CONSTANTS
    AfModes, AeModes,     \* the modes that requests ask for
    CycleDelay,           \* kControlCycleDelay
    AfDurations, AeDurations, PrecaptureDurations,   \* of scans
    MaxInputs,            \* bound: requests processed and actions triggered
    CallsApart            \* assumption: no call of triggerAction while a state is updated

AutoModes       == {"AUTO", "MACRO"}
ContinuousModes == {"CONTINUOUS_VIDEO", "CONTINUOUS_PICTURE"}
FixedModes      == {"OFF", "EDOF"}
AllAfModes      == AutoModes \cup ContinuousModes \cup FixedModes
AllAeModes      == {"OFF", "ON"}     \* ON stands for all modes but OFF

ASSUME ControlAssumption ==
    /\ AfModes \subseteq AllAfModes /\ AeModes \subseteq AllAeModes
    /\ CycleDelay \in Nat \ {0} /\ MaxInputs \in Nat /\ CallsApart \in BOOLEAN
    /\ AfDurations \subseteq Nat \ {0} /\ AeDurations \subseteq Nat \ {0}
    /\ PrecaptureDurations \subseteq Nat \ {0}

LockedStates == {"FOCUSED_LOCKED", "NOT_FOCUSED_LOCKED"}
ScanStates   == {"ACTIVE_SCAN", "PASSIVE_SCAN"}
AfStates     == LockedStates \cup ScanStates \cup {"INACTIVE", "PASSIVE_FOCUSED"}
AeStates     == {"INACTIVE", "SEARCHING", "CONVERGED", "LOCKED", "PRECAPTURE"}

VARIABLES
    mMutex, mInputMutex,                           \* who holds them from step to step
    mStartAf, mCancelAf, mStartPrecapture,         \* triggers not seen yet
    mAfMode, mAfModeChange, mAeMode, mAeLock,      \* from the latest request
    mAfTriggerId, mPrecaptureTriggerId,
    mAfState, mAeState,
    mAfScanDuration, mAeScanDuration, mLockAfterPassiveScan,   \* the thread's own
    controlPc, pass, nextSleep,                    \* the thread, its copies, its sleep
    trigger,                                       \* a call of triggerAction under way
    inputs,                                        \* requests and triggers so far
    afSeen,                \* the last notification about focus that the framework has had
    lastAf,                \* the last word on focus: a trigger, a cancel, or a change of mode
    precaptureDue          \* a precapture triggered with AE on, and AE not turned off since

triggerVars == <<mStartAf, mCancelAf, mStartPrecapture, mAfTriggerId, mPrecaptureTriggerId>>
requestVars == <<mAfMode, mAfModeChange, mAeMode, mAeLock>>
scanVars    == <<mAfScanDuration, mAeScanDuration, mLockAfterPassiveScan>>
callVars    == <<mMutex, trigger, inputs, lastAf, precaptureDue>>
vars == <<mInputMutex, triggerVars, requestVars, mAfState, mAeState, scanVars, controlPc,
          pass, nextSleep, callVars, afSeen>>

Actions == {"AUTOFOCUS", "CANCEL_AUTOFOCUS", "PRECAPTURE_METERING"}
NoTrigger == "none"
Ids == 0..MaxInputs

\* What a pass reads under mInputMutex. Of mAfState there need be no copy: only the
\* thread itself writes it.
Passes == [afTriggered : BOOLEAN, afReset : BOOLEAN, afMode : AllAfModes, afTriggerId : Ids,
           precaptureTriggered : BOOLEAN, aeState : AeStates, aeMode : AllAeModes,
           aeLock : BOOLEAN, precaptureTriggerId : Ids]

NoPass == [afTriggered |-> FALSE, afReset |-> FALSE, afMode |-> "AUTO", afTriggerId |-> 0,
           precaptureTriggered |-> FALSE, aeState |-> "INACTIVE", aeMode |-> "ON",
           aeLock |-> FALSE, precaptureTriggerId |-> 0]

TypeOK ==
    /\ mMutex \in {"none", "framework"} /\ mInputMutex \in {"none", "control"}
    /\ mStartAf \in BOOLEAN /\ mCancelAf \in BOOLEAN /\ mStartPrecapture \in BOOLEAN
    /\ mAfMode \in AllAfModes /\ mAfModeChange \in BOOLEAN
    /\ mAeMode \in AllAeModes /\ mAeLock \in BOOLEAN
    /\ mAfTriggerId \in Ids /\ mPrecaptureTriggerId \in Ids
    /\ mAfState \in AfStates /\ mAeState \in AeStates
    /\ mAfScanDuration \in Int /\ mAeScanDuration \in Int
    /\ mLockAfterPassiveScan \in BOOLEAN
    /\ controlPc \in {"read", "reset", "notifyReset", "af", "notifyAf", "ae", "notifyAe",
                      "sleep"}
    /\ pass \in Passes /\ nextSleep \in 1..CycleDelay
    /\ trigger \in Actions \cup {NoTrigger} /\ inputs \in Ids
    /\ afSeen \in [state : AfStates, id : Ids]
    /\ lastAf \in {"none", "trigger", "cancel"} /\ precaptureDue \in BOOLEAN

\* readyToRun, after which connectCamera returns. It leaves mAeLock and
\* mLockAfterPassiveScan as they were allocated; the durations are not used before they
\* are set.
Init ==
    /\ mMutex = "none" /\ mInputMutex = "none"
    /\ mStartAf = FALSE /\ mCancelAf = FALSE /\ mStartPrecapture = FALSE
    /\ mAfMode = "AUTO" /\ mAfModeChange = FALSE /\ mAeMode = "ON" /\ mAeLock \in BOOLEAN
    /\ mAfTriggerId = 0 /\ mPrecaptureTriggerId = 0
    /\ mAfState = "INACTIVE" /\ mAeState = "INACTIVE"
    /\ mAfScanDuration = 0 /\ mAeScanDuration = 0 /\ mLockAfterPassiveScan \in BOOLEAN
    /\ controlPc = "read"
    /\ pass = NoPass /\ nextSleep = CycleDelay
    /\ trigger = NoTrigger /\ inputs = 0
    /\ afSeen = [state |-> "INACTIVE", id |-> 0]
    /\ lastAf = "none" /\ precaptureDue = FALSE

ControlMoves(from, to) == controlPc = from /\ controlPc' = to

-----------------------------------------------------------------------------
(* The configure thread.                                                   *)

\* processRequest: of a request with all of 3A off.
ControlOff ==
    /\ mAfMode' = "OFF" /\ mAfModeChange' = TRUE
    /\ mStartAf' = FALSE /\ mCancelAf' = TRUE /\ lastAf' = "cancel"
    /\ mAeMode' = "OFF" /\ mAeLock' = TRUE /\ mAeState' = "INACTIVE"
    /\ precaptureDue' = FALSE

\* ... and of any other.
AfModeUnmarked(mode) ==
    /\ mAfMode' = mode /\ mAfModeChange' = mAfModeChange
    /\ mStartAf' = FALSE /\ mCancelAf' = FALSE /\ lastAf' = "none"

NewAfMode(mode) ==
    /\ mAfMode' = mode /\ mAfModeChange' = TRUE
    /\ mStartAf' = FALSE /\ mCancelAf' = FALSE /\ lastAf' = "none"

ControlOn(afMode, aeMode, aeLock) ==
    /\ IF afMode # mAfMode
       THEN NewAfMode(afMode)
       ELSE UNCHANGED <<mAfMode, mAfModeChange, mStartAf, mCancelAf, lastAf>>
    /\ mAeMode' = aeMode /\ precaptureDue' = (precaptureDue /\ aeMode # "OFF")
    /\ mAeState' = IF mAeLock /\ ~aeLock THEN "INACTIVE" ELSE mAeState
    /\ mAeLock' = aeLock

ProcessRequest ==
    /\ inputs < MaxInputs /\ inputs' = inputs + 1
    /\ mInputMutex = "none"
    /\ \/ ControlOff
       \/ \E afMode \in AfModes, aeMode \in AeModes, aeLock \in BOOLEAN :
              ControlOn(afMode, aeMode, aeLock)
    /\ UNCHANGED <<mMutex, mInputMutex, mStartPrecapture, mAfTriggerId, mPrecaptureTriggerId,
                   mAfState, scanVars, controlPc, pass, nextSleep, trigger, afSeen>>

-----------------------------------------------------------------------------
(* The framework.  The number of a trigger is the number of the input.     *)

BeginTrigger(action) ==
    /\ trigger = NoTrigger /\ trigger' = action
    /\ inputs < MaxInputs /\ inputs' = inputs + 1
    /\ mMutex = "none" /\ mMutex' = "framework"
    /\ CallsApart => mInputMutex = "none"
    /\ UNCHANGED <<mInputMutex, triggerVars, requestVars, mAfState, mAeState, scanVars,
                   controlPc, pass, nextSleep, lastAf, precaptureDue, afSeen>>

StartAf ==
    /\ mAfTriggerId' = inputs /\ mStartAf' = TRUE /\ mCancelAf' = FALSE
    /\ lastAf' = "trigger"
    /\ UNCHANGED <<mStartPrecapture, mPrecaptureTriggerId, precaptureDue>>

CancelAf ==
    /\ mAfTriggerId' = inputs /\ mStartAf' = FALSE /\ mCancelAf' = TRUE
    /\ lastAf' = "cancel"
    /\ UNCHANGED <<mStartPrecapture, mPrecaptureTriggerId, precaptureDue>>

StartPrecapture ==
    /\ mPrecaptureTriggerId' = inputs /\ mStartPrecapture' = TRUE
    /\ precaptureDue' = (mAeMode # "OFF")
    /\ UNCHANGED <<mAfTriggerId, mStartAf, mCancelAf, lastAf>>

EndTrigger ==
    /\ mInputMutex = "none"
    /\ \/ trigger = "AUTOFOCUS" /\ StartAf
       \/ trigger = "CANCEL_AUTOFOCUS" /\ CancelAf
       \/ trigger = "PRECAPTURE_METERING" /\ StartPrecapture
    /\ trigger' = NoTrigger /\ mMutex' = "none"
    /\ UNCHANGED <<mInputMutex, requestVars, mAfState, mAeState, scanVars, controlPc, pass,
                   nextSleep, inputs, afSeen>>

-----------------------------------------------------------------------------
(* The control thread.                                                     *)

\* The start of threadLoop. A trigger hides a cancel.
ReadInputs ==
    /\ mInputMutex = "none"
    /\ LET cancelled == mCancelAf /\ ~mStartAf
       IN  /\ pass' = [afTriggered |-> mStartAf, afReset |-> cancelled \/ mAfModeChange,
                       afMode |-> mAfMode, afTriggerId |-> mAfTriggerId,
                       precaptureTriggered |-> mStartPrecapture, aeState |-> mAeState,
                       aeMode |-> mAeMode, aeLock |-> mAeLock,
                       precaptureTriggerId |-> mPrecaptureTriggerId]
           /\ mCancelAf' = (mCancelAf /\ mStartAf)
           /\ ControlMoves("read", IF cancelled \/ mAfModeChange THEN "reset" ELSE "af")
    /\ mStartAf' = FALSE /\ mStartPrecapture' = FALSE /\ mAfModeChange' = FALSE
    /\ UNCHANGED <<mInputMutex, mAfTriggerId, mPrecaptureTriggerId, mAfMode, mAeMode, mAeLock,
                   mAfState, mAeState, scanVars, nextSleep, callVars, afSeen>>

\* updateAfState and updateAeState: with a change they keep mInputMutex and notify.
CanUpdate == mInputMutex = "none" /\ (CallsApart => mMutex = "none")

UpdateAfState(state, from, notify, next) ==
    /\ CanUpdate
    /\ mAfState' = state
    /\ ControlMoves(from, IF mAfState # state THEN notify ELSE next)
    /\ mInputMutex' = IF mAfState # state THEN "control" ELSE "none"

KeepLockAfterScan == mLockAfterPassiveScan
NoLockAfterScan == FALSE

\* Cancelled, or a change of mode.
ResetAf ==
    /\ UpdateAfState("INACTIVE", "reset", "notifyReset", "af")
    /\ mAfScanDuration' = 0 /\ mLockAfterPassiveScan' = NoLockAfterScan
    /\ UNCHANGED <<triggerVars, requestVars, mAeState, mAeScanDuration, pass, nextSleep,
                   callVars, afSeen>>

\* sendNotification, with mInputMutex held.
NotifyAf(from, next) ==
    /\ ControlMoves(from, next)
    /\ mMutex = "none" /\ mInputMutex' = "none"
    /\ afSeen' = [state |-> mAfState, id |-> pass.afTriggerId]
    /\ UNCHANGED <<triggerVars, requestVars, mAfState, mAeState, scanVars, pass, nextSleep,
                   callVars>>

\* The algorithm for focus, as functions of its state, the rest of its scan and whether it
\* locks at the end of a passive scan; d and locks are what rand() decides.
Af == [state |-> mAfState, scan |-> mAfScanDuration, lock |-> mLockAfterPassiveScan]

TriggerUnlessLocked(af, mode, d) ==
    IF mode \in AutoModes /\ af.state = "INACTIVE"
        THEN [af EXCEPT !.state = "ACTIVE_SCAN", !.scan = d]
    ELSE af

processAfTrigger(af, mode, d) ==
    IF mode \in AutoModes /\ af.state \in {"INACTIVE"} \cup LockedStates
        THEN [af EXCEPT !.state = "ACTIVE_SCAN", !.scan = d]
    ELSE IF mode = "CONTINUOUS_PICTURE" /\ af.state = "PASSIVE_SCAN"
        THEN [af EXCEPT !.lock = TRUE]
    ELSE IF mode \in ContinuousModes /\ af.state \in {"INACTIVE", "PASSIVE_SCAN"}
        THEN [af EXCEPT !.state = "NOT_FOCUSED_LOCKED"]
    ELSE IF mode \in ContinuousModes /\ af.state = "PASSIVE_FOCUSED"
        THEN [af EXCEPT !.state = "FOCUSED_LOCKED"]
    ELSE af

\* kContinuousAfStartRate, "once every 5 seconds", comes out as 2 * 10^16 for a
\* probability: a scan starts whenever one may.
maybeStartAfScan(af, mode, d) ==
    IF mode \in ContinuousModes /\ af.state \in {"INACTIVE", "PASSIVE_FOCUSED"}
    THEN [af EXCEPT !.state = "PASSIVE_SCAN", !.scan = d]
    ELSE af

ScanEnds(af, mode) ==
    IF mode \in AutoModes THEN {[af EXCEPT !.state = s] : s \in LockedStates}
    ELSE IF mode = "CONTINUOUS_PICTURE" /\ af.lock
        THEN {[af EXCEPT !.state = "FOCUSED_LOCKED", !.lock = FALSE]}
    ELSE IF mode \in ContinuousModes THEN {[af EXCEPT !.state = "PASSIVE_FOCUSED"]}
    ELSE {af}

Scanning(af) == af.state \in ScanStates
updateAfScan(af, mode) == IF Scanning(af) /\ af.scan <= 0 THEN ScanEnds(af, mode) ELSE {af}

ShorterOrNone(sleep, scan) == IF scan <= sleep THEN scan ELSE sleep
Shorter(sleep, scan) == IF scan > 0 /\ scan <= sleep THEN scan ELSE sleep

UpdateAf ==
    \E d \in AfDurations :
        LET triggered == IF pass.afTriggered THEN processAfTrigger(Af, pass.afMode, d) ELSE Af
            started   == maybeStartAfScan(triggered, pass.afMode, d)
        IN  /\ \E af \in updateAfScan(started, pass.afMode) :
                   /\ UpdateAfState(af.state, "af", "notifyAf", "ae")
                   /\ mAfScanDuration' = af.scan /\ mLockAfterPassiveScan' = af.lock
            /\ nextSleep' = IF Scanning(started) THEN Shorter(nextSleep, started.scan)
                                                 ELSE nextSleep
            /\ UNCHANGED <<triggerVars, requestVars, mAeState, mAeScanDuration, pass,
                           callVars, afSeen>>

\* The algorithm for exposure, likewise.
Ae == [state |-> pass.aeState, scan |-> mAeScanDuration]

processPrecaptureTrigger(ae, d) ==
    IF pass.precaptureTriggered /\ pass.aeMode # "OFF"
    THEN [state |-> "PRECAPTURE", scan |-> d]
    ELSE ae

MayStart(ae) ==
    ~pass.aeLock /\ pass.aeMode # "OFF" /\ ae.state \in {"INACTIVE", "CONVERGED"}

AeScanning(ae) == ae.state \in {"SEARCHING", "PRECAPTURE"}

LockAtOnce(ae) == pass.aeLock
LocksNow(ae) == pass.aeLock /\ ae.state # "PRECAPTURE"

updateAeScan(ae) ==
    IF LocksNow(ae) THEN [state |-> "LOCKED", scan |-> 0]
    ELSE IF AeScanning(ae) /\ ae.scan <= 0
        THEN [ae EXCEPT !.state = IF pass.aeLock THEN "LOCKED" ELSE "CONVERGED"]
    ELSE ae

\* With starts, maybeStartAeScan starts a scan.
UpdateAe(starts) ==
    \E d \in AeDurations, p \in PrecaptureDurations :
        LET triggered == processPrecaptureTrigger(Ae, p)
            started   == IF starts THEN [state |-> "SEARCHING", scan |-> d] ELSE triggered
            ae        == updateAeScan(started)
        IN  /\ starts => MayStart(triggered)
            /\ CanUpdate
            /\ mAeState' = ae.state
            /\ ControlMoves("ae", IF mAeState # ae.state THEN "notifyAe" ELSE "sleep")
            /\ mInputMutex' = IF mAeState # ae.state THEN "control" ELSE "none"
            /\ mAeScanDuration' = ae.scan
            /\ nextSleep' = IF AeScanning(started) /\ ~LocksNow(started)
                            THEN Shorter(nextSleep, started.scan) ELSE nextSleep
            /\ UNCHANGED <<triggerVars, requestVars, mAfState, mAfScanDuration,
                           mLockAfterPassiveScan, pass, callVars, afSeen>>

NotifyAe ==
    /\ ControlMoves("notifyAe", "sleep")
    /\ mMutex = "none" /\ mInputMutex' = "none"
    /\ precaptureDue' = (precaptureDue /\ ~(/\ mAeState \in {"CONVERGED", "LOCKED"}
                                            /\ pass.precaptureTriggerId = mPrecaptureTriggerId))
    /\ UNCHANGED <<triggerVars, requestVars, mAfState, mAeState, scanVars, pass, nextSleep,
                   mMutex, trigger, inputs, lastAf, afSeen>>

Rest(scan) == IF scan > 0 THEN scan - nextSleep ELSE scan

\* The end of a pass; its copies are gone.
Sleep ==
    /\ ControlMoves("sleep", "read")
    /\ mAfScanDuration' = Rest(mAfScanDuration) /\ mAeScanDuration' = Rest(mAeScanDuration)
    /\ pass' = NoPass /\ nextSleep' = CycleDelay
    /\ UNCHANGED <<mInputMutex, triggerVars, requestVars, mAfState, mAeState,
                   mLockAfterPassiveScan, callVars, afSeen>>

Control ==
    \/ ReadInputs \/ ResetAf \/ NotifyAf("notifyReset", "af")
    \/ UpdateAf \/ NotifyAf("notifyAf", "ae")
    \/ (\E starts \in BOOLEAN : UpdateAe(starts)) \/ NotifyAe
    \/ Sleep

Next == ProcessRequest \/ (\E action \in Actions : BeginTrigger(action)) \/ EndTrigger \/ Control

\* The thread runs, a call under way goes on, and a scan that may start at every pass with
\* the same probability starts at last.
Fairness == WF_vars(Control) /\ WF_vars(EndTrigger) /\ SF_vars(UpdateAe(TRUE))

Spec == Init /\ [][Next]_vars /\ Fairness

-----------------------------------------------------------------------------
(* Properties.                                                             *)

\* The tables of the focus algorithm are complete: a pass never comes to them with a mode
\* and a state that they call unexpected, whatever requests change in the middle of one.
Expected(mode) ==
    IF mode \in AutoModes THEN {"INACTIVE", "ACTIVE_SCAN"} \cup LockedStates
    ELSE IF mode \in ContinuousModes
        THEN {"INACTIVE", "PASSIVE_SCAN", "PASSIVE_FOCUSED"} \cup LockedStates
    ELSE {"INACTIVE"}
TablesCover == controlPc = "af" => mAfState \in Expected(pass.afMode)

\* Focus is locked only because the framework has asked for it since it last cancelled and
\* since the mode last changed, but for the time that the thread takes to hear of that.
LockedByTrigger ==
    mAfState \in LockedStates
        => lastAf = "trigger" \/ mCancelAf \/ mAfModeChange \/ controlPc = "reset"

\* In the modes without continuous focus a trigger leads to a lock, and the framework
\* hears of it with the number of the trigger: even if the one before was still being
\* worked on, or had just been answered. (In the continuous modes a lock that is there
\* stays, and nothing is said.)
FocusAsked(id) == lastAf = "trigger" /\ mAfTriggerId = id /\ mAfMode \in AutoModes
AutoFocusAnswered ==
    \A id \in 1..MaxInputs :
        FocusAsked(id) ~> ~FocusAsked(id) \/ (afSeen.id = id /\ afSeen.state \in LockedStates)

\* A precapture that is triggered with AE on ends: the framework hears of a state of
\* exposure that is converged or locked, with the trigger's number, whatever locks and
\* unlocks come between.
PrecaptureAnswered == precaptureDue ~> ~precaptureDue
=============================================================================
