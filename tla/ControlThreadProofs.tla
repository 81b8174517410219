-------------------------- MODULE ControlThreadProofs --------------------------
(***************************************************************************)
(* Proofs about ControlThread: the types, that the tables of the focus     *)
(* algorithm cover what a pass comes to them with, and that focus is       *)
(* locked only when it has been asked for.                                 *)
(*                                                                         *)
(* A pass works on the mode it has read.  The argument is that this mode   *)
(* is the latest one, or else a change of mode is still to be seen, and    *)
(* that what locks - a trigger read, a scan for one, a lock promised for   *)
(* the end of a passive scan - has each been asked for, or else a cancel   *)
(* or a change of mode is still to be seen.                                *)
(***************************************************************************)
EXTENDS ControlThread, TLAPS

\* The state of the focus algorithm.
AfRecords == [state : AfStates, scan : Int, lock : BOOLEAN]

InPass == controlPc # "read"

ModeKnown == InPass => pass.afMode = mAfMode \/ mAfModeChange

Covered ==
    /\ controlPc = "read" => mAfState \in Expected(mAfMode) \/ mAfModeChange
    /\ controlPc = "notifyReset" => mAfState = "INACTIVE"
    /\ controlPc \in {"af", "notifyAf", "ae", "notifyAe", "sleep"} =>
           mAfState \in Expected(pass.afMode)

\* Triggered, or the end of it not yet seen.
Asked == lastAf = "trigger" \/ mCancelAf \/ mAfModeChange

ToLock == LockedStates \cup {"ACTIVE_SCAN"}

Locks ==
    /\ mStartAf => lastAf = "trigger"
    /\ InPass /\ pass.afTriggered => Asked
    /\ mAfState \in ToLock => Asked \/ controlPc = "reset"
    /\ mLockAfterPassiveScan /\ mAfMode = "CONTINUOUS_PICTURE" => Asked \/ controlPc = "reset"

IInv == TypeOK /\ ModeKnown /\ Covered /\ Locks

-----------------------------------------------------------------------------
(* The focus algorithm.                                                    *)

\* A trigger keeps to the table of its mode.
LEMMA TriggerFits ==
    ASSUME NEW af \in AfRecords, NEW mode \in AllAfModes, NEW d \in Int
    PROVE  LET p == processAfTrigger(af, mode, d)
           IN  p \in AfRecords /\ (af.state \in Expected(mode) => p.state \in Expected(mode))
BY DEF processAfTrigger, AfRecords, Expected, AfStates, LockedStates, ScanStates, AllAfModes,
       AutoModes, ContinuousModes, FixedModes

\* The start of a passive scan neither locks nor promises a lock.
LEMMA StartFits ==
    ASSUME NEW af \in AfRecords, NEW mode \in AllAfModes, NEW d \in Int
    PROVE  LET s == maybeStartAfScan(af, mode, d)
           IN  /\ s \in AfRecords
               /\ af.state \in Expected(mode) => s.state \in Expected(mode)
               /\ s.state \in ToLock => af.state \in ToLock
               /\ s.lock = af.lock
BY DEF maybeStartAfScan, AfRecords, Expected, AfStates, LockedStates, ScanStates, AllAfModes,
       AutoModes, ContinuousModes, FixedModes, ToLock

\* The end of a scan locks what was to be locked.
LEMMA ScanFits ==
    ASSUME NEW af \in AfRecords, NEW mode \in AllAfModes, af.state \in Expected(mode),
           NEW r \in updateAfScan(af, mode)
    PROVE  /\ r \in AfRecords /\ r.state \in Expected(mode)
           /\ r.lock => af.lock
           /\ r.state \in ToLock => af.state \in ToLock \/ (mode = "CONTINUOUS_PICTURE" /\ af.lock)
<1>1. CASE r = af
    BY <1>1
<1>2. CASE r # af
    <2>1. Scanning(af) /\ r \in ScanEnds(af, mode)
        BY <1>2 DEF updateAfScan
    <2>2. CASE mode \in AutoModes
        <3>1. PICK s \in LockedStates : r = [af EXCEPT !.state = s]
            BY <2>1, <2>2 DEF ScanEnds
        <3>2. af.state \in ToLock
            BY <2>1, <2>2 DEF Scanning, ScanStates, Expected, AutoModes, ToLock
        <3> QED BY <3>1, <3>2, <2>2 DEF AfRecords, AfStates, Expected
    <2>3. CASE mode = "CONTINUOUS_PICTURE" /\ af.lock
        BY <2>1, <2>3 DEF ScanEnds, AfRecords, AfStates, LockedStates, Expected, AutoModes,
                          ContinuousModes, ToLock
    <2>4. CASE mode \in ContinuousModes /\ ~(mode = "CONTINUOUS_PICTURE" /\ af.lock)
        <3>1. r = [af EXCEPT !.state = "PASSIVE_FOCUSED"]
            BY <2>1, <2>4 DEF ScanEnds, AutoModes, ContinuousModes
        <3>2. mode \notin AutoModes
            BY <2>4 DEF AutoModes, ContinuousModes
        <3> QED BY <3>1, <3>2, <2>4 DEF AfRecords, AfStates, Expected, ToLock, LockedStates
    <2>5. CASE mode \in FixedModes
        BY <2>1, <2>5, <1>2 DEF ScanEnds, AutoModes, ContinuousModes, FixedModes
    <2> QED BY <2>2, <2>3, <2>4, <2>5 DEF AllAfModes
<1> QED BY <1>1, <1>2

-----------------------------------------------------------------------------
(* Types.                                                                  *)

LEMMA AfTyped == TypeOK => Af \in AfRecords /\ pass.afMode \in AllAfModes
BY DEF TypeOK, Af, AfRecords, Passes

LEMMA ShorterFits ==
    ASSUME NEW sleep \in 1..CycleDelay, NEW scan \in Int
    PROVE  Shorter(sleep, scan) \in 1..CycleDelay
BY ControlAssumption DEF Shorter

\* What a step of UpdateAf does to the state of the focus algorithm.
LEMMA UpdateAfResult ==
    ASSUME TypeOK, mAfState \in Expected(pass.afMode), UpdateAf
    PROVE  /\ mAfState' \in AfStates /\ mAfState' \in Expected(pass.afMode)
           /\ mAfScanDuration' \in Int /\ mLockAfterPassiveScan' \in BOOLEAN
           /\ nextSleep' \in 1..CycleDelay
           /\ mLockAfterPassiveScan' => mLockAfterPassiveScan \/ pass.afTriggered
           /\ mAfState' \in ToLock =>
                  \/ mAfState \in ToLock \/ pass.afTriggered
                  \/ mLockAfterPassiveScan /\ pass.afMode = "CONTINUOUS_PICTURE"
<1> DEFINE mode == pass.afMode
           triggered(d) == IF pass.afTriggered THEN processAfTrigger(Af, mode, d) ELSE Af
           started(d) == maybeStartAfScan(triggered(d), mode, d)
<1>1. PICK d \in AfDurations :
          /\ \E af \in updateAfScan(started(d), mode) :
                 mAfState' = af.state /\ mAfScanDuration' = af.scan /\ mLockAfterPassiveScan' = af.lock
          /\ nextSleep' = IF Scanning(started(d)) THEN Shorter(nextSleep, started(d).scan)
                                                  ELSE nextSleep
    BY DEF UpdateAf, UpdateAfState
<1>2. d \in Int /\ mode \in AllAfModes /\ Af \in AfRecords /\ Af.state = mAfState
      /\ Af.lock = mLockAfterPassiveScan
    BY ControlAssumption, AfTyped DEF Af
<1> HIDE DEF mode
<1>3. processAfTrigger(Af, mode, d) \in AfRecords
      /\ processAfTrigger(Af, mode, d).state \in Expected(mode)
    BY <1>2, TriggerFits DEF mode
<1>4. /\ triggered(d) \in AfRecords /\ triggered(d).state \in Expected(mode)
      /\ triggered(d).lock => mLockAfterPassiveScan \/ pass.afTriggered
      /\ triggered(d).state \in ToLock => mAfState \in ToLock \/ pass.afTriggered
    BY <1>2, <1>3 DEF mode
<1> HIDE DEF triggered
<1>5. /\ started(d) \in AfRecords /\ started(d).state \in Expected(mode)
      /\ started(d).lock => mLockAfterPassiveScan \/ pass.afTriggered
      /\ started(d).state \in ToLock => mAfState \in ToLock \/ pass.afTriggered
    BY <1>2, <1>4, StartFits
<1> HIDE DEF started
<1>6. PICK af \in updateAfScan(started(d), mode) :
          mAfState' = af.state /\ mAfScanDuration' = af.scan /\ mLockAfterPassiveScan' = af.lock
    BY <1>1
<1>7. /\ af \in AfRecords /\ af.state \in Expected(mode)
      /\ af.lock => started(d).lock
      /\ af.state \in ToLock => \/ started(d).state \in ToLock
                                \/ mode = "CONTINUOUS_PICTURE" /\ started(d).lock
    BY <1>2, <1>5, <1>6, ScanFits
<1>8. nextSleep' \in 1..CycleDelay
    <2>1. started(d).scan \in Int
        BY <1>5 DEF AfRecords
    <2>2. nextSleep \in 1..CycleDelay
        BY DEF TypeOK
    <2> QED BY <1>1, <2>1, <2>2, ShorterFits
<1>9. af.state \in AfStates /\ af.scan \in Int /\ af.lock \in BOOLEAN
    BY <1>7 DEF AfRecords
<1> QED BY <1>5, <1>6, <1>7, <1>8, <1>9 DEF mode

LEMMA UpdateAeTyped ==
    ASSUME TypeOK, NEW starts \in BOOLEAN, UpdateAe(starts)
    PROVE  mAeState' \in AeStates /\ mAeScanDuration' \in Int /\ nextSleep' \in 1..CycleDelay
<1> DEFINE AeRecords == [state : AeStates, scan : Int]
           triggered(p) == processPrecaptureTrigger(Ae, p)
           started(d, p) == IF starts THEN [state |-> "SEARCHING", scan |-> d] ELSE triggered(p)
<1>1. PICK d \in AeDurations, p \in PrecaptureDurations :
          /\ mAeState' = updateAeScan(started(d, p)).state
          /\ mAeScanDuration' = updateAeScan(started(d, p)).scan
          /\ nextSleep' = IF AeScanning(started(d, p)) /\ ~LocksNow(started(d, p))
                          THEN Shorter(nextSleep, started(d, p).scan) ELSE nextSleep
    BY DEF UpdateAe
<1>2. d \in Int /\ p \in Int /\ Ae \in AeRecords
    BY ControlAssumption DEF Ae, TypeOK, Passes
<1>3. started(d, p) \in AeRecords
    BY <1>2 DEF processPrecaptureTrigger, AeStates
<1> HIDE DEF started
<1>4. updateAeScan(started(d, p)) \in AeRecords
    BY <1>3 DEF updateAeScan, AeStates
<1>5. Shorter(nextSleep, started(d, p).scan) \in 1..CycleDelay
    BY <1>3, ShorterFits DEF TypeOK
<1> QED BY <1>1, <1>4, <1>5 DEF TypeOK

LEMMA TypeStep == IInv /\ [Next]_vars => TypeOK'
<1> SUFFICES ASSUME IInv, [Next]_vars PROVE TypeOK'
    OBVIOUS
<1> USE ControlAssumption DEF IInv, TypeOK, Ids
<1>1. CASE ProcessRequest
    <2>1. /\ mAfMode' \in AllAfModes /\ mAeMode' \in AllAeModes /\ mAeState' \in AeStates
          /\ lastAf' \in {"none", "trigger", "cancel"}
        BY <1>1 DEF ProcessRequest, ControlOff, ControlOn, NewAfMode, AllAfModes, FixedModes,
                    AllAeModes, AeStates
    <2>2. /\ mAfModeChange' \in BOOLEAN /\ mStartAf' \in BOOLEAN /\ mCancelAf' \in BOOLEAN
          /\ mAeLock' \in BOOLEAN /\ precaptureDue' \in BOOLEAN
        BY <1>1 DEF ProcessRequest, ControlOff, ControlOn, NewAfMode
    <2>3. inputs' \in Ids
        BY <1>1 DEF ProcessRequest
    <2>4. UNCHANGED <<mMutex, mInputMutex, mStartPrecapture, mAfTriggerId,
                      mPrecaptureTriggerId, mAfState, scanVars>>
        BY <1>1 DEF ProcessRequest
    <2>5. UNCHANGED <<controlPc, pass, nextSleep, trigger, afSeen>>
        BY <1>1 DEF ProcessRequest
    <2> QED BY <2>1, <2>2, <2>3, <2>4, <2>5, SMTT(20) DEF scanVars
<1>2. CASE \E action \in Actions : BeginTrigger(action)
    BY <1>2, SMTT(30) DEF BeginTrigger, triggerVars, requestVars, scanVars
<1>3. CASE EndTrigger
    BY <1>3, ZenonT(30) DEF EndTrigger, StartAf, CancelAf, StartPrecapture, NoTrigger, requestVars,
                             scanVars
<1>4. CASE ReadInputs
    <2>1. pass' \in Passes
        BY <1>4 DEF ReadInputs, Passes
    <2> QED BY <1>4, <2>1 DEF ReadInputs, ControlMoves, scanVars, callVars
<1>5. CASE ResetAf
    <2>1. /\ mAfState' \in AfStates /\ controlPc' \in {"notifyReset", "af"}
          /\ mInputMutex' \in {"none", "control"}
        BY <1>5 DEF ResetAf, UpdateAfState, ControlMoves, AfStates
    <2>2. mAfScanDuration' \in Int
        BY <1>5 DEF ResetAf
    <2>3. mLockAfterPassiveScan' \in BOOLEAN
        BY <1>5 DEF ResetAf, NoLockAfterScan
    <2> QED BY <1>5, <2>1, <2>2, <2>3 DEF ResetAf, triggerVars, requestVars, callVars
<1>6. CASE NotifyAf("notifyReset", "af") \/ NotifyAf("notifyAf", "ae")
    BY <1>6 DEF NotifyAf, ControlMoves, triggerVars, requestVars, scanVars, callVars, Passes
<1>7. CASE UpdateAf
    <2>1. mAfState \in Expected(pass.afMode)
        BY <1>7 DEF UpdateAf, UpdateAfState, ControlMoves, Covered
    <2>2. /\ mAfState' \in AfStates /\ mAfScanDuration' \in Int
          /\ mLockAfterPassiveScan' \in BOOLEAN /\ nextSleep' \in 1..CycleDelay
        BY <1>7, <2>1, UpdateAfResult
    <2> QED BY <1>7, <2>2 DEF UpdateAf, UpdateAfState, ControlMoves, triggerVars, requestVars,
                              callVars
<1>8. CASE \E starts \in BOOLEAN : UpdateAe(starts)
    <2>1. mAeState' \in AeStates /\ mAeScanDuration' \in Int /\ nextSleep' \in 1..CycleDelay
        BY <1>8, UpdateAeTyped
    <2> QED BY <1>8, <2>1 DEF UpdateAe, ControlMoves, triggerVars, requestVars, callVars
<1>9. CASE NotifyAe
    BY <1>9 DEF NotifyAe, ControlMoves, triggerVars, requestVars, scanVars
<1>10. CASE Sleep
    BY <1>10 DEF Sleep, ControlMoves, Rest, NoPass, Passes, AllAfModes, AutoModes, AeStates,
                 AllAeModes, triggerVars, requestVars, callVars
<1>11. CASE UNCHANGED vars
    BY <1>11 DEF vars, triggerVars, requestVars, scanVars, callVars
<1> QED BY <1>1, <1>2, <1>3, <1>4, <1>5, <1>6, <1>7, <1>8, <1>9, <1>10, <1>11
        DEF Next, Control

-----------------------------------------------------------------------------
(* The invariant.                                                          *)

LEMMA InitInv == Init => IInv
<1> SUFFICES ASSUME Init PROVE IInv
    OBVIOUS
<1> USE DEF Init
<1>1. NoPass \in Passes
    BY ControlAssumption DEF NoPass, Passes, Ids, AllAfModes, AutoModes, AeStates, AllAeModes
<1>2. TypeOK
    <2>1. /\ mAfTriggerId \in Ids /\ mPrecaptureTriggerId \in Ids /\ inputs \in Ids
          /\ mAfScanDuration \in Int /\ mAeScanDuration \in Int
          /\ nextSleep \in 1..CycleDelay
        BY ControlAssumption DEF Ids
    <2>2. /\ mAfMode \in AllAfModes /\ mAeMode \in AllAeModes /\ mAfState \in AfStates
          /\ mAeState \in AeStates /\ trigger \in Actions \cup {NoTrigger}
          /\ afSeen \in [state : AfStates, id : Ids]
        BY <2>1 DEF AllAfModes, AutoModes, AllAeModes, AfStates, AeStates
    <2>3. /\ mStartAf \in BOOLEAN /\ mCancelAf \in BOOLEAN /\ mStartPrecapture \in BOOLEAN
          /\ mAfModeChange \in BOOLEAN /\ precaptureDue \in BOOLEAN
        OBVIOUS
    <2> QED BY <1>1, <2>1, <2>2, <2>3 DEF TypeOK
<1>3. ModeKnown /\ Covered /\ Locks
    BY DEF ModeKnown, InPass, Covered, Expected, AutoModes, Locks, Asked, ToLock, LockedStates
<1> QED BY <1>2, <1>3 DEF IInv

LEMMA StepInv == IInv /\ [Next]_vars => IInv'
<1> SUFFICES ASSUME IInv, [Next]_vars PROVE IInv'
    OBVIOUS
<1>0. TypeOK /\ TypeOK'
    BY TypeStep DEF IInv
<1> USE DEF IInv, InPass, ModeKnown, Covered, Locks, Asked
<1>1. CASE ProcessRequest
    BY <1>0, <1>1 DEF ProcessRequest, ControlOff, ControlOn, NewAfMode, scanVars
<1>2. CASE \E action \in Actions : BeginTrigger(action)
    BY <1>0, <1>2 DEF BeginTrigger, triggerVars, requestVars, scanVars
<1>3. CASE EndTrigger
    BY <1>0, <1>3 DEF EndTrigger, StartAf, CancelAf, StartPrecapture, requestVars, scanVars
<1>4. CASE ReadInputs
    <2>1. pass'.afMode = mAfMode /\ pass'.afTriggered = mStartAf
        BY <1>4 DEF ReadInputs
    <2>2. controlPc = "read" /\ controlPc' = IF (mCancelAf /\ ~mStartAf) \/ mAfModeChange
                                             THEN "reset" ELSE "af"
        BY <1>4 DEF ReadInputs, ControlMoves
    <2> QED BY <1>0, <1>4, <2>1, <2>2 DEF ReadInputs, scanVars, callVars, TypeOK
<1>5. CASE ResetAf
    <2>1. /\ controlPc = "reset" /\ controlPc' \in {"notifyReset", "af"}
          /\ mAfState' = "INACTIVE" /\ mLockAfterPassiveScan' = FALSE
          /\ UNCHANGED <<mStartAf, mCancelAf, mAfMode, mAfModeChange, lastAf, pass>>
        BY <1>5 DEF ResetAf, UpdateAfState, ControlMoves, NoLockAfterScan, triggerVars,
                    requestVars, callVars
    <2>2. pass.afMode \in AllAfModes
        BY <1>0, AfTyped
    <2>3. "INACTIVE" \in Expected(pass.afMode) /\ "INACTIVE" \notin ToLock
        BY <2>2 DEF Expected, AllAfModes, ToLock, LockedStates
    <2> QED BY <1>0, <2>1, <2>3
<1>6. CASE NotifyAf("notifyReset", "af") \/ NotifyAf("notifyAf", "ae")
    <2>1. pass.afMode \in AllAfModes
        BY <1>0, AfTyped
    <2>2. "INACTIVE" \in Expected(pass.afMode)
        BY <2>1 DEF Expected, AllAfModes
    <2> QED BY <1>0, <1>6, <2>2 DEF NotifyAf, ControlMoves, triggerVars, requestVars, scanVars, callVars
<1>7. CASE UpdateAf
    <2>1. controlPc = "af" /\ controlPc' \in {"notifyAf", "ae"}
        BY <1>7 DEF UpdateAf, UpdateAfState, ControlMoves
    <2>2. UNCHANGED <<mStartAf, mCancelAf, mAfMode, mAfModeChange, lastAf, pass>>
        BY <1>7 DEF UpdateAf, triggerVars, requestVars, callVars
    <2>3. /\ mAfState' \in Expected(pass.afMode)
          /\ mLockAfterPassiveScan' => mLockAfterPassiveScan \/ pass.afTriggered
          /\ mAfState' \in ToLock =>
                  \/ mAfState \in ToLock \/ pass.afTriggered
                  \/ mLockAfterPassiveScan /\ pass.afMode = "CONTINUOUS_PICTURE"
        BY <1>0, <1>7, <2>1, UpdateAfResult
    <2> QED BY <1>0, <2>1, <2>2, <2>3
<1>8. CASE (\E starts \in BOOLEAN : UpdateAe(starts)) \/ NotifyAe
    <2>1. /\ controlPc \in {"ae", "notifyAe"} /\ controlPc' \in {"notifyAe", "sleep"}
          /\ UNCHANGED <<mStartAf, mCancelAf, mAfMode, mAfModeChange, mAfState,
                         mLockAfterPassiveScan, lastAf, pass>>
        BY <1>8 DEF UpdateAe, NotifyAe, ControlMoves, triggerVars, requestVars, scanVars, callVars
    <2> QED BY <1>0, <2>1
<1>9. CASE Sleep
    BY <1>0, <1>9 DEF Sleep, ControlMoves, triggerVars, requestVars, callVars
<1>10. CASE UNCHANGED vars
    BY <1>0, <1>10 DEF vars, triggerVars, requestVars, scanVars, callVars
<1> QED BY <1>1, <1>2, <1>3, <1>4, <1>5, <1>6, <1>7, <1>8, <1>9, <1>10 DEF Next, Control

LEMMA Invariance == Spec => []IInv
BY InitInv, StepInv, PTL DEF Spec

-----------------------------------------------------------------------------

\* The types of the control thread.
THEOREM TypeCorrect == Spec => []TypeOK
BY Invariance, PTL DEF IInv

\* A pass comes to the tables of the focus algorithm (EmulatedFakeCamera2.cpp:1818-1952)
\* only with states that they expect, whatever modes requests ask for in the middle of it.
THEOREM FocusTablesCover == Spec => []TablesCover
<1>1. IInv => TablesCover
    BY DEF IInv, Covered, TablesCover
<1> QED BY <1>1, Invariance, PTL

\* Focus is locked only because the framework has asked for it, since its last cancel and
\* since the last change of mode, but for what the thread has not yet heard.
THEOREM FocusLockedByTrigger == Spec => []LockedByTrigger
<1>1. IInv => LockedByTrigger
    BY DEF IInv, Locks, Asked, ToLock, LockedByTrigger
<1> QED BY <1>1, Invariance, PTL
=============================================================================
