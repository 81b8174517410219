-------------------------- MODULE FakeCamera2Proofs --------------------------
(***************************************************************************)
(* Theorems about the version 2 emulated camera, for any number of         *)
(* requests and of calls, any size of the in-flight queue, and with no     *)
(* assumption about timing.                                                *)
(***************************************************************************)
EXTENDS FakeCamera2, SequenceFacts, TLAPS

ConfigureHolds == {"empty", "dequeued", "setup", "exposure", "buffers", "operation", "done"}
ReadoutHolds   == {"streams", "start", "count"}

ConfigurePart ==
    /\ configurePc \in {"loop", "empty", "dequeued", "setup", "wait", "vsync", "exposure",
                        "buffers", "operation", "done", "off"}
    /\ configureActive \in BOOLEAN /\ nextBuffersMade \in BOOLEAN
    /\ mWaitingForReadout \in BOOLEAN /\ mNextNeedsJpeg \in BOOLEAN
    /\ configureRequest \in Upto
    /\ configureInternals = IF configurePc \in ConfigureHolds THEN "configure" ELSE "none"
    /\ configurePc \in {"loop", "empty"} => configureRequest = None
    /\ configurePc \notin {"loop", "empty", "off"} => configureRequest # None
    /\ configureRequest # None /\ configurePc \notin {"dequeued", "setup"} => nextBuffersMade
    /\ configureCount = IF configureRequest # None /\ configurePc # "dequeued" THEN 1 ELSE 0

ReadoutPart ==
    /\ readoutPc \in {"loop", "take", "frame", "process", "streams", "start", "count",
                      "failed", "off"}
    /\ readoutActive \in BOOLEAN
    /\ readoutRequest \in Upto /\ readoutBuffers \in Upto /\ takenBuffers \in Upto
    /\ mInFlightQueue \in Seq(Numbers) /\ Len(mInFlightQueue) < kInFlightQueueSize
    /\ dropped \subseteq Numbers /\ results \in Seq(Numbers)
    /\ readoutInput = IF readoutPc = "take" THEN "readout" ELSE "none"
    /\ readoutPc \in ReadoutHolds => readoutInternals = "readout"
    /\ readoutPc \notin ReadoutHolds => readoutInternals \in {"none", "framework"}
    /\ frameworkPc = "inReadoutInput" => readoutInternals = "framework"
    /\ readoutPc = "take" => readoutRequest = None /\ mInFlightQueue # <<>>
    /\ readoutPc \in {"frame", "process"} => readoutRequest # None
    /\ readoutPc \in ReadoutHolds => readoutRequest = None
    /\ readoutPc \in {"streams", "start"} => readoutBuffers # None
    /\ readoutPc \notin {"streams", "start"} => readoutBuffers = readoutRequest
    /\ readoutCount = Len(mInFlightQueue) +
         (IF readoutRequest # None \/ readoutPc \in ReadoutHolds THEN 1 ELSE 0)

JpegPart ==
    /\ JpegTypeOK
    /\ jpegCall \in {"none", "onJpegDone", "onJpegInputDone"} /\ mFoundAux \in BOOLEAN
    /\ jpegPc \in {"compress", "cleanUp"} => mIsBusy
    /\ mIsBusy => mBuffers \in Numbers

SensorPart ==
    /\ SensorTypeOK
    /\ mNextBuffers \in Upto /\ latched.buffers \in Upto
    /\ mNextCapturedBuffers \in Upto /\ mCapturedBuffers \in Upto

FrameworkPart ==
    /\ mMutex \in {"none", "framework"} /\ exitPending \in BOOLEAN
    /\ requestQueue \in Seq(Numbers) /\ kinds \in Seq(Kinds) /\ notifyDue \in BOOLEAN
    /\ streams \subseteq {"preview", "jpeg"} /\ streamId \in {"none", "preview", "jpeg"}
    /\ frameworkPc \in {"idle", "inConfigure", "inReadout", "inReadoutInput", "inJpeg",
                        "countReadout", "countJpeg", "counted",
                        "sensorExit", "jpegExit", "joining", "closed"}
    /\ total \in Nat /\ counted \subseteq Numbers /\ calls \in 0..MaxOperations

TypeInv == ConfigurePart /\ ReadoutPart /\ JpegPart /\ SensorPart /\ FrameworkPart

-----------------------------------------------------------------------------
(* What the steps of a thread leave alone.                                 *)

configurePartVars == <<configureVars, configureInternals>>
readoutPartVars   == <<readoutVars, readoutInput, readoutInternals, results, frameworkPc>>
jpegPartVars      == <<jpegVars, listenerVars>>
frameworkPartVars == <<mMutex, exitPending, queueVars, callVars>>

LEMMA ConfigureFrame ==
    ConfigureStep => /\ UNCHANGED <<mMutex, exitPending, callVars, kinds, notifyDue>>
                     /\ UNCHANGED <<results, listenerVars, readoutInternals, readoutInput>>
BY DEF ConfigureStep, ConfigureDequeue, ConfigureGoInactive, ConfigureCountRequest,
       ConfigureSetup, ConfigureAwaitReadout, ConfigureAwaitJpeg, ConfigureBeginVSync,
       ConfigureVSync, ConfigureExposure, ConfigureReprocess, ConfigureGetBuffers,
       SetNextOperation, ConfigureDone, ConfigureExit, NotConfigure, mutexes, queueVars

LEMMA ReadoutFrame == ReadoutStep => NotReadout
BY DEF ReadoutStep, ReadoutGoInactive, ReadoutInputFirst, ReadoutTake, ReadoutResume,
       ReadoutAwaitFrame, ReadoutProcess, ReadoutStreams, ReadoutStart, ReadoutCountDone,
       ReadoutFails, ReadoutExit

LEMMA JpegFrame == JpegStep => NotJpeg /\ UNCHANGED results
BY DEF JpegStep, JpegCompressed, JpegCancelled, OnJpegDone, CleanUp, OnJpegInputDone, JpegEnds

LEMMA FrameworkFrame ==
    FrameworkStep => OnlyFramework /\ UNCHANGED <<configureInternals, readoutInput>>
BY DEF FrameworkStep, Enqueue, RequestQueueNotify, BeginReleaseStream, InConfigure, InReadout,
       InReadoutInput, InJpeg, CountConfigure, CountReadout, CountJpeg, EndCount, BeginClose,
       CloseRequestExit, CloseUnlock, CloseJoined, BeginCall, Call, StillInUse, mutexes

-----------------------------------------------------------------------------
(* The type invariant, and what the threads' places in their loops say.    *)

LEMMA ConfigurePartKept == ConfigurePart /\ UNCHANGED configurePartVars => ConfigurePart'
BY DEF ConfigurePart, configurePartVars, configureVars

LEMMA ConfigureTyped ==
    ASSUME ConfigurePart, FrameworkPart, [Next]_vars
    PROVE  ConfigurePart'
<1> USE FakeCamera2Assumption DEF configureVars, mutexes, ConfigureMoves, ConfigureHolds
<1>1. CASE ConfigureStep
  <2> USE DEF ConfigurePart, Upto, None
  <2>1. CASE ConfigureDequeue
    <3>1. requestQueue # <<>> => Head(requestQueue) \in Numbers
      BY DEF FrameworkPart
    <3> QED BY <2>1, <3>1 DEF ConfigureDequeue, Numbers
  <2>2. CASE ConfigureGoInactive
    <3>1. configureActive' \in BOOLEAN
      BY Zenon, <2>2 DEF ConfigureGoInactive
    <3> QED BY <2>2, <3>1 DEF ConfigureGoInactive
  <2>3. CASE ConfigureCountRequest
    BY <2>3 DEF ConfigureCountRequest
  <2>4. CASE ConfigureSetup
    <3>1. nextBuffersMade' = TRUE
      BY <2>4 DEF ConfigureSetup
    <3>2. WaitsForReadout(configureRequest) \in BOOLEAN /\ HasJpeg(configureRequest) \in BOOLEAN
      BY SMT DEF WaitsForReadout, IsCapture, HasJpeg
    <3>3. mWaitingForReadout' \in BOOLEAN /\ mNextNeedsJpeg' \in BOOLEAN
      BY Zenon, <2>4, <3>2 DEF ConfigureSetup
    <3> HIDE DEF ConfigureMoves
    <3> QED BY <2>4, <3>1, <3>3 DEF ConfigureSetup
  <2>5. CASE ConfigureAwaitReadout
    <3>1. mWaitingForReadout' \in BOOLEAN
      BY Zenon, <2>5 DEF ConfigureAwaitReadout
    <3> QED BY <2>5, <3>1 DEF ConfigureAwaitReadout
  <2>6. CASE ConfigureAwaitJpeg
    <3>1. mNextNeedsJpeg' \in BOOLEAN
      BY Zenon, <2>6 DEF ConfigureAwaitJpeg
    <3> QED BY <2>6, <3>1 DEF ConfigureAwaitJpeg
  <2>7. CASE ConfigureBeginVSync
    BY <2>7 DEF ConfigureBeginVSync
  <2>8. CASE ConfigureVSync
    BY <2>8 DEF ConfigureVSync
  <2>9. CASE ConfigureExposure
    BY <2>9 DEF ConfigureExposure
  <2>10. CASE ConfigureReprocess
    BY <2>10 DEF ConfigureReprocess
  <2>11. CASE ConfigureGetBuffers
    BY <2>11 DEF ConfigureGetBuffers
  <2>12. CASE SetNextOperation
    BY <2>12 DEF SetNextOperation
  <2>13. CASE ConfigureDone
    <3>1. nextBuffersMade' \in BOOLEAN
      BY Zenon, <2>13 DEF ConfigureDone
    <3> QED BY <2>13, <3>1 DEF ConfigureDone
  <2>14. CASE ConfigureExit
    BY <2>14 DEF ConfigureExit
  <2> QED BY <1>1, <2>1, <2>2, <2>3, <2>4, <2>5, <2>6, <2>7, <2>8, <2>9, <2>10, <2>11, <2>12,
             <2>13, <2>14 DEF ConfigureStep
<1>2. CASE ReadoutStep
  BY <1>2, ReadoutFrame, ConfigurePartKept DEF NotReadout, configurePartVars
<1>3. CASE JpegStep
  BY <1>3, JpegFrame, ConfigurePartKept DEF NotJpeg, configurePartVars
<1>4. CASE SensorThread
  BY <1>4, ConfigurePartKept DEF SensorThread, configurePartVars
<1>5. CASE FrameworkStep
  <2>1. CASE RequestQueueNotify
    <3>1. configureActive' \in BOOLEAN
      BY Zenon, <2>1 DEF RequestQueueNotify
    <3> QED BY <2>1, <3>1 DEF RequestQueueNotify, OnlyFramework, ConfigurePart
  <2>2. CASE ~RequestQueueNotify
    <3>1. UNCHANGED configureActive
      BY <1>5, <2>2 DEF FrameworkStep, Enqueue, BeginReleaseStream, InConfigure, InReadout,
           InReadoutInput, InJpeg, CountConfigure, CountReadout, CountJpeg, EndCount,
           BeginClose, CloseRequestExit, CloseUnlock, CloseJoined, BeginCall, Call, StillInUse
    <3> QED BY <1>5, <3>1, FrameworkFrame, ConfigurePartKept DEF OnlyFramework, configurePartVars
  <2> QED BY <2>1, <2>2
<1>6. CASE UNCHANGED vars
  BY <1>6, ConfigurePartKept DEF vars, configurePartVars
<1> QED BY <1>1, <1>2, <1>3, <1>4, <1>5, <1>6 DEF Next

LEMMA SensorKept == SensorPart /\ UNCHANGED sensorVars => SensorPart'
BY DEF SensorPart, SensorTypeOK, sensorVars, controlVars

LEMMA SensorTyped ==
    ASSUME SensorPart, ConfigurePart, [Next]_vars
    PROVE  SensorPart'
<1> USE FakeCamera2Assumption
<1> USE DEF sensorVars, controlVars, SensorPcs, Upto, None, NoBuffers
<1>1. CASE SensorThread
  <2> USE DEF SensorPart, SensorTypeOK
  <2>1. CASE SensorLatch
    <3>1. mGotVSync' \in BOOLEAN
      BY Zenon, <2>1 DEF SensorLatch
    <3> QED BY <2>1, <3>1 DEF SensorLatch, NextBuffersAfterLatch
  <2>2. CASE SensorReadout
    BY <2>2 DEF SensorReadout, Deliver
  <2>3. CASE SensorReadoutBlock
    BY <2>3 DEF SensorReadoutBlock
  <2>4. CASE SensorReadoutWoken
    BY <2>4 DEF SensorReadoutWoken, Deliver
  <2>5. CASE SensorCapture
    BY <2>5 DEF SensorCapture
  <2>6. CASE SensorExit
    BY <2>6 DEF SensorExit
  <2> QED BY <1>1, <2>1, <2>2, <2>3, <2>4, <2>5, <2>6 DEF SensorThread, SensorStep
<1>2. CASE ConfigureStep
  <2>1. CASE ConfigureBeginVSync
    <3>1. mGotVSync' \in BOOLEAN
      BY Zenon, <2>1 DEF ConfigureBeginVSync, BeginVSyncWait, SetControl
    <3> QED BY <2>1, <3>1 DEF ConfigureBeginVSync, BeginVSyncWait, SetControl, SensorPart, SensorTypeOK
  <2>2. CASE ConfigureExposure
    BY <2>2 DEF ConfigureExposure, SetExposure, SetControl, SensorPart, SensorTypeOK, ConfigurePart
  <2>3. CASE ConfigureDone
    <3>1. CASE IsCapture(configureRequest)
      BY <2>3, <3>1 DEF ConfigureDone, SetDestinationBuffers, SetControl, SensorPart, SensorTypeOK,
                        ConfigurePart
    <3>2. CASE ~IsCapture(configureRequest)
      BY <2>3, <3>2, SensorKept DEF ConfigureDone
    <3> QED BY <3>1, <3>2
  <2>4. CASE ~ConfigureBeginVSync /\ ~ConfigureExposure /\ ~ConfigureDone
    <3>1. UNCHANGED sensorVars
      BY <1>2, <2>4 DEF ConfigureStep, ConfigureDequeue, ConfigureGoInactive,
         ConfigureCountRequest, ConfigureSetup, ConfigureAwaitReadout, ConfigureAwaitJpeg,
         ConfigureVSync, ConfigureReprocess, ConfigureGetBuffers, SetNextOperation,
         ConfigureExit, NotConfigure
    <3> QED BY <3>1, SensorKept
  <2> QED BY <2>1, <2>2, <2>3, <2>4
<1>3. CASE ReadoutStep
  <2>1. CASE ReadoutAwaitFrame
    BY <2>1 DEF ReadoutAwaitFrame, NewFrameBlock, NewFrameTimeout, NewFrameAtOnce,
                NewFrameWoken, SignalReadoutComplete, SensorPart, SensorTypeOK
  <2>2. CASE ~ReadoutAwaitFrame
    BY <1>3, <2>2, SensorKept DEF ReadoutStep, ReadoutGoInactive, ReadoutInputFirst,
       ReadoutTake, ReadoutResume, ReadoutProcess, ReadoutStreams, ReadoutStart,
       ReadoutCountDone, ReadoutFails, ReadoutExit
  <2> QED BY <2>1, <2>2
<1>4. CASE JpegStep
  BY <1>4, JpegFrame, SensorKept DEF NotJpeg
<1>5. CASE FrameworkStep
  <2>1. CASE BeginClose
    <3>1. sensorExit' \in BOOLEAN
      BY Zenon, <2>1 DEF BeginClose, SensorRequestExit
    <3> QED BY <2>1, <3>1 DEF BeginClose, SensorRequestExit, SensorPart, SensorTypeOK
  <2>2. CASE ~BeginClose
    <3>1. UNCHANGED sensorVars
      BY <1>5, <2>2 DEF FrameworkStep, Enqueue, RequestQueueNotify, BeginReleaseStream,
         InConfigure, InReadout, InReadoutInput, InJpeg, CountConfigure, CountReadout, CountJpeg,
         EndCount, CloseRequestExit, CloseUnlock, CloseJoined, BeginCall, StillInUse
    <3> QED BY <3>1, SensorKept
  <2> QED BY <2>1, <2>2
<1>6. CASE UNCHANGED vars
  BY <1>6, SensorKept DEF vars
<1> QED BY <1>1, <1>2, <1>3, <1>4, <1>5, <1>6 DEF Next

LEMMA JpegPartKept == JpegPart /\ UNCHANGED jpegPartVars => JpegPart'
BY DEF JpegPart, JpegTypeOK, jpegPartVars, jpegVars, listenerVars

LEMMA JpegTyped ==
    ASSUME JpegPart, ReadoutPart, [Next]_vars
    PROVE  JpegPart'
<1> USE FakeCamera2Assumption DEF jpegVars, listenerVars
<1>1. CASE JpegStep
  <2>0. mFoundAux' = mFoundAux
    BY <1>1, JpegFrame DEF NotJpeg
  <2> USE DEF JpegPart, JpegTypeOK
  <2>1. CASE JpegCompressed
    BY <2>0, <2>1 DEF JpegCompressed
  <2>2. CASE JpegCancelled
    BY <2>0, <2>2 DEF JpegCancelled, Compress
  <2>3. CASE OnJpegDone
    BY <2>0, <2>3 DEF OnJpegDone, Compress
  <2>4. ASSUME JpegCleanUp, jpegCall' \in {"none", "onJpegDone", "onJpegInputDone"}
        PROVE  JpegPart'
    <3>1. mIsBusy' = FALSE
      BY <2>4 DEF JpegCleanUp, CleanUpBusy
    <3> QED BY <2>0, <2>4, <3>1 DEF JpegCleanUp, Free
  <2>5. CASE CleanUp
    BY <2>0, <2>4, <2>5 DEF CleanUp
  <2>6. CASE OnJpegInputDone
    BY <2>4, <2>6 DEF OnJpegInputDone
  <2>7. CASE JpegEnds
    BY <2>0, <2>7 DEF JpegEnds, JpegThreadExit
  <2> QED BY <1>1, <2>1, <2>2, <2>3, <2>5, <2>6, <2>7 DEF JpegStep
<1>2. CASE ReadoutStep
  <2>0. UNCHANGED listenerVars
    BY <1>2, ReadoutFrame DEF NotReadout
  <2>1. CASE ReadoutStart
    <3>0. readoutBuffers \in Numbers
      BY <2>1 DEF ReadoutStart, ReadoutPart, ReadoutMoves, Upto, Numbers, None
    <3> USE DEF JpegPart, JpegTypeOK, Numbers
    <3>1. CASE StartRefused
      BY <2>0, <3>1 DEF StartRefused
    <3>2. CASE Started(readoutBuffers)
      <4>1. mIsBusy' = TRUE
        BY <3>2 DEF Started
      <4> QED BY <2>0, <3>0, <3>2, <4>1 DEF Started
    <3>3. CASE StartFailed(readoutBuffers)
      <4>1. mIsBusy' = TRUE
        BY <3>3 DEF StartFailed
      <4> QED BY <2>0, <3>0, <3>3, <4>1 DEF StartFailed, Free
    <3>4. CASE Free({readoutBuffers}) /\ UNCHANGED <<mIsBusy, mBuffers, jpegDone, jpegPc>>
      BY <2>0, <3>0, <3>4 DEF Free
    <3> QED BY <2>1, <3>1, <3>2, <3>3, <3>4 DEF ReadoutStart
  <2>2. CASE ~ReadoutStart
    <3>1. UNCHANGED jpegVars
      BY <1>2, <2>2 DEF ReadoutStep, ReadoutGoInactive, ReadoutInputFirst, ReadoutTake,
         ReadoutResume, ReadoutAwaitFrame, ReadoutProcess, ReadoutStreams, ReadoutCountDone,
         ReadoutFails, ReadoutExit
    <3> QED BY <2>0, <3>1, JpegPartKept DEF jpegPartVars
  <2> QED BY <2>1, <2>2
<1>3. CASE ConfigureStep
  <2>0. UNCHANGED listenerVars
    BY <1>3, ConfigureFrame
  <2>1. CASE ConfigureAwaitJpeg
    <3>1. jpegDone' \in {"none", "waiting", jpegDone} /\ UNCHANGED <<mIsBusy, mBuffers, jpegPc, freed>>
      BY <2>1 DEF ConfigureAwaitJpeg, WaitForDoneAtOnce, WaitForDoneBlock, WaitForDoneEnds
    <3> QED BY <2>0, <3>1 DEF JpegPart, JpegTypeOK
  <2>2. CASE ~ConfigureAwaitJpeg
    <3>1. UNCHANGED jpegVars
      BY <1>3, <2>2 DEF ConfigureStep, ConfigureDequeue, ConfigureGoInactive,
         ConfigureCountRequest, ConfigureSetup, ConfigureAwaitReadout, ConfigureBeginVSync,
         ConfigureVSync, ConfigureExposure, ConfigureReprocess, ConfigureGetBuffers,
         SetNextOperation, ConfigureDone, ConfigureExit, NotConfigure
    <3> QED BY <2>0, <3>1, JpegPartKept DEF jpegPartVars
  <2> QED BY <2>1, <2>2
<1>4. CASE SensorThread
  BY <1>4, JpegPartKept DEF SensorThread, jpegPartVars
<1>5. CASE FrameworkStep
  BY <1>5, FrameworkFrame, JpegPartKept DEF OnlyFramework, jpegPartVars
<1>6. CASE UNCHANGED vars
  BY <1>6, JpegPartKept DEF vars, jpegPartVars
<1> QED BY <1>1, <1>2, <1>3, <1>4, <1>5, <1>6 DEF Next

\* What the in-flight queue yields is the number of a request, and there is one less.
LEMMA InFlightTail ==
    ASSUME ReadoutPart, mInFlightQueue # <<>>
    PROVE  /\ Head(mInFlightQueue) \in Numbers /\ Tail(mInFlightQueue) \in Seq(Numbers)
           /\ Len(mInFlightQueue) \in Nat \ {0}
           /\ Len(Tail(mInFlightQueue)) = Len(mInFlightQueue) - 1
<1>1. mInFlightQueue \in Seq(Numbers)
  BY DEF ReadoutPart
<1> HIDE DEF Numbers
<1> QED BY <1>1, HeadTailProperties, LenProperties, EmptySeq

LEMMA InFlightAppend ==
    ASSUME ReadoutPart, NEW r \in Numbers
    PROVE  /\ Append(mInFlightQueue, r) \in Seq(Numbers)
           /\ Len(mInFlightQueue) \in Nat
           /\ Len(Append(mInFlightQueue, r)) = Len(mInFlightQueue) + 1
           /\ Append(results, r) \in Seq(Numbers)
<1>1. mInFlightQueue \in Seq(Numbers) /\ results \in Seq(Numbers)
  BY DEF ReadoutPart
<1> HIDE DEF Numbers
<1> QED BY <1>1, AppendProperties, LenProperties

LEMMA ReadoutKept == ReadoutPart /\ UNCHANGED readoutPartVars => ReadoutPart'
BY DEF ReadoutPart, readoutPartVars, readoutVars

LEMMA ReadoutTyped ==
    ASSUME ReadoutPart, ConfigurePart, SensorPart, [Next]_vars
    PROVE  ReadoutPart'
<1> USE FakeCamera2Assumption
<1> USE DEF readoutVars, mutexes, ReadoutMoves, ReadoutHolds
<1>0. Numbers \subseteq Upto /\ None \in Upto /\ None \notin Numbers
  BY DEF Numbers, Upto, None
<1>1. CASE ReadoutStep
  <2>0. /\ Len(mInFlightQueue) \in Nat
        /\ readoutRequest \in Numbers \/ readoutRequest = None
        /\ UNCHANGED frameworkPc
    <3>1. mInFlightQueue \in Seq(Numbers)
      BY DEF ReadoutPart
    <3> HIDE DEF Numbers
    <3>2. Len(mInFlightQueue) \in Nat
      BY <3>1, LenProperties
    <3>3. UNCHANGED frameworkPc
      BY <1>1, ReadoutFrame DEF NotReadout, callVars
    <3> QED BY <3>2, <3>3 DEF ReadoutPart, Upto, Numbers, None
  <2> USE <1>0, <2>0 DEF ReadoutPart
  <2>1. CASE ReadoutGoInactive
    <3>1. readoutActive' \in BOOLEAN
      BY Zenon, <2>1 DEF ReadoutGoInactive
    <3> QED BY <2>1, <3>1 DEF ReadoutGoInactive
  <2>2. CASE ReadoutInputFirst
    BY <2>2 DEF ReadoutInputFirst
  <2>3. CASE ReadoutTake
    <3>1. mInFlightQueue # <<>>
      BY <2>3 DEF ReadoutTake
    <3>2. readoutPc' \in {"frame", "process"}
      BY <2>3 DEF ReadoutTake, AfterTake
    <3>3. /\ readoutRequest' \in Numbers /\ readoutBuffers' = readoutRequest'
          /\ mInFlightQueue' \in Seq(Numbers) /\ Len(mInFlightQueue') = Len(mInFlightQueue) - 1
      BY <2>3, <3>1, InFlightTail DEF ReadoutTake
    <3>4. /\ readoutPc = "take" /\ readoutInternals = "none" /\ readoutInput' = "none"
          /\ UNCHANGED <<readoutInternals, results, readoutActive, readoutCount, takenBuffers, dropped>>
      BY <2>3 DEF ReadoutTake
    <3> QED BY <3>2, <3>3, <3>4
  <2>4. CASE ReadoutResume
    <3>1. readoutPc' \in {"frame", "process"}
      BY <2>4 DEF ReadoutResume, AfterTake
    <3> QED BY <2>4, <3>1 DEF ReadoutResume
  <2>5. CASE ReadoutAwaitFrame
    <3>1. takenBuffers' \in Upto /\ readoutPc = "frame" /\ readoutPc' \in {"frame", "loop", "process"}
      BY <2>5 DEF ReadoutAwaitFrame, SensorPart
    <3> QED BY <2>5, <3>1 DEF ReadoutAwaitFrame
  <2>6. CASE ReadoutProcess
    <3>1. readoutRequest \in Numbers
      BY <2>6 DEF ReadoutProcess
    <3>2. results' \in Seq(Numbers)
      BY <2>6, <3>1, InFlightAppend DEF ReadoutProcess
    <3> QED BY <2>6, <3>1, <3>2 DEF ReadoutProcess
  <2>7. CASE ReadoutStreams
    BY <2>7 DEF ReadoutStreams
  <2>8. CASE ReadoutStart
    BY <2>8 DEF ReadoutStart
  <2>9. CASE ReadoutCountDone
    BY <2>9 DEF ReadoutCountDone
  <2>10. CASE ReadoutExit
    BY <2>10 DEF ReadoutExit
  <2>11. CASE ReadoutFails
    BY <2>11 DEF ReadoutFails
  <2> QED BY <1>1, <2>1, <2>2, <2>3, <2>4, <2>5, <2>6, <2>7, <2>8, <2>9, <2>10, <2>11
          DEF ReadoutStep
<1>2. CASE ConfigureStep
  <2>0. UNCHANGED <<readoutInternals, readoutInput, results, frameworkPc>>
    BY <1>2, ConfigureFrame DEF callVars
  <2>1. CASE SetNextOperation
    <3>0. configureRequest \in Numbers
      BY <2>1 DEF SetNextOperation, ConfigureMoves, ConfigurePart, Upto, Numbers, None
    <3>1. UNCHANGED <<readoutPc, readoutRequest, readoutBuffers, takenBuffers>>
      BY <2>1 DEF SetNextOperation
    <3>2. CASE ReadyForNextCapture
      <4>1. /\ mInFlightQueue' = Append(mInFlightQueue, configureRequest)
            /\ readoutCount' = readoutCount + 1 /\ dropped' = dropped
            /\ Len(mInFlightQueue) < kInFlightQueueSize - 1
            /\ readoutInput = "none"
        BY <2>1, <3>2 DEF SetNextOperation, ReadyForNextCapture
      <4>2. readoutActive' \in BOOLEAN
        BY Zenon, <2>1, <3>2 DEF SetNextOperation
      <4>3. /\ mInFlightQueue' \in Seq(Numbers) /\ Len(mInFlightQueue) \in Nat
            /\ Len(mInFlightQueue') = Len(mInFlightQueue) + 1
        BY <3>0, <4>1, InFlightAppend
      <4> QED BY <2>0, <3>1, <4>1, <4>2, <4>3 DEF ReadoutPart
    <3>3. CASE ~ReadyForNextCapture
      BY <2>0, <2>1, <3>0, <3>1, <3>3 DEF SetNextOperation, ReadoutPart
    <3> QED BY <3>2, <3>3
  <2>2. CASE ~SetNextOperation
    <3>1. UNCHANGED readoutVars
      BY <1>2, <2>2 DEF ConfigureStep, ConfigureDequeue, ConfigureGoInactive,
         ConfigureCountRequest, ConfigureSetup, ConfigureAwaitReadout, ConfigureAwaitJpeg,
         ConfigureBeginVSync, ConfigureVSync, ConfigureExposure, ConfigureReprocess,
         ConfigureGetBuffers, ConfigureDone, ConfigureExit, NotConfigure
    <3> QED BY <2>0, <3>1, ReadoutKept DEF readoutPartVars
  <2> QED BY <2>1, <2>2
<1>3. CASE JpegStep
  BY <1>3, JpegFrame, ReadoutKept DEF NotJpeg, readoutPartVars, callVars
<1>4. CASE SensorThread
  BY <1>4, ReadoutKept DEF SensorThread, readoutPartVars, callVars
<1>5. CASE FrameworkStep
  <2>0. UNCHANGED <<readoutVars, results, readoutInput>>
    BY <1>5, FrameworkFrame DEF OnlyFramework
  <2>1. CASE InReadout
    BY <2>0, <2>1 DEF InReadout, Call, FrameworkMoves, ReadoutPart
  <2>2. CASE InReadoutInput
    <3>1. /\ readoutInternals = "framework" /\ readoutInternals' = "none"
          /\ frameworkPc' \in {"idle", "inJpeg"}
      BY <2>2 DEF InReadoutInput, Call, StillInUse, FrameworkMoves, ReadoutPart
    <3> QED BY <2>0, <3>1 DEF ReadoutPart
  <2>3. CASE ~InReadout /\ ~InReadoutInput
    <3>1. UNCHANGED readoutInternals /\ frameworkPc' # "inReadoutInput"
      <4>1. CASE (\E k \in Kinds : Enqueue(k)) \/ RequestQueueNotify
        BY <4>1 DEF Enqueue, RequestQueueNotify, callVars
      <4>2. CASE ~(\E k \in Kinds : Enqueue(k)) /\ ~RequestQueueNotify
        BY <1>5, <2>3, <4>2 DEF FrameworkStep, BeginReleaseStream, InConfigure, InJpeg,
           CountConfigure, CountReadout, CountJpeg, EndCount, BeginClose, CloseRequestExit,
           CloseUnlock, CloseJoined, BeginCall, Call, StillInUse, FrameworkMoves
      <4> QED BY <4>1, <4>2
    <3> QED BY <2>0, <3>1 DEF ReadoutPart
  <2> QED BY <2>1, <2>2, <2>3
<1>6. CASE UNCHANGED vars
  BY <1>6, ReadoutKept DEF vars, readoutPartVars, callVars
<1> QED BY <1>1, <1>2, <1>3, <1>4, <1>5, <1>6 DEF Next

LEMMA FrameworkKept == FrameworkPart /\ UNCHANGED frameworkPartVars => FrameworkPart'
BY DEF FrameworkPart, frameworkPartVars, queueVars, callVars

\* What is under way are requests.
LEMMA WorkingRequests ==
    ASSUME ConfigurePart, ReadoutPart, JpegPart
    PROVE  Working \subseteq Numbers
<1>1. mInFlightQueue \in Seq(Numbers)
  BY DEF ReadoutPart
<1>2. \A i \in 1..Len(mInFlightQueue) : mInFlightQueue[i] \in Numbers
  BY <1>1, ElementOfSeq
<1>3. {configureRequest, readoutRequest, readoutBuffers} \ {None} \subseteq Numbers
  BY DEF ConfigurePart, ReadoutPart, Upto, Numbers, None
<1>4. mIsBusy => mBuffers \in Numbers
  BY DEF JpegPart
<1> HIDE DEF Numbers
<1> QED BY <1>2, <1>3, <1>4 DEF Working

LEMMA FrameworkTyped ==
    ASSUME TypeInv, [Next]_vars
    PROVE  FrameworkPart'
<1> USE FakeCamera2Assumption
<1> USE DEF callVars, queueVars, mutexes
<1>0. FrameworkPart
  BY DEF TypeInv
<1>1. CASE FrameworkStep
  <2> USE DEF FrameworkMoves, BeginCall, Call, StillInUse
  <2>1. CASE \E k \in Kinds : Enqueue(k)
    <3>1. PICK k \in Kinds : Enqueue(k)
      BY <2>1
    <3>2. /\ kinds \in Seq(Kinds) /\ requestQueue \in Seq(Numbers) /\ calls \in Nat
          /\ kinds' = Append(kinds, k) /\ requestQueue' = Append(requestQueue, Len(kinds) + 1)
          /\ Len(kinds) + calls < MaxOperations
          /\ UNCHANGED <<mMutex, callVars, exitPending>>
      BY <1>0, <3>1 DEF FrameworkPart, Enqueue, WithinBound
    <3>3. notifyDue' \in BOOLEAN
      BY <1>0, <3>1, SMT DEF Enqueue, FrameworkPart
    <3>4. Len(kinds) \in Nat
      BY <3>2, LenProperties
    <3>5. Len(kinds) + 1 \in Numbers
      BY <3>2, <3>4 DEF Numbers
    <3>6. kinds' \in Seq(Kinds) /\ requestQueue' \in Seq(Numbers)
      BY <3>2, <3>5, AppendProperties
    <3> QED BY <1>0, <3>2, <3>3, <3>6 DEF FrameworkPart
  <2>2. CASE RequestQueueNotify
    <3>1. notifyDue' \in BOOLEAN
      BY Zenon, <2>2 DEF RequestQueueNotify
    <3> QED BY <1>0, <2>2, <3>1 DEF RequestQueueNotify, FrameworkPart
  <2> USE <1>0 DEF FrameworkPart
  <2>3. CASE \E s \in {"preview", "jpeg"} : BeginReleaseStream(s)
    <3>1. kinds \in Seq(Kinds)
      OBVIOUS
    <3>2. Len(kinds) \in Nat
      BY <3>1, LenProperties
    <3> QED BY <2>3, <3>2 DEF BeginReleaseStream, WithinBound
  <2>4. CASE InConfigure
    BY <2>4 DEF InConfigure
  <2>5. CASE InReadout \/ InReadoutInput
    BY <2>5 DEF InReadout, InReadoutInput
  <2>6. CASE InJpeg
    BY <2>6 DEF InJpeg
  <2>7. CASE CountConfigure
    <3>1. counted' \subseteq Numbers
      BY <2>7, WorkingRequests DEF CountConfigure, TypeInv
    <3>2. total' \in Nat
      BY <2>7 DEF CountConfigure, InProgress, TypeInv, ConfigurePart
    <3>3. Len(kinds) \in Nat
      BY LenProperties
    <3> HIDE DEF Numbers
    <3> QED BY <2>7, <3>1, <3>2, <3>3 DEF CountConfigure, WithinBound
  <2>8. CASE CountReadout
    <3>1. readoutCount \in Nat
      <4>1. mInFlightQueue \in Seq(Numbers)
        BY DEF TypeInv, ReadoutPart
      <4>2. Len(mInFlightQueue) \in Nat
        BY <4>1, LenProperties
      <4> QED BY <4>2 DEF TypeInv, ReadoutPart
    <3>2. total' \in Nat
      BY <2>8, <3>1 DEF CountReadout, InProgress
    <3> QED BY <2>8, <3>2 DEF CountReadout
  <2>9. CASE CountJpeg
    <3>1. total' \in Nat
      BY <2>9 DEF CountJpeg, InProgress
    <3> QED BY <2>9, <3>1 DEF CountJpeg
  <2>10. CASE EndCount
    BY <2>10 DEF EndCount
  <2>11. CASE BeginClose
    <3>1. Len(kinds) \in Nat
      BY LenProperties
    <3> QED BY <2>11, <3>1 DEF BeginClose, WithinBound
  <2>12. CASE CloseRequestExit
    <3>1. exitPending' \in BOOLEAN
      BY Zenon, <2>12 DEF CloseRequestExit
    <3> QED BY <2>12, <3>1 DEF CloseRequestExit
  <2>13. CASE CloseUnlock \/ CloseJoined
    BY <2>13 DEF CloseUnlock, CloseJoined
  <2> QED BY <1>1, <2>1, <2>2, <2>3, <2>4, <2>5, <2>6, <2>7, <2>8, <2>9, <2>10, <2>11, <2>12,
             <2>13 DEF FrameworkStep
<1>2. CASE ConfigureStep
  <2>1. UNCHANGED <<mMutex, exitPending, callVars, kinds, notifyDue>>
    BY <1>2, ConfigureFrame
  <2>2. requestQueue' = requestQueue \/ (requestQueue # <<>> /\ requestQueue' = Tail(requestQueue))
    BY <1>2 DEF ConfigureStep, ConfigureDequeue, ConfigureGoInactive, ConfigureCountRequest,
       ConfigureSetup, ConfigureAwaitReadout, ConfigureAwaitJpeg, ConfigureBeginVSync,
       ConfigureVSync, ConfigureExposure, ConfigureReprocess, ConfigureGetBuffers,
       SetNextOperation, ConfigureDone, ConfigureExit, NotConfigure
  <2>3. requestQueue \in Seq(Numbers)
    BY <1>0 DEF FrameworkPart
  <2>4. requestQueue' \in Seq(Numbers)
    BY <2>2, <2>3, HeadTailProperties
  <2> QED BY <1>0, <2>1, <2>4 DEF FrameworkPart
<1>3. CASE ReadoutStep
  BY <1>0, <1>3, ReadoutFrame, FrameworkKept DEF NotReadout, frameworkPartVars
<1>4. CASE JpegStep
  BY <1>0, <1>4, JpegFrame, FrameworkKept DEF NotJpeg, frameworkPartVars
<1>5. CASE SensorThread
  BY <1>0, <1>5, FrameworkKept DEF SensorThread, frameworkPartVars
<1>6. CASE UNCHANGED vars
  BY <1>0, <1>6, FrameworkKept DEF vars, frameworkPartVars
<1> QED BY <1>1, <1>2, <1>3, <1>4, <1>5, <1>6 DEF Next

LEMMA TypeInitially == Init => TypeInv
<1> SUFFICES ASSUME Init PROVE TypeInv
  OBVIOUS
<1> USE FakeCamera2Assumption DEF Init, Upto, None, NoBuffers
<1>1. /\ mGotVSync \in BOOLEAN /\ sensorExit \in BOOLEAN /\ mIsBusy \in BOOLEAN /\ mFoundAux \in BOOLEAN
      /\ configureActive \in BOOLEAN /\ nextBuffersMade \in BOOLEAN
      /\ mWaitingForReadout \in BOOLEAN /\ mNextNeedsJpeg \in BOOLEAN
      /\ readoutActive \in BOOLEAN /\ exitPending \in BOOLEAN /\ notifyDue \in BOOLEAN
  BY Zenon DEF JpegInit
<1>2. ConfigurePart
  BY <1>1 DEF ConfigurePart, ConfigureHolds
<1>3. ReadoutPart
  BY <1>1 DEF ReadoutPart, ReadoutHolds
<1>4. JpegPart
  BY <1>1 DEF JpegPart, JpegTypeOK, JpegInit
<1>5. SensorPart
  BY <1>1 DEF SensorPart, SensorTypeOK, SensorPcs, NoLatch
<1>6. FrameworkPart
  BY <1>1 DEF FrameworkPart
<1> QED BY <1>2, <1>3, <1>4, <1>5, <1>6 DEF TypeInv

LEMMA TypeInductive == TypeInv /\ [Next]_vars => TypeInv'
BY ConfigureTyped, SensorTyped, JpegTyped, ReadoutTyped, FrameworkTyped DEF TypeInv

LEMMA TypeImplied == TypeInv => TypeOK
<1> SUFFICES ASSUME TypeInv PROVE TypeOK
  OBVIOUS
<1>1. mInFlightQueue \in Seq(Numbers)
  BY DEF TypeInv, ReadoutPart
<1>2. Len(mInFlightQueue) \in Nat
  BY <1>1, LenProperties
<1>3. readoutCount \in Nat /\ configureCount \in Nat
  BY <1>2 DEF TypeInv, ReadoutPart, ConfigurePart
<1>4. /\ configureInternals \in {"none", "configure", "framework"}
      /\ readoutInternals \in {"none", "readout", "framework"} /\ readoutInput \in {"none", "readout"}
  BY DEF TypeInv, ReadoutPart, ConfigurePart
<1> QED BY <1>3, <1>4 DEF TypeInv, ConfigurePart, ReadoutPart, JpegPart, SensorPart, FrameworkPart, TypeOK

\* Every variable keeps to its type: no count goes below zero, the in-flight queue stays
\* within its ring, and what a thread hands on is a request.
THEOREM TypeCorrect == Spec => []TypeOK
BY TypeInitially, TypeInductive, TypeImplied, PTL DEF Spec

-----------------------------------------------------------------------------
(* The line of requests from the framework's queue to the results.         *)

\* The line in three parts: what has been in the in-flight queue, what the configure thread
\* holds, what waits.
Front  == results \o One(readoutRequest) \o mInFlightQueue
Middle == IF Queued THEN <<>> ELSE One(configureRequest)

\* The request of the configure thread has found room in the in-flight queue.
HasRoom == \/ configurePc \in {"vsync", "exposure", "buffers", "operation"}
           \/ configurePc = "wait" /\ ~mWaitingForReadout

LineInv ==
    /\ Increasing(Line)
    /\ Range(Line) \subseteq 1..Len(kinds)
    /\ configureRequest \in 0..Len(kinds)
    /\ \A r \in 1..Len(kinds) : \/ r \in Range(Line)
                                \/ r \in dropped /\ kinds[r] = "reprocess"
    /\ readoutPc \in {"streams", "start"} => readoutBuffers \in Range(results)
    /\ mIsBusy => mBuffers \in Range(results)
    /\ HasRoom /\ IsCapture(configureRequest) => ReadyForNextCapture

LEMMA LineParts ==
    ASSUME TypeInv
    PROVE  /\ Line = Front \o Middle \o requestQueue
           /\ results \in Seq(Numbers) /\ One(readoutRequest) \in Seq(Numbers)
           /\ mInFlightQueue \in Seq(Numbers) /\ Front \in Seq(Numbers)
           /\ Middle \in Seq(Numbers) /\ requestQueue \in Seq(Numbers)
           /\ Line \in Seq(Numbers)
<1>1. /\ results \in Seq(Numbers) /\ mInFlightQueue \in Seq(Numbers)
      /\ requestQueue \in Seq(Numbers)
      /\ readoutRequest \in Numbers \cup {None} /\ configureRequest \in Numbers \cup {None}
  BY DEF TypeInv, ReadoutPart, ConfigurePart, FrameworkPart, Upto, Numbers, None
<1> HIDE DEF Numbers
<1>2. One(readoutRequest) \in Seq(Numbers) /\ Middle \in Seq(Numbers)
  BY <1>1 DEF One, Middle
<1>3. Front \in Seq(Numbers)
  BY <1>1, <1>2 DEF Front
<1>4. Line = Front \o Middle \o requestQueue
  BY DEF Line, Front, Middle
<1>5. Line \in Seq(Numbers)
  BY <1>1, <1>2, <1>3, <1>4
<1> QED BY <1>1, <1>2, <1>3, <1>4, <1>5

LEMMA LineKept ==
    UNCHANGED <<results, readoutRequest, mInFlightQueue, requestQueue, Middle>> => Line' = Line
BY DEF Line, Middle, One

\* A request taken from the in-flight queue keeps its place.
LEMMA LineTake == TypeInv /\ ReadoutTake => Line' = Line
<1> SUFFICES ASSUME TypeInv, ReadoutTake PROVE Line' = Line
  OBVIOUS
<1> DEFINE h == <<Head(mInFlightQueue)>>
           t == Tail(mInFlightQueue)
<1>1. /\ mInFlightQueue # <<>> /\ readoutRequest = None
      /\ readoutRequest' = Head(mInFlightQueue) /\ mInFlightQueue' = t
      /\ UNCHANGED <<results, requestQueue, configureRequest, configurePc>>
  BY DEF ReadoutTake, TypeInv, ReadoutPart, NotReadout, queueVars, configureVars
<1>2. /\ mInFlightQueue = h \o t /\ Head(mInFlightQueue) \in Numbers
      /\ h \in Seq(Numbers) /\ t \in Seq(Numbers)
  BY <1>1, LineParts, HeadThenTail
<1>3. One(readoutRequest) = <<>> /\ One(readoutRequest)' = h
  BY <1>1, <1>2 DEF One, None, Numbers
<1> HIDE DEF h, t
<1>4. results \in Seq(Numbers) /\ results \o <<>> = results
  BY LineParts, ConcatEmptySeq
<1>5. Front = results \o (h \o t)
  BY <1>2, <1>3, <1>4 DEF Front
<1>6. Front' = (results \o h) \o t
  BY <1>1, <1>3 DEF Front
<1>7. Front' = Front
  BY SMTT(30), <1>2, <1>4, <1>5, <1>6, ConcatAssociative
<1> QED BY <1>1, <1>7 DEF Line, Front, Queued, One

\* The result of a request takes the place of the request.
LEMMA LineProcess == TypeInv /\ ReadoutProcess => Line' = Line
<1> SUFFICES ASSUME TypeInv, ReadoutProcess PROVE Line' = Line
  OBVIOUS
<1> DEFINE r == <<readoutRequest>>
<1>1. /\ readoutRequest # None /\ readoutRequest' = None
      /\ results' = Append(results, readoutRequest)
      /\ UNCHANGED <<mInFlightQueue, requestQueue, configureRequest, configurePc>>
  BY DEF ReadoutProcess, ReadoutMoves, TypeInv, ReadoutPart, NotReadout, queueVars, configureVars
<1>2. readoutRequest \in Numbers
  BY <1>1 DEF TypeInv, ReadoutPart, Upto, Numbers, None
<1>3. results \in Seq(Numbers) /\ results' = results \o r /\ r \in Seq(Numbers)
  BY <1>1, <1>2, LineParts, AppendIsConcat
<1>4. One(readoutRequest) = r /\ One(readoutRequest)' = <<>>
  BY <1>1 DEF One
<1> HIDE DEF r
<1>5. (results \o r) \o <<>> = results \o r
  BY <1>3, ConcatEmptySeq, ConcatProperties
<1>6. Front' = Front
  BY <1>1, <1>3, <1>4, <1>5 DEF Front
<1> QED BY <1>1, <1>6 DEF Line, Front, Queued, One

\* So do a request that goes into the in-flight queue, and one taken from the framework's.
LEMMA LineQueue == TypeInv /\ SetNextOperation /\ ReadyForNextCapture => Line' = Line
<1> SUFFICES ASSUME TypeInv, SetNextOperation, ReadyForNextCapture PROVE Line' = Line
  OBVIOUS
<1> DEFINE c == <<configureRequest>>
           b == results \o One(readoutRequest)
<1>1. /\ configurePc = "operation" /\ configurePc' = "done"
      /\ mInFlightQueue' = Append(mInFlightQueue, configureRequest)
      /\ UNCHANGED <<results, readoutRequest, requestQueue, configureRequest>>
  BY DEF SetNextOperation, ConfigureMoves, queueVars
<1>2. configureRequest \in Numbers /\ configureRequest # None
  BY <1>1 DEF TypeInv, ConfigurePart, Upto, Numbers, None
<1>3. /\ mInFlightQueue \in Seq(Numbers) /\ c \in Seq(Numbers)
      /\ mInFlightQueue' = mInFlightQueue \o c
  BY <1>1, <1>2, LineParts, AppendIsConcat
<1>4. b \in Seq(Numbers) /\ b' = b
  BY <1>1, LineParts, ConcatProperties DEF One
<1>5. Middle = c /\ Middle' = <<>>
  BY <1>1, <1>2 DEF Middle, Queued, One
<1>6. Front = b \o mInFlightQueue /\ Front' = b' \o mInFlightQueue'
  BY DEF Front
<1> HIDE DEF c, b
<1>7. Front' = Front \o c
  BY SMTT(30), <1>3, <1>4, <1>6, ConcatAssociative
<1>8. (Front \o c) \o <<>> = Front \o c
  BY <1>3, LineParts, ConcatProperties, ConcatEmptySeq
<1>9. Front' \o Middle' = Front \o Middle
  BY <1>5, <1>7, <1>8
<1>10. Line = (Front \o Middle) \o requestQueue /\ Line' = (Front' \o Middle') \o requestQueue'
  BY DEF Line, Front, Middle
<1> QED BY <1>1, <1>9, <1>10

LEMMA LineDequeue == TypeInv /\ ConfigureDequeue => Line' = Line
<1> SUFFICES ASSUME TypeInv, ConfigureDequeue PROVE Line' = Line
  OBVIOUS
<1>0. UNCHANGED <<results, readoutRequest, mInFlightQueue>>
  BY DEF ConfigureDequeue, NotConfigure, readoutVars
<1>1. CASE requestQueue = <<>>
  <2>1. UNCHANGED <<requestQueue, configureRequest>> /\ configurePc = "loop" /\ configurePc' = "empty"
    BY <1>1 DEF ConfigureDequeue, ConfigureMoves
  <2> QED BY <1>0, <2>1 DEF Line, Queued, One
<1>2. CASE requestQueue # <<>>
  <2> DEFINE h == <<Head(requestQueue)>>
             t == Tail(requestQueue)
  <2>1. /\ configurePc' = "dequeued" /\ configureRequest = None
        /\ configureRequest' = Head(requestQueue) /\ requestQueue' = t
    BY <1>2 DEF ConfigureDequeue, ConfigureMoves
  <2>2. /\ requestQueue = h \o t /\ Head(requestQueue) \in Numbers
        /\ h \in Seq(Numbers) /\ t \in Seq(Numbers)
    BY <1>2, LineParts, HeadThenTail
  <2>3. Middle = <<>> /\ Middle' = h
    BY <2>1, <2>2 DEF Middle, Queued, One, None, Numbers
  <2>4. Front' = Front
    BY <1>0 DEF Front, One
  <2>5. Line = (Front \o Middle) \o requestQueue /\ Line' = (Front' \o Middle') \o requestQueue'
    BY DEF Line, Front, Middle
  <2>6. requestQueue' = t
    BY <2>1
  <2> HIDE DEF h, t
  <2>7. Front \in Seq(Numbers) /\ Front \o <<>> = Front
    BY LineParts, ConcatEmptySeq
  <2>8. (Front \o h) \o t = Front \o (h \o t)
    BY SMTT(30), <2>2, <2>7, ConcatAssociative
  <2> QED BY <2>2, <2>3, <2>4, <2>5, <2>6, <2>7, <2>8
<1> QED BY <1>1, <1>2

\* A new request goes to the end.
LEMMA LineEnqueue ==
    ASSUME TypeInv, NEW k \in Kinds, Enqueue(k)
    PROVE  Line' = Append(Line, Len(kinds) + 1) /\ Len(kinds) + 1 \in Numbers /\ Len(kinds) \in Nat
<1> DEFINE n == Len(kinds) + 1
           e == <<n>>
<1>1. /\ requestQueue' = Append(requestQueue, n) /\ Len(kinds) + calls < MaxOperations
      /\ UNCHANGED <<results, readoutRequest, mInFlightQueue, configureRequest, configurePc>>
  BY DEF Enqueue, WithinBound, OnlyFramework, readoutVars
<1>2. kinds \in Seq(Kinds) /\ calls \in Nat
  BY DEF TypeInv, FrameworkPart
<1>3. n \in Numbers /\ Len(kinds) \in Nat
  BY <1>1, <1>2, LenProperties, FakeCamera2Assumption DEF Numbers
<1>4. /\ requestQueue \in Seq(Numbers) /\ Line \in Seq(Numbers) /\ Front \o Middle \in Seq(Numbers)
      /\ requestQueue' = requestQueue \o e /\ Append(Line, n) = Line \o e /\ e \in Seq(Numbers)
  <2>1. requestQueue \in Seq(Numbers) /\ Line \in Seq(Numbers) /\ Front \o Middle \in Seq(Numbers)
    BY LineParts, ConcatProperties
  <2> HIDE DEF n, Numbers
  <2>2. e \in Seq(Numbers)
    BY <1>3
  <2> QED BY <1>1, <1>3, <2>1, <2>2, AppendIsConcat
<1>5. Front' = Front /\ Middle' = Middle
  BY <1>1 DEF Front, Middle, Queued, One
<1>6. Line = (Front \o Middle) \o requestQueue /\ Line' = (Front' \o Middle') \o requestQueue'
  BY DEF Line, Front, Middle
<1> HIDE DEF n, e
<1>7. Line' = Append(Line, n)
  <2> DEFINE m == Front \o Middle
  <2>1. m \in Seq(Numbers) /\ Line = m \o requestQueue /\ Line' = m \o (requestQueue \o e)
    BY <1>4, <1>5, <1>6
  <2> HIDE DEF m
  <2>2. (m \o requestQueue) \o e = m \o (requestQueue \o e)
    BY SMTT(30), <1>4, <2>1, ConcatAssociative
  <2> QED BY <1>4, <2>1, <2>2
<1> QED BY <1>3, <1>7 DEF n

\* A request that finds no room leaves the line.
LEMMA LineDrop ==
    ASSUME TypeInv, SetNextOperation, ~ReadyForNextCapture
    PROVE  /\ Line = Front \o <<configureRequest>> \o requestQueue
           /\ Line' = Front \o requestQueue
           /\ configureRequest \in Numbers
<1>1. /\ configurePc = "operation" /\ configurePc' = "done"
      /\ UNCHANGED <<results, readoutRequest, mInFlightQueue, requestQueue, configureRequest>>
  BY DEF SetNextOperation, ConfigureMoves, queueVars
<1>2. configureRequest \in Numbers /\ configureRequest # None
  BY <1>1 DEF TypeInv, ConfigurePart, Upto, Numbers, None
<1>3. Middle = <<configureRequest>> /\ Middle' = <<>>
  BY <1>1, <1>2 DEF Middle, Queued, One
<1>4. Front \in Seq(Numbers) /\ Front \o <<>> = Front
  BY LineParts, ConcatEmptySeq
<1>5. Line = (Front \o Middle) \o requestQueue /\ Line' = (Front' \o Middle') \o requestQueue'
  BY DEF Line, Front, Middle
<1>6. Front' = Front
  BY <1>1 DEF Front, One
<1> QED BY <1>1, <1>2, <1>3, <1>4, <1>5, <1>6

\* Every step but the two keeps the line as it is, and nothing else drops a request.
LEMMA LineStep ==
    ASSUME TypeInv, [Next]_vars,
           ~\E k \in Kinds : Enqueue(k),
           ~(SetNextOperation /\ ~ReadyForNextCapture)
    PROVE  Line' = Line /\ kinds' = kinds /\ dropped' = dropped
<1> USE DEF callVars, queueVars, readoutVars, configureVars, mutexes
<1>1. CASE ConfigureStep
  <2>0. UNCHANGED <<kinds, results>>
    BY <1>1, ConfigureFrame
  <2>1. CASE SetNextOperation
    BY <2>0, <2>1, LineQueue DEF SetNextOperation
  <2>2. CASE ConfigureDequeue
    BY <2>0, <2>2, LineDequeue DEF ConfigureDequeue, NotConfigure
  <2>3. CASE ConfigureDone
    <3>1. Middle = <<>> /\ Middle' = <<>>
      BY <2>3 DEF ConfigureDone, ConfigureMoves, Middle, Queued, One
    <3> QED BY <2>0, <2>3, <3>1, LineKept DEF ConfigureDone
  <2>4. CASE ConfigureGoInactive \/ ConfigureCountRequest \/ ConfigureSetup \/ ConfigureExit
    BY <2>0, <2>4, LineKept DEF ConfigureGoInactive, ConfigureCountRequest, ConfigureSetup,
       ConfigureExit, NotConfigure, ConfigureMoves, Middle, Queued, One
  <2>5. CASE ConfigureAwaitReadout \/ ConfigureAwaitJpeg \/ ConfigureBeginVSync \/ ConfigureVSync
    BY <2>0, <2>5, LineKept DEF ConfigureAwaitReadout, ConfigureAwaitJpeg, ConfigureBeginVSync,
       ConfigureVSync, NotConfigure, ConfigureMoves, Middle, Queued, One
  <2>6. CASE ConfigureExposure \/ ConfigureReprocess \/ ConfigureGetBuffers
    BY <2>0, <2>6, LineKept DEF ConfigureExposure, ConfigureReprocess, ConfigureGetBuffers,
       NotConfigure, ConfigureMoves, Middle, Queued, One
  <2> QED BY <1>1, <2>1, <2>2, <2>3, <2>4, <2>5, <2>6 DEF ConfigureStep
<1>2. CASE ReadoutStep
  <2>0. UNCHANGED <<kinds, requestQueue, configureRequest, configurePc>> /\ Middle' = Middle
    BY <1>2, ReadoutFrame DEF NotReadout, Middle, Queued, One
  <2>1. CASE ReadoutTake
    BY <2>0, <2>1, LineTake DEF ReadoutTake
  <2>2. CASE ReadoutProcess
    BY <2>0, <2>2, LineProcess DEF ReadoutProcess
  <2>3. CASE ~ReadoutTake /\ ~ReadoutProcess
    <3>1. UNCHANGED <<results, readoutRequest, mInFlightQueue, dropped>>
      BY <1>2, <2>3 DEF ReadoutStep, ReadoutGoInactive, ReadoutInputFirst, ReadoutResume,
         ReadoutAwaitFrame, ReadoutStreams, ReadoutStart, ReadoutCountDone, ReadoutFails,
         ReadoutExit
    <3> QED BY <2>0, <3>1, LineKept
  <2> QED BY <2>1, <2>2, <2>3
<1>3. CASE JpegStep
  BY <1>3, JpegFrame, LineKept DEF NotJpeg, Middle, Queued, One
<1>4. CASE SensorThread
  BY <1>4, LineKept DEF SensorThread, Middle, Queued, One
<1>5. CASE FrameworkStep
  <2>1. UNCHANGED <<kinds, requestQueue>>
    BY <1>5 DEF FrameworkStep, RequestQueueNotify, BeginReleaseStream, InConfigure, InReadout,
       InReadoutInput, InJpeg, CountConfigure, CountReadout, CountJpeg, EndCount, BeginClose,
       CloseRequestExit, CloseUnlock, CloseJoined, BeginCall, Call, StillInUse
  <2>2. UNCHANGED <<results, readoutRequest, mInFlightQueue, dropped>> /\ Middle' = Middle
    BY <1>5, FrameworkFrame DEF OnlyFramework, Middle, Queued, One
  <2> QED BY <2>1, <2>2, LineKept
<1>6. CASE UNCHANGED vars
  BY <1>6, LineKept DEF vars, Middle, Queued, One
<1> QED BY <1>1, <1>2, <1>3, <1>4, <1>5, <1>6 DEF Next

\* What a request asks for does not change.
LEMMA KindsKept ==
    ASSUME TypeInv, [Next]_vars
    PROVE  /\ Len(kinds) \in Nat /\ Len(kinds') \in Nat /\ Len(kinds) <= Len(kinds')
           /\ \A r \in 1..Len(kinds) : kinds'[r] = kinds[r]
<1>0. kinds \in Seq(Kinds)
  BY DEF TypeInv, FrameworkPart
<1>1. Len(kinds) \in Nat
  BY <1>0, LenProperties
<1>2. CASE \E k \in Kinds : Enqueue(k)
  <2>1. PICK k \in Kinds : kinds' = Append(kinds, k)
    BY <1>2 DEF Enqueue
  <2> HIDE DEF Kinds
  <2>2. /\ Len(Append(kinds, k)) = Len(kinds) + 1
        /\ \A r \in 1..Len(kinds) : Append(kinds, k)[r] = kinds[r]
    BY <1>0, AppendProperties
  <2> QED BY <1>1, <2>1, <2>2
<1>3. CASE ~\E k \in Kinds : Enqueue(k)
  <2>1. kinds' = kinds
    <3>1. CASE FrameworkStep
      BY <1>3, <3>1 DEF FrameworkStep, RequestQueueNotify, BeginReleaseStream, InConfigure, InReadout,
       InReadoutInput, InJpeg, CountConfigure, CountReadout, CountJpeg, EndCount, BeginClose,
       CloseRequestExit, CloseUnlock, CloseJoined, BeginCall, Call, StillInUse, queueVars
    <3>2. CASE ~FrameworkStep
      BY <3>2, ConfigureFrame, ReadoutFrame, JpegFrame
         DEF Next, NotReadout, NotJpeg, SensorThread, queueVars, vars
    <3> QED BY <3>1, <3>2
  <2> QED BY <1>1, <2>1
<1> QED BY <1>2, <1>3

\* The room found in the in-flight queue for a capture is there until the capture uses it.
LEMMA RoomKept ==
    ASSUME TypeInv, LineInv, [Next]_vars, HasRoom', IsCapture(configureRequest)'
    PROVE  ReadyForNextCapture'
<1> USE FakeCamera2Assumption DEF callVars, queueVars, readoutVars, configureVars, mutexes
<1>1. CASE ConfigureStep
  <2> USE DEF HasRoom, ConfigureMoves
  <2>0. UNCHANGED kinds
    BY <1>1, ConfigureFrame
  <2>1. CASE ConfigureSetup
    <3>1. configurePc' = "wait" /\ ~mWaitingForReadout' /\ configureRequest' = configureRequest
      BY <2>1 DEF ConfigureSetup
    <3>2. mWaitingForReadout' = WaitsForReadout(configureRequest)
      BY <2>1, <3>1 DEF ConfigureSetup
    <3> QED BY <2>0, <3>1, <3>2 DEF WaitsForReadout, IsCapture
  <2>2. CASE ConfigureAwaitReadout
    BY <2>2 DEF ConfigureAwaitReadout, NotConfigure, ReadyForNextCapture
  <2>3. CASE ConfigureReprocess
    BY <2>0, <2>3 DEF ConfigureReprocess, IsCapture
  <2>4. CASE ConfigureAwaitJpeg \/ ConfigureBeginVSync \/ ConfigureVSync
    BY <2>0, <2>4 DEF ConfigureAwaitJpeg, ConfigureBeginVSync, ConfigureVSync, ReadyToConfigure,
       NotConfigure, IsCapture, LineInv, ReadyForNextCapture
  <2>5. CASE ConfigureExposure \/ ConfigureGetBuffers
    BY <2>0, <2>5 DEF ConfigureExposure, ConfigureGetBuffers, NotConfigure, IsCapture, LineInv,
       ReadyForNextCapture
  <2>6. CASE SetNextOperation \/ ConfigureDone
    BY <2>6 DEF SetNextOperation, ConfigureDone
  <2>7. CASE ConfigureDequeue \/ ConfigureGoInactive \/ ConfigureCountRequest \/ ConfigureExit
    BY <2>7 DEF ConfigureDequeue, ConfigureGoInactive, ConfigureCountRequest, ConfigureExit
  <2> QED BY <1>1, <2>1, <2>2, <2>3, <2>4, <2>5, <2>6, <2>7 DEF ConfigureStep
<1>2. CASE ~ConfigureStep
  <2>1. UNCHANGED <<configurePc, configureRequest, mWaitingForReadout>>
    BY <1>2, ReadoutFrame, JpegFrame, FrameworkFrame
       DEF Next, NotReadout, NotJpeg, SensorThread, OnlyFramework, vars
  <2>2. HasRoom /\ configureRequest \in 1..Len(kinds)
    BY <2>1 DEF HasRoom, TypeInv, ConfigurePart, LineInv, None, Upto
  <2>3. IsCapture(configureRequest)
    BY <2>1, <2>2, KindsKept DEF IsCapture
  <2>4. ReadyForNextCapture
    BY <2>2, <2>3 DEF LineInv
  <2>5. CASE ReadoutTake
    <3>1. mInFlightQueue # <<>> /\ mInFlightQueue' = Tail(mInFlightQueue)
      BY <2>5 DEF ReadoutTake, TypeInv, ReadoutPart
    <3>2. Len(mInFlightQueue) \in Nat /\ Len(mInFlightQueue') = Len(mInFlightQueue) - 1
      BY <3>1, InFlightTail DEF TypeInv
    <3> QED BY <2>4, <3>2 DEF ReadyForNextCapture
  <2>6. CASE ~ReadoutTake
    <3>1. UNCHANGED mInFlightQueue
      <4>1. CASE ReadoutStep
        BY <2>6, <4>1 DEF ReadoutStep, ReadoutGoInactive, ReadoutInputFirst, ReadoutResume,
         ReadoutAwaitFrame, ReadoutProcess, ReadoutStreams, ReadoutStart, ReadoutCountDone,
         ReadoutFails, ReadoutExit
      <4>2. CASE ~ReadoutStep
        BY <1>2, <4>2, JpegFrame, FrameworkFrame DEF Next, NotJpeg, SensorThread, OnlyFramework, vars
      <4> QED BY <4>1, <4>2
    <3> QED BY <2>4, <3>1 DEF ReadyForNextCapture
  <2> QED BY <2>5, <2>6
<1> QED BY <1>1, <1>2

\* A request in the buffers of the readout thread, or of the compressor, has its result.
LEMMA ResultsKept ==
    ASSUME TypeInv, LineInv, [Next]_vars
    PROVE  /\ Range(results) \subseteq Range(results')
           /\ readoutPc' \in {"streams", "start"} => readoutBuffers' \in Range(results')
           /\ mIsBusy' => mBuffers' \in Range(results')
<1> USE DEF readoutVars, mutexes, jpegVars
<1>1. CASE ReadoutProcess
  <2>1. readoutRequest \in Numbers /\ readoutBuffers = readoutRequest
    BY <1>1 DEF ReadoutProcess, ReadoutMoves, TypeInv, ReadoutPart, Upto, Numbers, None
  <2>2. Range(results') = Range(results) \cup {readoutRequest}
    BY <1>1, <2>1, LineParts, AppendRange DEF ReadoutProcess
  <2>3. UNCHANGED <<mIsBusy, mBuffers, readoutBuffers>>
    BY <1>1 DEF ReadoutProcess
  <2> QED BY <2>1, <2>2, <2>3 DEF LineInv
<1>2. CASE ReadoutStart
  <2>1. results' = results /\ readoutPc = "start" /\ readoutPc' = "count"
    BY <1>2 DEF ReadoutStart, ReadoutMoves
  <2>2. mIsBusy' => mBuffers' = readoutBuffers \/ (mIsBusy /\ mBuffers' = mBuffers)
    BY <1>2 DEF ReadoutStart, StartRefused, Started, StartFailed
  <2> QED BY <2>1, <2>2 DEF LineInv
<1>3. CASE JpegStep
  <2>1. UNCHANGED <<results, readoutPc, readoutBuffers>>
    BY <1>3, JpegFrame DEF NotJpeg
  <2>2. mIsBusy' => mIsBusy /\ mBuffers' = mBuffers
    BY <1>3 DEF JpegStep, JpegCompressed, JpegCancelled, OnJpegDone, CleanUp, OnJpegInputDone,
                JpegEnds, Compress, JpegCleanUp, CleanUpBusy, JpegThreadExit
  <2> QED BY <2>1, <2>2 DEF LineInv
<1>4. CASE ~ReadoutProcess /\ ~ReadoutStart /\ ReadoutStep
  <2>1. UNCHANGED <<results, mIsBusy, mBuffers>>
    BY <1>4 DEF ReadoutStep, ReadoutGoInactive, ReadoutInputFirst, ReadoutTake, ReadoutResume,
         ReadoutAwaitFrame, ReadoutStreams, ReadoutCountDone, ReadoutFails, ReadoutExit
  <2>2. readoutPc' \in {"streams", "start"} =>
          readoutPc \in {"streams", "start"} /\ readoutBuffers' = readoutBuffers
    BY <1>4 DEF ReadoutStep, ReadoutGoInactive, ReadoutInputFirst, ReadoutTake, ReadoutResume,
         ReadoutAwaitFrame, ReadoutStreams, ReadoutCountDone, ReadoutFails, ReadoutExit, ReadoutMoves, AfterTake
  <2> QED BY <2>1, <2>2 DEF LineInv
<1>5. CASE ~ReadoutStep /\ ~JpegStep
  <2>1. UNCHANGED <<results, readoutPc, readoutBuffers, mIsBusy, mBuffers>>
    <3>1. CASE ConfigureStep
      <4>1. UNCHANGED <<results, mIsBusy, mBuffers>>
        BY <3>1, ConfigureFrame DEF ConfigureStep, ConfigureDequeue, ConfigureGoInactive,
         ConfigureCountRequest, ConfigureSetup, ConfigureAwaitReadout, ConfigureAwaitJpeg,
         ConfigureBeginVSync, ConfigureVSync, ConfigureExposure, ConfigureReprocess,
         ConfigureGetBuffers, SetNextOperation, ConfigureDone, ConfigureExit, NotConfigure,
         WaitForDoneAtOnce, WaitForDoneBlock, WaitForDoneEnds
      <4>2. UNCHANGED <<readoutPc, readoutBuffers>>
        BY <3>1 DEF ConfigureStep, ConfigureDequeue, ConfigureGoInactive,
         ConfigureCountRequest, ConfigureSetup, ConfigureAwaitReadout, ConfigureAwaitJpeg,
         ConfigureBeginVSync, ConfigureVSync, ConfigureExposure, ConfigureReprocess,
         ConfigureGetBuffers, SetNextOperation, ConfigureDone, ConfigureExit, NotConfigure
      <4> QED BY <4>1, <4>2
    <3>2. CASE ~ConfigureStep
      BY <1>5, <3>2, FrameworkFrame DEF Next, SensorThread, OnlyFramework, vars
    <3> QED BY <3>1, <3>2
  <2> QED BY <2>1 DEF LineInv
<1> QED BY <1>1, <1>2, <1>3, <1>4, <1>5

\* A capture is not dropped.
LEMMA NotDropped ==
    ASSUME TypeInv, LineInv, SetNextOperation, ~ReadyForNextCapture
    PROVE  kinds[configureRequest] = "reprocess"
BY DEF SetNextOperation, ConfigureMoves, LineInv, HasRoom, IsCapture

LEMMA LineOrdered ==
    ASSUME TypeInv, LineInv, [Next]_vars
    PROVE  /\ Increasing(Line') /\ Range(Line') \subseteq 1..Len(kinds')
           /\ \A r \in 1..Len(kinds') : \/ r \in Range(Line')
                                        \/ r \in dropped' /\ kinds'[r] = "reprocess"
<1>0. Line \in Seq(Numbers) /\ Numbers \subseteq Nat /\ Line \in Seq(Nat)
  <2>1. Line \in Seq(Numbers)
    BY LineParts
  <2>2. Numbers \subseteq Nat
    BY FakeCamera2Assumption DEF Numbers
  <2> HIDE DEF Numbers
  <2> QED BY <2>1, <2>2, SeqMonotonic
<1>1. CASE \E k \in Kinds : Enqueue(k)
  <2> DEFINE n == Len(kinds) + 1
             e == <<n>>
  <2>1. PICK k \in Kinds : Enqueue(k)
    BY <1>1
  <2>2. Line' = Append(Line, n) /\ n \in Numbers /\ Len(kinds) \in Nat /\ dropped' = dropped
    BY <2>1, LineEnqueue DEF Enqueue, OnlyFramework, readoutVars
  <2>3. Len(kinds') = n /\ \A r \in 1..Len(kinds) : kinds'[r] = kinds[r]
    <3>1. kinds' = Append(kinds, k) /\ kinds \in Seq(Kinds)
      BY <2>1 DEF Enqueue, TypeInv, FrameworkPart
    <3> HIDE DEF Kinds
    <3> QED BY <3>1, AppendProperties
  <2>4. n \in Nat /\ \A r \in 1..n : r = n \/ r \in 1..Len(kinds)
    BY <2>2
  <2>5. Range(Line') = Range(Line) \cup {n}
    <3> HIDE DEF n, Numbers
    <3> QED BY <1>0, <2>2, AppendRange
  <2>6. Line' = Line \o e /\ e \in Seq(Nat) /\ Range(e) = {n} /\ Increasing(e)
    <3>1. n \in Nat
      BY <2>4
    <3> HIDE DEF n
    <3> QED BY <1>0, <2>2, <3>1, AppendIsConcat, Single
  <2>7. \A x \in Range(Line), y \in Range(e) : x < y
    BY <2>2, <2>6 DEF LineInv
  <2> HIDE DEF e, n
  <2>8. Increasing(Line')
    BY <1>0, <2>6, <2>7, IncreasingConcat DEF LineInv
  <2>9. Range(Line') \subseteq 1..Len(kinds')
    BY <2>2, <2>3, <2>5 DEF LineInv, n
  <2> QED BY <2>2, <2>3, <2>4, <2>5, <2>8, <2>9 DEF LineInv
<1>2. CASE SetNextOperation /\ ~ReadyForNextCapture
  <2> DEFINE c == <<configureRequest>>
             fc == Front \o c
  <2>1. Line = fc \o requestQueue /\ Line' = Front \o requestQueue /\ configureRequest \in Numbers
    BY <1>2, LineDrop
  <2>2. Front \in Seq(Nat) /\ requestQueue \in Seq(Nat)
    BY <1>0, LineParts, SeqMonotonic
  <2>3. c \in Seq(Nat) /\ Range(c) = {configureRequest} /\ Increasing(c)
    BY <1>0, <2>1, Single
  <2> HIDE DEF c
  <2>4. fc \in Seq(Nat) /\ Range(fc) = Range(Front) \cup {configureRequest}
    BY <2>2, <2>3, ConcatProperties, RangeConcatenation
  <2>5. Increasing(fc) => Increasing(Front)
    BY <2>2, <2>3, IncreasingConcat
  <2> HIDE DEF fc
  <2>6. /\ Range(Line) = Range(fc) \cup Range(requestQueue)
        /\ Range(Line') = Range(Front) \cup Range(requestQueue)
    BY <2>1, <2>2, <2>4, RangeConcatenation
  <2>7. Increasing(fc) /\ Increasing(requestQueue) /\ \A x \in Range(fc), y \in Range(requestQueue) : x < y
    BY <2>1, <2>2, <2>4, IncreasingConcat DEF LineInv
  <2>8. Increasing(Line')
    BY <2>1, <2>2, <2>4, <2>5, <2>7, IncreasingConcat
  <2>9. kinds' = kinds /\ dropped' = dropped \cup {configureRequest}
    BY <1>2 DEF SetNextOperation, queueVars
  <2>10. kinds[configureRequest] = "reprocess"
    BY <1>2, NotDropped
  <2>11. Range(Line') \subseteq 1..Len(kinds')
    BY <2>4, <2>6, <2>9 DEF LineInv
  <2>12. ASSUME NEW r \in 1..Len(kinds)
         PROVE  r \in Range(Line') \/ (r \in dropped' /\ kinds'[r] = "reprocess")
    <3>1. r \in Range(Line) \/ (r \in dropped /\ kinds[r] = "reprocess")
      BY DEF LineInv
    <3>2. r \in Range(Line) => r \in Range(Line') \/ r = configureRequest
      BY <2>4, <2>6
    <3> QED BY <2>9, <2>10, <3>1, <3>2
  <2> QED BY <2>8, <2>9, <2>11, <2>12
<1>3. CASE (~\E k \in Kinds : Enqueue(k)) /\ ~(SetNextOperation /\ ~ReadyForNextCapture)
  BY <1>3, LineStep DEF LineInv
<1> QED BY <1>1, <1>2, <1>3

LEMMA LineInductive ==
    ASSUME TypeInv, LineInv, [Next]_vars
    PROVE  LineInv'
<1>1. configureRequest' \in 0..Len(kinds')
  <2>0. Len(kinds) \in Nat /\ Len(kinds') \in Nat /\ Len(kinds) <= Len(kinds')
    BY KindsKept
  <2>1. CASE ConfigureDequeue /\ requestQueue # <<>>
    <3>1. configureRequest' = Head(requestQueue) /\ kinds' = kinds
      BY <2>1 DEF ConfigureDequeue, ConfigureMoves
    <3>2. Head(requestQueue) \in Range(requestQueue)
      BY <2>1, LineParts, HeadTailRange
    <3>3. Range(requestQueue) \subseteq Range(Line)
      <4> DEFINE m == Front \o Middle
      <4>1. m \in Seq(Numbers) /\ requestQueue \in Seq(Numbers) /\ Line = m \o requestQueue
        BY LineParts, ConcatProperties
      <4> HIDE DEF m
      <4> QED BY <4>1, RangeConcatenation
    <3> QED BY <2>0, <3>1, <3>2, <3>3 DEF LineInv
  <2>2. CASE ~(ConfigureDequeue /\ requestQueue # <<>>)
    <3>1. configureRequest' \in {configureRequest, None}
      <4>1. CASE ConfigureStep
        BY <2>2, <4>1 DEF ConfigureStep, ConfigureDequeue, ConfigureGoInactive,
         ConfigureCountRequest, ConfigureSetup, ConfigureAwaitReadout, ConfigureAwaitJpeg,
         ConfigureBeginVSync, ConfigureVSync, ConfigureExposure, ConfigureReprocess,
         ConfigureGetBuffers, SetNextOperation, ConfigureDone, ConfigureExit, NotConfigure
      <4>2. CASE ~ConfigureStep
        BY <4>2, ReadoutFrame, JpegFrame, FrameworkFrame
           DEF Next, NotReadout, NotJpeg, SensorThread, OnlyFramework, vars, configureVars
      <4> QED BY <4>1, <4>2
    <3> QED BY <2>0, <3>1 DEF LineInv, None
  <2> QED BY <2>1, <2>2
<1> QED BY <1>1, LineOrdered, ResultsKept, RoomKept DEF LineInv

LEMMA LineInitially == Init => LineInv
<1> SUFFICES ASSUME Init PROVE LineInv
  OBVIOUS
<1>1. Line = <<>> /\ kinds = <<>> /\ configureRequest = 0 /\ ~HasRoom /\ ~mIsBusy /\ readoutPc = "loop"
  BY DEF Init, JpegInit, Line, Queued, One, HasRoom, None
<1>2. Range(Line) = {} /\ Increasing(Line)
  BY <1>1, EmptyRange
<1>3. Len(kinds) = 0
  BY <1>1
<1> QED BY <1>1, <1>2, <1>3 DEF LineInv

LEMMA LineImplied == TypeInv /\ LineInv => CapturesKept
<1> SUFFICES ASSUME TypeInv, LineInv PROVE CapturesKept
  OBVIOUS
<1>1. Line \in Seq(Numbers)
  BY LineParts
<1> HIDE DEF Numbers
<1>2. \A x : x \in Range(Line) <=> \E i \in 1..Len(Line) : Line[i] = x
  BY <1>1, InRange
<1>3. \A r \in 1..Len(kinds) : \/ \E i \in 1..Len(Line) : Line[i] = r
                               \/ r \in dropped /\ kinds[r] = "reprocess"
  BY <1>2 DEF LineInv
<1> QED BY <1>3 DEF LineInv, CapturesKept, Increasing

\* However the threads interleave, requests stay in their order from the framework's queue
\* to the results, and no capture is lost on the way: the configure thread, which finds the
\* in-flight queue full only for reprocess requests, is the only one to drop any.
THEOREM RequestsKept == Spec => []CapturesKept
BY TypeInitially, LineInitially, TypeInductive, LineInductive, LineImplied, PTL DEF Spec

-----------------------------------------------------------------------------
(* The frames in the sensor and the requests that wait for them.           *)

\* The places of the sensor from the reader's end, and before the first the capture whose
\* buffers the sensor has not been given yet.
UnsetFrame == IF Queued /\ IsCapture(configureRequest) THEN configureRequest ELSE None
InSensor   == {mCapturedBuffers, CapturedFrame, LatchedFrame, mNextBuffers, UnsetFrame} \ {None}

Before(a, b) == a # None /\ b # None => a < b

FrameOrder ==
    /\ Before(mCapturedBuffers, CapturedFrame) /\ Before(mCapturedBuffers, LatchedFrame)
    /\ Before(mCapturedBuffers, mNextBuffers) /\ Before(mCapturedBuffers, UnsetFrame)
    /\ Before(CapturedFrame, LatchedFrame) /\ Before(CapturedFrame, mNextBuffers)
    /\ Before(CapturedFrame, UnsetFrame) /\ Before(LatchedFrame, mNextBuffers)
    /\ Before(LatchedFrame, UnsetFrame) /\ Before(mNextBuffers, UnsetFrame)

\* The requests that the readout thread has not got to yet, and the captures among them.
Pending ==
    (Range(mInFlightQueue)
       \cup (IF readoutPc \in {"process", "failed"} THEN {} ELSE {readoutRequest})) \ {None}
Awaited == {r \in Pending : IsCapture(r)}

\* The sensor has latched the last buffers before it is given the next.
BuffersSpent ==
    /\ configurePc \in {"vsync", "exposure"} => IsCapture(configureRequest)
    /\ configurePc = "vsync" /\ mGotVSync => mNextBuffers = NoBuffers
    /\ configurePc \in {"exposure", "buffers", "operation", "done"} /\ IsCapture(configureRequest)
         => mNextBuffers = NoBuffers

FrameInv ==
    /\ FrameOrder /\ InSensor = Awaited
    /\ BuffersSpent
    /\ sensorPc = "readoutWoken" => mCapturedBuffers = NoBuffers
    /\ readoutPc = "frame" => IsCapture(readoutRequest)
    /\ readoutPc = "process" /\ IsCapture(readoutRequest) => takenBuffers = readoutRequest

\* What the order of the line says of its parts.
LEMMA LinePairs ==
    ASSUME TypeInv, LineInv
    PROVE  /\ Range(Front) = Range(results) \cup Range(One(readoutRequest)) \cup Range(mInFlightQueue)
           /\ Range(Front) \cup Range(Middle) \cup Range(requestQueue) = Range(Line)
           /\ \A x \in Range(One(readoutRequest)), y \in Range(mInFlightQueue) : x < y
           /\ \A x \in Range(Front), y \in Range(Middle) : x < y
           /\ \A x \in Range(Front) \cup Range(Middle), y \in Range(requestQueue) : x < y
           /\ \A x \in Range(results), y \in Range(One(readoutRequest)) \cup Range(mInFlightQueue) : x < y
           /\ Increasing(requestQueue)
<1> DEFINE rr == One(readoutRequest)
           a == results \o rr
           b == Front \o Middle
<1>1. Numbers \subseteq Nat
  BY FakeCamera2Assumption DEF Numbers
<1> HIDE DEF Numbers
<1>2. /\ results \in Seq(Nat) /\ rr \in Seq(Nat) /\ mInFlightQueue \in Seq(Nat)
      /\ Front \in Seq(Nat) /\ Middle \in Seq(Nat) /\ requestQueue \in Seq(Nat)
  BY <1>1, LineParts, SeqMonotonic
<1>3. Line = b \o requestQueue /\ Front = a \o mInFlightQueue
  BY LineParts DEF Front
<1> HIDE DEF rr
<1>4. a \in Seq(Nat) /\ Range(a) = Range(results) \cup Range(rr)
  BY <1>2, ConcatProperties, RangeConcatenation
<1>5. b \in Seq(Nat) /\ Range(b) = Range(Front) \cup Range(Middle)
  BY <1>2, ConcatProperties, RangeConcatenation
<1>6. Increasing(b) => Increasing(Front) /\ \A x \in Range(Front), y \in Range(Middle) : x < y
  BY <1>2, IncreasingConcat
<1>7. Increasing(a) => \A x \in Range(results), y \in Range(rr) : x < y
  BY <1>2, IncreasingConcat
<1> HIDE DEF a, b
<1>8. Range(Line) = Range(b) \cup Range(requestQueue) /\ Range(Front) = Range(a) \cup Range(mInFlightQueue)
  BY <1>2, <1>3, <1>4, <1>5, RangeConcatenation
<1>9. Increasing(b) /\ Increasing(requestQueue) /\ \A x \in Range(b), y \in Range(requestQueue) : x < y
  BY <1>2, <1>3, <1>5, IncreasingConcat DEF LineInv
<1>10. Increasing(a) /\ \A x \in Range(a), y \in Range(mInFlightQueue) : x < y
  BY <1>2, <1>3, <1>4, <1>6, <1>9, IncreasingConcat
<1> QED BY <1>4, <1>5, <1>6, <1>7, <1>8, <1>9, <1>10 DEF rr

\* What is pending is a request of the line, behind nothing but results.
LEMMA PendingInLine ==
    ASSUME TypeInv, LineInv
    PROVE  /\ Pending \subseteq Range(Front) /\ Pending \subseteq 1..Len(kinds)
           /\ Range(mInFlightQueue) \subseteq Numbers /\ None \notin Range(mInFlightQueue)
           /\ readoutRequest # None => \A x \in Range(mInFlightQueue) : readoutRequest < x
           /\ configureRequest # None /\ ~Queued => \A x \in Range(Front) : x < configureRequest
<1>1. Range(mInFlightQueue) \subseteq Numbers
  BY LineParts, RangeOfSeq
<1>2. None \notin Numbers
  BY DEF None, Numbers
<1>3. readoutRequest # None => readoutRequest \in Range(One(readoutRequest))
  <2>1. ASSUME readoutRequest # None PROVE One(readoutRequest) = <<readoutRequest>>
    BY <2>1 DEF One
  <2> QED BY <2>1, Single
<1>4. configureRequest # None /\ ~Queued => configureRequest \in Range(Middle)
  <2>1. ASSUME configureRequest # None /\ ~Queued PROVE Middle = <<configureRequest>>
    BY <2>1 DEF One, Middle
  <2> QED BY <2>1, Single
<1>5. Pending \subseteq Range(mInFlightQueue) \cup Range(One(readoutRequest))
  BY <1>3 DEF Pending
<1>6. Pending \subseteq Range(Front) /\ Range(Front) \subseteq Range(Line)
  BY <1>5, LinePairs
<1>7. Range(Line) \subseteq 1..Len(kinds)
  BY DEF LineInv
<1> HIDE DEF Pending, Numbers
<1> QED BY <1>1, <1>2, <1>3, <1>4, <1>6, <1>7, LinePairs

awaitedVars == <<mInFlightQueue, readoutPc, readoutRequest, takenBuffers>>
unsetVars   == <<configurePc, configureRequest>>
placeVars   == <<mGotVSync, mNextBuffers, mCapturedBuffers, sensorPc, latched, mNextCapturedBuffers>>

\* With the same requests, what they ask for is the same.
LEMMA AwaitedKept ==
    ASSUME TypeInv, LineInv, [Next]_vars, UNCHANGED awaitedVars
    PROVE  Awaited' = Awaited /\ (readoutRequest # None /\ readoutPc \notin {"process", "failed"} =>
                                    IsCapture(readoutRequest)' = IsCapture(readoutRequest))
<1>1. Pending' = Pending
  BY DEF Pending, awaitedVars
<1>2. \A r \in Pending : IsCapture(r)' = IsCapture(r)
  BY PendingInLine, KindsKept DEF IsCapture
<1>3. readoutRequest # None /\ readoutPc \notin {"process", "failed"} => readoutRequest \in Pending
  BY DEF Pending
<1> HIDE DEF Pending
<1> QED BY <1>1, <1>2, <1>3 DEF Awaited, awaitedVars

LEMMA UnsetKept ==
    ASSUME TypeInv, LineInv, [Next]_vars, UNCHANGED unsetVars
    PROVE  /\ UnsetFrame' = UnsetFrame
           /\ configurePc \notin {"loop", "empty", "off"} =>
                IsCapture(configureRequest)' = IsCapture(configureRequest)
<1>1. configurePc \notin {"loop", "empty", "off"} =>
        IsCapture(configureRequest)' = IsCapture(configureRequest)
  <2>1. configurePc \notin {"loop", "empty", "off"} => configureRequest \in 1..Len(kinds)
    BY KindsKept DEF TypeInv, ConfigurePart, LineInv, None
  <2> QED BY <2>1, KindsKept DEF IsCapture, unsetVars
<1> QED BY <1>1 DEF UnsetFrame, Queued, unsetVars

\* The sensor's own steps move the frames from place to place.
LEMMA SensorFrames ==
    ASSUME TypeInv, LineInv, FrameInv, SensorThread
    PROVE  FrameInv'
<1> USE DEF sensorVars, controlVars, NoBuffers, None
<1>0. UNCHANGED <<awaitedVars, unsetVars, kinds>>
  BY DEF SensorThread, awaitedVars, unsetVars, readoutVars, configureVars, queueVars
<1>1. [Next]_vars
  BY DEF Next
<1>2. Awaited' = Awaited /\ UnsetFrame' = UnsetFrame
  BY <1>0, <1>1, AwaitedKept, UnsetKept
<1>3. IsCapture(configureRequest)' = IsCapture(configureRequest) /\ IsCapture(readoutRequest)' = IsCapture(readoutRequest)
  BY <1>0 DEF IsCapture, awaitedVars, unsetVars
<1>4. SUFFICES FrameOrder' /\ InSensor' = InSensor /\ BuffersSpent'
                 /\ (sensorPc' = "readoutWoken" => mCapturedBuffers' = NoBuffers)
  BY <1>0, <1>2, <1>3 DEF FrameInv, awaitedVars
<1>5. sensorPc = "readoutWoken" => mCapturedBuffers = NoBuffers
  BY DEF FrameInv
<1>6. FrameOrder /\ BuffersSpent
  BY DEF FrameInv
<1>7. ASSUME UNCHANGED <<mGotVSync, mNextBuffers>> PROVE BuffersSpent'
  BY <1>0, <1>3, <1>6, <1>7 DEF BuffersSpent, unsetVars
<1> DEFINE u == UnsetFrame
<1>8. u' = u
  BY <1>2
<1> HIDE DEF u
<1> USE DEF FrameOrder, InSensor, CapturedFrame, LatchedFrame, Before
<1>9. CASE SensorLatch
  <2>1. mNextBuffers' = 0 /\ latched'.buffers = mNextBuffers
    BY <1>9 DEF SensorLatch, NextBuffersAfterLatch
  <2>2. BuffersSpent'
    BY <1>0, <1>3, <1>6, <2>1 DEF BuffersSpent, unsetVars
  <2> QED BY <1>6, <1>8, <1>9, <2>1, <2>2 DEF SensorLatch, u
<1>10. CASE SensorReadout
  BY <1>6, <1>7, <1>8, <1>10 DEF SensorReadout, ReadoutBusy, Deliver, u
<1>11. CASE SensorReadoutBlock
  BY <1>6, <1>7, <1>8, <1>11 DEF SensorReadoutBlock, u
<1>12. CASE SensorReadoutWoken
  BY <1>5, <1>6, <1>7, <1>8, <1>12 DEF SensorReadoutWoken, Deliver, u
<1>13. CASE SensorCapture
  BY <1>6, <1>7, <1>8, <1>13 DEF SensorCapture, u
<1>14. CASE SensorExit
  BY <1>6, <1>7, <1>8, <1>14 DEF SensorExit, u
<1> QED BY <1>9, <1>10, <1>11, <1>12, <1>13, <1>14 DEF SensorThread, SensorStep

\* A step that moves neither frames nor requests.
LEMMA FrameKept ==
    ASSUME TypeInv, LineInv, FrameInv, [Next]_vars,
           UNCHANGED <<mNextBuffers, mCapturedBuffers, sensorPc, latched, mNextCapturedBuffers>>,
           UNCHANGED awaitedVars, UnsetFrame' = UnsetFrame, BuffersSpent'
    PROVE  FrameInv'
<1>1. Awaited' = Awaited /\ (readoutRequest # None /\ readoutPc \notin {"process", "failed"} =>
                               IsCapture(readoutRequest)' = IsCapture(readoutRequest))
  BY AwaitedKept
<1>2. FrameOrder' /\ InSensor' = InSensor
  BY DEF FrameInv, FrameOrder, InSensor, Before, CapturedFrame, LatchedFrame
<1>3. readoutPc = "frame" => readoutRequest # None
  BY DEF TypeInv, ReadoutPart
<1>4. readoutPc = "process" => readoutRequest \in 1..Len(kinds) /\ readoutRequest # None
  <2>1. ASSUME readoutPc = "process" PROVE readoutRequest \in Range(One(readoutRequest)) /\ readoutRequest # None
    <3>1. One(readoutRequest) = <<readoutRequest>> /\ readoutRequest # None
      BY <2>1 DEF One, TypeInv, ReadoutPart
    <3> QED BY <3>1, Single
  <2> QED BY <2>1, LinePairs DEF LineInv
<1>5. readoutPc = "process" => IsCapture(readoutRequest)' = IsCapture(readoutRequest)
  BY <1>4, KindsKept DEF IsCapture, awaitedVars
<1> QED BY <1>1, <1>2, <1>3, <1>5 DEF FrameInv, awaitedVars

LEMMA ConfigureFrames ==
    ASSUME TypeInv, LineInv, FrameInv, ConfigureStep
    PROVE  FrameInv'
<1> USE DEF ConfigureMoves, configureVars, sensorVars, controlVars, readoutVars, mutexes, queueVars
<1>0. [Next]_vars /\ kinds' = kinds
  BY ConfigureFrame DEF Next
<1>1. BuffersSpent /\ FrameOrder /\ InSensor = Awaited
  BY DEF FrameInv
<1>2. ASSUME UNCHANGED <<sensorVars, awaitedVars, configureRequest>>, ~Queued, ~Queued', BuffersSpent'
      PROVE  FrameInv'
  BY <1>0, <1>2, FrameKept DEF UnsetFrame
<1>3. CASE ConfigureDequeue \/ ConfigureGoInactive \/ ConfigureCountRequest \/ ConfigureSetup \/ ConfigureExit
  <2>1. UNCHANGED <<sensorVars, awaitedVars>> /\ ~Queued /\ ~Queued' /\ BuffersSpent'
    BY <1>0, <1>3 DEF ConfigureDequeue, ConfigureGoInactive, ConfigureCountRequest, ConfigureSetup, ConfigureExit,
       NotConfigure, awaitedVars, Queued, BuffersSpent
  <2>2. UnsetFrame' = UnsetFrame
    BY <2>1 DEF UnsetFrame
  <2> QED BY <1>0, <2>1, <2>2, FrameKept
<1>4. CASE ConfigureAwaitReadout \/ ConfigureAwaitJpeg
  BY <1>1, <1>2, <1>4 DEF ConfigureAwaitReadout, ConfigureAwaitJpeg, NotConfigure, awaitedVars,
     Queued, BuffersSpent
<1>5. CASE ConfigureBeginVSync
  <2>1. /\ configurePc = "wait" /\ configurePc' = "vsync" /\ mGotVSync' = FALSE
        /\ UNCHANGED <<configureRequest, awaitedVars, mNextBuffers, mCapturedBuffers, sensorPc,
                       latched, mNextCapturedBuffers>>
        /\ IsCapture(configureRequest)
    BY <1>5 DEF ConfigureBeginVSync, BeginVSyncWait, SetControl, awaitedVars
  <2>2. BuffersSpent'
    BY <1>0, <2>1 DEF BuffersSpent, IsCapture
  <2>3. UnsetFrame' = UnsetFrame
    BY <2>1 DEF UnsetFrame, Queued
  <2> QED BY <1>0, <2>1, <2>2, <2>3, FrameKept
<1>6. CASE ConfigureVSync
  BY <1>0, <1>1, <1>2, <1>6 DEF ConfigureVSync, VSyncResult, NotConfigure, awaitedVars, Queued,
     BuffersSpent, IsCapture
<1>7. CASE ConfigureExposure
  <2>1. /\ configurePc = "exposure" /\ configurePc' = "buffers"
        /\ UNCHANGED <<configureRequest, awaitedVars, mNextBuffers, mCapturedBuffers, sensorPc,
                       latched, mNextCapturedBuffers>>
    BY <1>7 DEF ConfigureExposure, SetExposure, SetControl, awaitedVars
  <2>2. BuffersSpent'
    BY <1>0, <1>1, <2>1 DEF BuffersSpent, IsCapture
  <2>3. UnsetFrame' = UnsetFrame
    BY <2>1 DEF UnsetFrame, Queued
  <2> QED BY <1>0, <2>1, <2>2, <2>3, FrameKept
<1>8. CASE ConfigureReprocess
  BY <1>0, <1>2, <1>8 DEF ConfigureReprocess, NotConfigure, awaitedVars, Queued, BuffersSpent, IsCapture
<1>9. CASE ConfigureGetBuffers
  BY <1>0, <1>1, <1>2, <1>9 DEF ConfigureGetBuffers, NotConfigure, awaitedVars, Queued, BuffersSpent,
     IsCapture
<1>10. CASE SetNextOperation
  <2>1. /\ configurePc = "operation" /\ configurePc' = "done"
        /\ UNCHANGED <<sensorVars, configureRequest, readoutPc, readoutRequest, takenBuffers>>
    BY <1>10 DEF SetNextOperation
  <2>2. configureRequest \in Numbers /\ configureRequest # None
    BY <2>1 DEF TypeInv, ConfigurePart, Upto, Numbers, None
  <2>3. IsCapture(configureRequest)' = IsCapture(configureRequest) /\ \A r : IsCapture(r)' = IsCapture(r)
    BY <1>0, <2>1 DEF IsCapture
  <2>4. BuffersSpent'
    BY <1>1, <2>1, <2>3 DEF BuffersSpent
  <2>5. UnsetFrame = None /\ UnsetFrame' = IF IsCapture(configureRequest) THEN configureRequest ELSE None
    BY <2>1, <2>3 DEF UnsetFrame, Queued
  <2>6. CASE ReadyForNextCapture
    <3>1. mInFlightQueue' = Append(mInFlightQueue, configureRequest)
      BY <1>10, <2>6 DEF SetNextOperation
    <3>2. Range(mInFlightQueue') = Range(mInFlightQueue) \cup {configureRequest}
      BY <2>2, <3>1, LineParts, AppendRange
    <3>3. Pending' = Pending \cup {configureRequest}
      BY <2>1, <2>2, <3>2 DEF Pending
    <3>4. \A x \in Pending : x < configureRequest
      BY <2>1, <2>2, PendingInLine DEF Queued
    <3>5. Pending \subseteq Nat /\ configureRequest \in Nat
      BY <2>2, PendingInLine DEF Numbers
    <3> HIDE DEF Pending
    <3>6. Awaited' = Awaited \cup (IF IsCapture(configureRequest) THEN {configureRequest} ELSE {})
      BY <2>3, <3>3 DEF Awaited
    <3>7. \A x \in InSensor : x < configureRequest
      BY <1>1, <3>4 DEF Awaited
    <3>8. InSensor' = InSensor \cup (IF IsCapture(configureRequest) THEN {configureRequest} ELSE {})
      BY <2>1, <2>2, <2>5 DEF InSensor, CapturedFrame, LatchedFrame
    <3>9. FrameOrder'
      <4> DEFINE u == UnsetFrame
      <4>1. /\ mCapturedBuffers # None => Before(mCapturedBuffers, configureRequest)
            /\ CapturedFrame # None => Before(CapturedFrame, configureRequest)
            /\ LatchedFrame # None => Before(LatchedFrame, configureRequest)
            /\ mNextBuffers # None => Before(mNextBuffers, configureRequest)
        BY <3>7 DEF InSensor, Before
      <4>2. u' = None \/ u' = configureRequest
        BY <2>5
      <4>3. UNCHANGED <<mCapturedBuffers, CapturedFrame, LatchedFrame, mNextBuffers>>
        BY <2>1 DEF CapturedFrame, LatchedFrame
      <4> HIDE DEF u
      <4> QED BY <1>1, <4>1, <4>2, <4>3 DEF FrameOrder, Before, u
    <3> QED BY <1>1, <2>1, <2>3, <2>4, <3>6, <3>8, <3>9 DEF FrameInv
  <2>7. CASE ~ReadyForNextCapture
    <3>1. UNCHANGED awaitedVars
      BY <1>10, <2>7 DEF SetNextOperation, awaitedVars
    <3>2. ~IsCapture(configureRequest)
      BY <1>10, <2>7, NotDropped DEF IsCapture
    <3> QED BY <1>0, <2>1, <2>4, <2>5, <3>1, <3>2, FrameKept
  <2> QED BY <2>6, <2>7
<1>11. CASE ConfigureDone
  <2>1. /\ configurePc = "done" /\ configurePc' = "loop" /\ UNCHANGED awaitedVars
    BY <1>11 DEF ConfigureDone, awaitedVars
  <2>2. BuffersSpent' /\ UnsetFrame' = None
    BY <2>1 DEF BuffersSpent, UnsetFrame, Queued
  <2>3. CASE IsCapture(configureRequest)
    <3>1. /\ mNextBuffers = None /\ mNextBuffers' = configureRequest
          /\ UNCHANGED <<mCapturedBuffers, sensorPc, latched, mNextCapturedBuffers>>
      BY <1>1, <1>11, <2>1, <2>3 DEF ConfigureDone, SetDestinationBuffers, SetControl, BuffersSpent,
         NoBuffers, None
    <3>2. UnsetFrame = configureRequest
      BY <2>1, <2>3 DEF UnsetFrame, Queued
    <3> DEFINE u == UnsetFrame
    <3>3. u = configureRequest /\ u' = None
      BY <2>2, <3>2
    <3> HIDE DEF u
    <3>4. InSensor' = InSensor /\ FrameOrder'
      BY <1>1, <3>1, <3>3 DEF InSensor, FrameOrder, Before, CapturedFrame, LatchedFrame, u
    <3>5. Awaited' = Awaited
      BY <1>0, <2>1, AwaitedKept
    <3>6. IsCapture(readoutRequest)' = IsCapture(readoutRequest)
      BY <1>0, <2>1 DEF IsCapture, awaitedVars
    <3> QED BY <1>1, <2>1, <2>2, <3>1, <3>4, <3>5, <3>6 DEF FrameInv, awaitedVars
  <2>4. CASE ~IsCapture(configureRequest)
    <3>1. UNCHANGED sensorVars /\ UnsetFrame = None
      BY <1>11, <2>4 DEF ConfigureDone, UnsetFrame
    <3> QED BY <1>0, <2>1, <2>2, <3>1, FrameKept
  <2> QED BY <2>3, <2>4
<1> QED BY <1>3, <1>4, <1>5, <1>6, <1>7, <1>8, <1>9, <1>10, <1>11 DEF ConfigureStep

\* The frame that is there is the one of the request that waits.
LEMMA FrameIsOwn ==
    ASSUME TypeInv, LineInv, FrameInv, readoutPc = "frame", mCapturedBuffers # NoBuffers
    PROVE  /\ mCapturedBuffers = readoutRequest
           /\ InSensor \ {readoutRequest} = {CapturedFrame, LatchedFrame, mNextBuffers, UnsetFrame} \ {None}
           /\ Awaited \ {readoutRequest} = {r \in Range(mInFlightQueue) : IsCapture(r)}
<1>1. readoutRequest # None /\ IsCapture(readoutRequest) /\ FrameOrder /\ InSensor = Awaited
  BY DEF FrameInv, TypeInv, ReadoutPart
<1>2. /\ \A x \in Range(mInFlightQueue) : readoutRequest < x
      /\ None \notin Range(mInFlightQueue) /\ Pending \subseteq Nat
  BY <1>1, PendingInLine
<1>3. Pending = Range(mInFlightQueue) \cup {readoutRequest}
  BY <1>1, <1>2 DEF Pending
<1>4. mCapturedBuffers \in Pending
  BY <1>1 DEF InSensor, Awaited, NoBuffers, None
<1>5. readoutRequest \in InSensor
  BY <1>1, <1>3 DEF Awaited
<1>6. mCapturedBuffers = readoutRequest
  <2>1. mCapturedBuffers = readoutRequest \/ readoutRequest < mCapturedBuffers
    BY <1>2, <1>3, <1>4
  <2>2. mCapturedBuffers = readoutRequest \/ mCapturedBuffers < readoutRequest
    BY <1>1, <1>5 DEF InSensor, FrameOrder, Before, NoBuffers, None
  <2>3. mCapturedBuffers \in Nat /\ readoutRequest \in Nat
    BY <1>2, <1>3, <1>4
  <2> QED BY <2>1, <2>2, <2>3
<1>7. readoutRequest \notin Range(mInFlightQueue) /\ readoutRequest \in Nat
  <2>1. readoutRequest \in Nat
    BY <1>2, <1>3
  <2> QED BY <1>2, <2>1
<1>8. Awaited \ {readoutRequest} = {r \in Range(mInFlightQueue) : IsCapture(r)}
  BY <1>3, <1>7 DEF Awaited
<1>9. InSensor \ {readoutRequest} = {CapturedFrame, LatchedFrame, mNextBuffers, UnsetFrame} \ {None}
  BY <1>1, <1>6, <1>7 DEF InSensor, FrameOrder, Before, NoBuffers, None
<1> QED BY <1>6, <1>8, <1>9

LEMMA ReadoutFrames ==
    ASSUME TypeInv, LineInv, FrameInv, ReadoutStep
    PROVE  FrameInv'
<1> USE DEF ReadoutMoves, configureVars, sensorVars, controlVars, readoutVars, mutexes, queueVars
<1>0. /\ [Next]_vars /\ UNCHANGED <<kinds, configurePc, configureRequest>>
      /\ \A r : IsCapture(r)' = IsCapture(r)
  BY ReadoutFrame DEF Next, NotReadout, IsCapture
<1>1. BuffersSpent /\ FrameOrder /\ InSensor = Awaited
  BY DEF FrameInv
<1>2. UnsetFrame' = UnsetFrame
  BY <1>0 DEF UnsetFrame, Queued, IsCapture
<1>3. ASSUME UNCHANGED sensorVars, Awaited' = Awaited,
             readoutPc' = "frame" => IsCapture(readoutRequest'),
             readoutPc' = "process" => ~IsCapture(readoutRequest')
      PROVE  FrameInv'
  <2>1. BuffersSpent'
    BY <1>0, <1>1, <1>3 DEF BuffersSpent, IsCapture
  <2>2. FrameOrder' /\ InSensor' = InSensor
    BY <1>1, <1>2, <1>3 DEF FrameOrder, InSensor, Before, CapturedFrame, LatchedFrame
  <2> QED BY <1>0, <1>1, <1>3, <2>1, <2>2 DEF FrameInv, IsCapture
<1>4. CASE ReadoutGoInactive \/ ReadoutInputFirst \/ ReadoutStreams \/ ReadoutStart \/ ReadoutCountDone
           \/ ReadoutExit
  <2>1. /\ UNCHANGED <<sensorVars, mInFlightQueue, readoutRequest>>
        /\ readoutPc # "process" /\ readoutPc' \notin {"process", "frame", "failed"}
        /\ readoutPc # "failed"
    BY <1>4 DEF ReadoutGoInactive, ReadoutInputFirst, ReadoutStreams, ReadoutStart,
                ReadoutCountDone, ReadoutExit
  <2>2. Awaited' = Awaited
    BY <1>0, <2>1 DEF Awaited, Pending
  <2> QED BY <1>3, <2>1, <2>2
<1>5. CASE ReadoutTake
  <2>1. /\ UNCHANGED sensorVars /\ readoutPc = "take"
        /\ readoutRequest = None /\ mInFlightQueue # <<>>
        /\ readoutRequest' = Head(mInFlightQueue) /\ mInFlightQueue' = Tail(mInFlightQueue)
        /\ readoutPc' = AfterTake(Head(mInFlightQueue))
    BY <1>5 DEF ReadoutTake, TypeInv, ReadoutPart
  <2>2. Range(mInFlightQueue) = {readoutRequest'} \cup Range(mInFlightQueue')
    BY <2>1, LineParts, HeadTailRange
  <2>3. None \notin Range(mInFlightQueue)
    BY PendingInLine
  <2>4. readoutPc' = IF IsCapture(readoutRequest') THEN "frame" ELSE "process"
    BY <2>1 DEF AfterTake
  <2>5. Awaited' = Awaited
    BY <1>0, <2>1, <2>2, <2>3, <2>4 DEF Awaited, Pending
  <2> QED BY <1>3, <2>1, <2>4, <2>5
<1>6. CASE ReadoutResume
  <2>1. /\ UNCHANGED <<sensorVars, mInFlightQueue, readoutRequest>> /\ readoutPc = "loop"
        /\ readoutPc' = IF IsCapture(readoutRequest) THEN "frame" ELSE "process"
    BY <1>6 DEF ReadoutResume, AfterTake
  <2>2. Awaited' = Awaited
    BY <1>0, <2>1 DEF Awaited, Pending
  <2> QED BY <1>3, <2>1, <2>2
<1>7. CASE ReadoutAwaitFrame
  <2>0. readoutPc = "frame" /\ UNCHANGED <<mInFlightQueue, readoutRequest>> /\ readoutRequest # None
    BY <1>7 DEF ReadoutAwaitFrame, TypeInv, ReadoutPart
  <2>1. CASE \/ NewFrameBlock /\ UNCHANGED <<readoutPc, takenBuffers>>
             \/ NewFrameTimeout /\ readoutPc' = "loop" /\ UNCHANGED takenBuffers
    <3>1. /\ UNCHANGED <<mGotVSync, mNextBuffers, mCapturedBuffers, sensorPc, latched, mNextCapturedBuffers>>
          /\ readoutPc' \in {"frame", "loop"}
      BY <2>0, <2>1 DEF NewFrameBlock, NewFrameTimeout
    <3>2. Awaited' = Awaited
      BY <1>0, <2>0, <3>1 DEF Awaited, Pending
    <3>3. BuffersSpent'
      BY <1>0, <1>1, <3>1 DEF BuffersSpent, IsCapture
    <3>4. FrameOrder' /\ InSensor' = InSensor
      BY <1>1, <1>2, <3>1 DEF FrameOrder, InSensor, Before, CapturedFrame, LatchedFrame
    <3> QED BY <1>0, <1>1, <2>0, <3>1, <3>2, <3>3, <3>4 DEF FrameInv, IsCapture
  <2>2. CASE /\ NewFrameAtOnce \/ NewFrameWoken
             /\ readoutPc' = "process" /\ takenBuffers' = mCapturedBuffers
    <3>1. /\ mCapturedBuffers # NoBuffers /\ mCapturedBuffers' = NoBuffers
          /\ UNCHANGED <<mGotVSync, mNextBuffers, latched, mNextCapturedBuffers>>
          /\ sensorPc' = sensorPc \/ (sensorPc = "readoutWait" /\ sensorPc' = "readoutWoken")
      BY <2>2 DEF NewFrameAtOnce, NewFrameWoken, SignalReadoutComplete
    <3>2. CapturedFrame' = CapturedFrame /\ LatchedFrame' = LatchedFrame
      BY <3>1 DEF CapturedFrame, LatchedFrame
    <3>3. /\ mCapturedBuffers = readoutRequest
          /\ InSensor \ {readoutRequest} = {CapturedFrame, LatchedFrame, mNextBuffers, UnsetFrame} \ {None}
          /\ Awaited \ {readoutRequest} = {r \in Range(mInFlightQueue) : IsCapture(r)}
      BY <2>0, <3>1, FrameIsOwn
    <3>4. InSensor' = InSensor \ {readoutRequest}
      <4> DEFINE u == UnsetFrame
      <4>1. u' = u
        BY <1>2
      <4> HIDE DEF u
      <4>2. InSensor' = {mCapturedBuffers', CapturedFrame', LatchedFrame', mNextBuffers', u'} \ {None}
        BY DEF InSensor, u
      <4>3. InSensor \ {readoutRequest} = {CapturedFrame, LatchedFrame, mNextBuffers, u} \ {None}
        BY <3>3 DEF u
      <4> QED BY <3>1, <3>2, <4>1, <4>2, <4>3 DEF NoBuffers, None
    <3>5. Awaited' = Awaited \ {readoutRequest}
      <4>1. Pending' = Range(mInFlightQueue)
        BY <2>0, <2>2, PendingInLine DEF Pending
      <4> QED BY <1>0, <3>3, <4>1 DEF Awaited
    <3>6. FrameOrder'
      <4> DEFINE u == UnsetFrame
      <4>1. u' = u
        BY <1>2
      <4> HIDE DEF u
      <4> QED BY <1>1, <3>1, <3>2, <4>1 DEF FrameOrder, Before, NoBuffers, None, u
    <3>7. BuffersSpent'
      BY <1>0, <1>1, <3>1 DEF BuffersSpent, IsCapture
    <3> QED BY <1>1, <2>0, <2>2, <3>1, <3>3, <3>4, <3>5, <3>6, <3>7 DEF FrameInv
  <2> QED BY <1>7, <2>1, <2>2 DEF ReadoutAwaitFrame
<1>8. CASE ReadoutProcess
  <2>1. /\ UNCHANGED <<sensorVars, mInFlightQueue>> /\ readoutPc = "process"
        /\ readoutPc' = "streams" /\ readoutRequest' = None
    BY <1>8 DEF ReadoutProcess
  <2>2. Awaited' = Awaited
    BY <1>0, <2>1 DEF Awaited, Pending
  <2> QED BY <1>3, <2>1, <2>2
<1>9. CASE ReadoutFails
  <2>1. /\ UNCHANGED <<sensorVars, mInFlightQueue>> /\ readoutPc = "process"
        /\ readoutPc' = "failed" /\ readoutRequest' = readoutRequest
    BY <1>9 DEF ReadoutFails
  <2>2. Awaited' = Awaited
    BY <1>0, <2>1 DEF Awaited, Pending
  <2> QED BY <1>3, <2>1, <2>2
<1> QED BY <1>4, <1>5, <1>6, <1>7, <1>8, <1>9 DEF ReadoutStep

LEMMA FrameInductive ==
    ASSUME TypeInv, LineInv, FrameInv, [Next]_vars
    PROVE  FrameInv'
<1>1. CASE ConfigureStep \/ ReadoutStep \/ SensorThread
  BY <1>1, ConfigureFrames, ReadoutFrames, SensorFrames
<1>2. CASE JpegStep \/ UNCHANGED vars \/ FrameworkStep
  <2> USE DEF sensorVars, controlVars, configureVars, readoutVars
  <2>1. /\ UNCHANGED <<mNextBuffers, mCapturedBuffers, sensorPc, latched, mNextCapturedBuffers, mGotVSync>>
        /\ UNCHANGED <<awaitedVars, unsetVars>>
    <3>1. CASE JpegStep \/ UNCHANGED vars
      BY <3>1, JpegFrame DEF NotJpeg, vars, awaitedVars, unsetVars
    <3>2. CASE FrameworkStep
      <4>1. UNCHANGED <<awaitedVars, unsetVars>>
        BY <3>2, FrameworkFrame DEF OnlyFramework, awaitedVars, unsetVars
      <4>2. CASE BeginClose
        BY <4>1, <4>2 DEF BeginClose, SensorRequestExit
      <4>3. CASE ~BeginClose
        <5>1. UNCHANGED sensorVars
          BY <3>2, <4>3 DEF FrameworkStep, Enqueue, RequestQueueNotify, BeginReleaseStream,
             InConfigure, InReadout, InReadoutInput, InJpeg, CountConfigure, CountReadout, CountJpeg,
             EndCount, CloseRequestExit, CloseUnlock, CloseJoined, BeginCall, StillInUse
        <5> QED BY <4>1, <5>1
      <4> QED BY <4>2, <4>3
    <3> QED BY <1>2, <3>1, <3>2
  <2>2. /\ UnsetFrame' = UnsetFrame
        /\ configurePc \notin {"loop", "empty", "off"} =>
             IsCapture(configureRequest)' = IsCapture(configureRequest)
    BY <2>1, UnsetKept
  <2>3. BuffersSpent'
    BY <2>1, <2>2 DEF FrameInv, BuffersSpent, unsetVars
  <2> QED BY <2>1, <2>2, <2>3, FrameKept
<1> QED BY <1>1, <1>2 DEF Next

LEMMA FrameInitially == Init => FrameInv
<1> SUFFICES ASSUME Init PROVE FrameInv
  OBVIOUS
<1>1. Awaited = {} /\ InSensor = {}
  BY EmptyRange DEF Init, Awaited, Pending, InSensor, CapturedFrame, LatchedFrame, UnsetFrame, Queued,
     NoBuffers, None
<1> QED BY <1>1 DEF Init, FrameInv, FrameOrder, Before, BuffersSpent, NoBuffers, None, CapturedFrame,
     LatchedFrame, UnsetFrame, Queued

\* Each capture is completed with the frame that was captured into its own buffers, though
\* nothing but their order ties a frame to a request, reprocess requests pass between the
\* captures, and the buffers are set after the request has been queued.
THEOREM FramesCorrect == Spec => []FramesMatchRequests
<1>1. TypeInv /\ FrameInv => FramesMatchRequests
  BY DEF TypeInv, ReadoutPart, FrameInv, FramesMatchRequests
<1> QED BY <1>1, TypeInitially, LineInitially, FrameInitially, TypeInductive, LineInductive,
           FrameInductive, PTL DEF Spec

-----------------------------------------------------------------------------
(* How requests move from thread to thread.                                *)

\* What is under way, from the framework's queue to the compressor.
UnderWay == Range(requestQueue) \cup {configureRequest} \cup Range(mInFlightQueue)
              \cup {readoutRequest, readoutBuffers} \cup (IF mIsBusy THEN {mBuffers} ELSE {})

\* In one step a request stays where it is, goes to the next place, or ends.
RequestsFlow ==
    /\ Range(requestQueue') \subseteq Range(requestQueue)
    /\ configureRequest' \in {configureRequest, None} \cup Range(requestQueue)
    /\ Range(mInFlightQueue') \subseteq Range(mInFlightQueue) \cup {configureRequest}
    /\ {readoutRequest', readoutBuffers'} \subseteq
         {readoutRequest, readoutBuffers, None} \cup Range(mInFlightQueue)
    /\ mIsBusy' => mBuffers' = readoutBuffers \/ (mIsBusy /\ mBuffers' = mBuffers)

flowVars == <<requestQueue, configureRequest, mInFlightQueue, readoutRequest, readoutBuffers>>

LEMMA FlowStutters == UNCHANGED <<flowVars, mIsBusy, mBuffers>> => RequestsFlow
BY DEF RequestsFlow, flowVars

LEMMA ConfigureFlow == TypeInv /\ ConfigureStep => RequestsFlow
<1> SUFFICES ASSUME TypeInv, ConfigureStep PROVE RequestsFlow
  OBVIOUS
<1> USE DEF queueVars, configureVars, readoutVars, jpegVars, flowVars
<1>0. UNCHANGED <<mIsBusy, mBuffers>>
  BY DEF ConfigureStep, ConfigureDequeue, ConfigureGoInactive, ConfigureCountRequest,
     ConfigureSetup, ConfigureAwaitReadout, ConfigureAwaitJpeg, ConfigureBeginVSync,
     ConfigureVSync, ConfigureExposure, ConfigureReprocess, ConfigureGetBuffers,
     SetNextOperation, ConfigureDone, ConfigureExit, NotConfigure,
     WaitForDoneAtOnce, WaitForDoneBlock, WaitForDoneEnds
<1>1. CASE ConfigureDequeue
  <2>1. UNCHANGED <<mInFlightQueue, readoutRequest, readoutBuffers>>
    BY <1>1 DEF ConfigureDequeue, NotConfigure
  <2>2. \/ UNCHANGED <<requestQueue, configureRequest>>
        \/ /\ requestQueue # <<>>
           /\ configureRequest' = Head(requestQueue) /\ requestQueue' = Tail(requestQueue)
    BY <1>1 DEF ConfigureDequeue
  <2>3. requestQueue # <<>> =>
          Range(requestQueue) = {Head(requestQueue)} \cup Range(Tail(requestQueue))
    BY LineParts, HeadTailRange
  <2> QED BY <1>0, <2>1, <2>2, <2>3 DEF RequestsFlow
<1>2. CASE SetNextOperation
  <2>1. /\ UNCHANGED <<requestQueue, configureRequest, readoutRequest, readoutBuffers>>
        /\ \/ mInFlightQueue' = mInFlightQueue
           \/ mInFlightQueue' = Append(mInFlightQueue, configureRequest)
        /\ configureRequest \in Numbers
    BY <1>2 DEF SetNextOperation, ConfigureMoves, TypeInv, ConfigurePart, Upto, Numbers, None
  <2>2. Range(Append(mInFlightQueue, configureRequest)) = Range(mInFlightQueue) \cup {configureRequest}
    BY <2>1, LineParts, AppendRange
  <2> QED BY <1>0, <2>1, <2>2 DEF RequestsFlow
<1>3. CASE ConfigureDone
  BY <1>0, <1>3 DEF ConfigureDone, RequestsFlow
<1>4. CASE ~ConfigureDequeue /\ ~SetNextOperation /\ ~ConfigureDone
  <2>1. UNCHANGED flowVars
    BY <1>4 DEF ConfigureStep, ConfigureGoInactive, ConfigureCountRequest,
     ConfigureSetup, ConfigureAwaitReadout, ConfigureAwaitJpeg, ConfigureBeginVSync,
     ConfigureVSync, ConfigureExposure, ConfigureReprocess, ConfigureGetBuffers,
     ConfigureExit, NotConfigure
  <2> QED BY <1>0, <2>1, FlowStutters
<1> QED BY <1>1, <1>2, <1>3, <1>4

LEMMA ReadoutFlow == TypeInv /\ ReadoutStep => RequestsFlow
<1> SUFFICES ASSUME TypeInv, ReadoutStep PROVE RequestsFlow
  OBVIOUS
<1> USE DEF queueVars, configureVars, jpegVars, flowVars
<1>0. UNCHANGED <<requestQueue, configureRequest>>
  BY ReadoutFrame DEF NotReadout
<1>1. CASE ReadoutTake
  <2>1. /\ mInFlightQueue # <<>> /\ UNCHANGED <<mIsBusy, mBuffers>>
        /\ readoutRequest' = Head(mInFlightQueue) /\ readoutBuffers' = Head(mInFlightQueue)
        /\ mInFlightQueue' = Tail(mInFlightQueue)
    BY <1>1 DEF ReadoutTake, TypeInv, ReadoutPart
  <2>2. Range(mInFlightQueue) = {Head(mInFlightQueue)} \cup Range(Tail(mInFlightQueue))
    BY <2>1, LineParts, HeadTailRange
  <2> QED BY <1>0, <2>1, <2>2 DEF RequestsFlow
<1>2. CASE ReadoutProcess
  BY <1>0, <1>2 DEF ReadoutProcess, RequestsFlow
<1>3. CASE ReadoutStart
  <2>1. /\ UNCHANGED <<mInFlightQueue, readoutRequest>> /\ readoutBuffers' = None
        /\ mIsBusy' => mBuffers' = readoutBuffers \/ (mIsBusy /\ mBuffers' = mBuffers)
    BY <1>3 DEF ReadoutStart, StartRefused, Started, StartFailed
  <2> QED BY <1>0, <2>1 DEF RequestsFlow
<1>4. CASE ~ReadoutTake /\ ~ReadoutProcess /\ ~ReadoutStart
  <2>1. UNCHANGED <<mInFlightQueue, readoutRequest, readoutBuffers, mIsBusy, mBuffers>>
    BY <1>4 DEF ReadoutStep, ReadoutGoInactive, ReadoutInputFirst, ReadoutResume,
       ReadoutAwaitFrame, ReadoutStreams, ReadoutCountDone, ReadoutFails, ReadoutExit
  <2> QED BY <1>0, <2>1, FlowStutters
<1> QED BY <1>1, <1>2, <1>3, <1>4

LEMMA EnqueueFlow ==
    ASSUME TypeInv, NEW k \in Kinds, Enqueue(k)
    PROVE  /\ Range(requestQueue') = Range(requestQueue) \cup {Len(kinds) + 1}
           /\ Len(kinds) + 1 \in Numbers /\ streams = {"preview", "jpeg"}
           /\ UNCHANGED <<configureRequest, mInFlightQueue, readoutRequest, readoutBuffers, mIsBusy,
                          mBuffers, streams, frameworkPc, streamId, total, counted>>
<1>1. kinds \in Seq(Kinds) /\ calls \in Nat
  BY DEF TypeInv, FrameworkPart
<1> HIDE DEF Kinds
<1>2. Len(kinds) \in Nat
  BY <1>1, LenProperties
<1>3. Len(kinds) + 1 \in Numbers
  BY <1>1, <1>2, FakeCamera2Assumption DEF Enqueue, WithinBound, Numbers
<1>4. requestQueue' = Append(requestQueue, Len(kinds) + 1)
  BY DEF Enqueue
<1>5. Range(requestQueue') = Range(requestQueue) \cup {Len(kinds) + 1}
  BY <1>3, <1>4, LineParts, AppendRange
<1> QED BY <1>3, <1>5 DEF Enqueue, OnlyFramework, readoutVars, jpegVars, callVars

\* Every step but the framework's new request moves requests on.
LEMMA Flow ==
    ASSUME TypeInv, [Next]_vars, ~\E k \in Kinds : Enqueue(k)
    PROVE  RequestsFlow
<1>1. CASE ConfigureStep \/ ReadoutStep
  BY <1>1, ConfigureFlow, ReadoutFlow
<1>2. CASE JpegStep
  <2>1. UNCHANGED flowVars
    BY <1>2, JpegFrame DEF NotJpeg, flowVars, queueVars, configureVars, readoutVars
  <2>2. mIsBusy' => mIsBusy /\ mBuffers' = mBuffers
    BY <1>2 DEF JpegStep, JpegCompressed, JpegCancelled, OnJpegDone, CleanUp, OnJpegInputDone,
                JpegEnds, Compress, JpegCleanUp, CleanUpBusy, JpegThreadExit, jpegVars
  <2> QED BY <2>1, <2>2 DEF RequestsFlow, flowVars
<1>3. CASE SensorThread \/ UNCHANGED vars
  BY <1>3, FlowStutters DEF SensorThread, vars, flowVars, queueVars, configureVars, readoutVars, jpegVars
<1>4. CASE FrameworkStep
  <2>1. UNCHANGED requestQueue
    BY <1>4 DEF FrameworkStep, RequestQueueNotify, BeginReleaseStream, InConfigure, InReadout,
       InReadoutInput, InJpeg, CountConfigure, CountReadout, CountJpeg, EndCount, BeginClose,
       CloseRequestExit, CloseUnlock, CloseJoined, BeginCall, Call, StillInUse, queueVars
  <2> QED BY <1>4, <2>1, FrameworkFrame, FlowStutters DEF OnlyFramework, flowVars, readoutVars, jpegVars
<1> QED BY <1>1, <1>2, <1>3, <1>4 DEF Next

-----------------------------------------------------------------------------
(* A stream that is released is not in use.                                *)

\* The framework queues nothing while it releases a stream, nor after. What the call has
\* asked about does not use the stream: what it has not asked about is further on.
StreamInv ==
    /\ \A r \in UnderWay \ {None} : StreamsOf(r) \subseteq streams
    /\ streams # {"preview", "jpeg"} => requestQueue = <<>>
    /\ frameworkPc \in {"inConfigure", "inReadout", "inReadoutInput", "inJpeg"} => requestQueue = <<>>
    /\ frameworkPc \in {"inReadout", "inReadoutInput", "inJpeg"} => ~InUse(configureRequest)
    /\ frameworkPc = "inJpeg" =>
         ~InUse(readoutBuffers) /\ \A r \in Range(mInFlightQueue) : ~InUse(r)

\* What is under way is in the line, so that what it asks for is known.
LEMMA UnderWayKnown ==
    ASSUME TypeInv, LineInv
    PROVE  UnderWay \ {None} \subseteq 1..Len(kinds)
<1>1. Range(requestQueue) \cup Range(mInFlightQueue) \cup Range(results) \subseteq 1..Len(kinds)
  BY LinePairs DEF LineInv
<1>2. configureRequest # None => configureRequest \in 1..Len(kinds)
  BY KindsKept DEF LineInv, None
<1>3. readoutRequest # None => readoutRequest \in 1..Len(kinds)
  <2>1. ASSUME readoutRequest # None PROVE One(readoutRequest) = <<readoutRequest>>
    BY <2>1 DEF One
  <2>2. readoutRequest # None => readoutRequest \in Range(One(readoutRequest))
    BY <2>1, Single
  <2> QED BY <2>2, LinePairs DEF LineInv
<1>4. readoutBuffers = readoutRequest \/ readoutBuffers \in Range(results)
  BY DEF TypeInv, ReadoutPart, LineInv
<1>5. mIsBusy => mBuffers \in Range(results)
  BY DEF LineInv
<1> QED BY <1>1, <1>2, <1>3, <1>4, <1>5 DEF UnderWay

LEMMA FlowUnderWay == RequestsFlow => UnderWay' \subseteq UnderWay \cup {None}
BY DEF RequestsFlow, UnderWay

\* As long as the framework does not move on, requests that move on change nothing.
LEMMA StreamFlows ==
    ASSUME TypeInv, LineInv, StreamInv, [Next]_vars, RequestsFlow,
           UNCHANGED <<streams, streamId, frameworkPc>>
    PROVE  StreamInv'
<1> DEFINE known == 1..Len(kinds)
<1>1. \A r \in known : StreamsOf(r)' = StreamsOf(r) /\ InUse(r)' = InUse(r)
  <2>1. \A r \in known : kinds'[r] = kinds[r]
    BY KindsKept
  <2>2. \A r \in known : StreamsOf(r)' = StreamsOf(r)
    BY <2>1 DEF StreamsOf, HasJpeg, IsCapture
  <2> HIDE DEF known
  <2> QED BY <2>2 DEF InUse
<1>2. UnderWay \ {None} \subseteq known
  BY UnderWayKnown
<1> HIDE DEF known
<1>3. requestQueue = <<>> => requestQueue' = <<>> /\ Range(requestQueue) = {}
  <2>1. requestQueue = <<>> => Range(requestQueue) = {} /\ Range(requestQueue') = {}
    BY EmptyRange DEF RequestsFlow
  <2>2. requestQueue' \in Seq(Numbers)
    BY TypeInductive DEF TypeInv, FrameworkPart
  <2>3. Range(requestQueue') = {} => requestQueue' = <<>>
    <3>1. requestQueue' # <<>> => Head(requestQueue') \in Range(requestQueue')
      BY <2>2, HeadTailRange
    <3> QED BY <3>1
  <2> QED BY <2>1, <2>3
<1>4. \A r \in UnderWay' \ {None} : StreamsOf(r)' \subseteq streams
  BY <1>1, <1>2, FlowUnderWay DEF StreamInv
<1>5. ASSUME frameworkPc \in {"inReadout", "inReadoutInput", "inJpeg"}
      PROVE  ~InUse(configureRequest)'
  <2>1. configureRequest' \in {configureRequest, None}
    BY <1>3, <1>5 DEF StreamInv, RequestsFlow
  <2>2. CASE configureRequest' = None
    BY <2>2 DEF InUse
  <2>3. CASE configureRequest' = configureRequest /\ configureRequest # None
    <3>1. configureRequest \in known
      BY <1>2, <2>3 DEF UnderWay
    <3>2. StreamsOf(configureRequest)' = StreamsOf(configureRequest)
      BY <1>1, <2>3, <3>1 DEF StreamsOf, HasJpeg, IsCapture
    <3> QED BY <1>5, <2>3, <3>2 DEF StreamInv, InUse
  <2> QED BY <2>1, <2>2, <2>3
<1>6. ASSUME frameworkPc = "inJpeg"
      PROVE  ~InUse(readoutBuffers)' /\ \A r \in Range(mInFlightQueue') : ~InUse(r)'
  <2>1. \A r \in {readoutRequest, readoutBuffers, configureRequest, None} \cup Range(mInFlightQueue) :
          ~InUse(r) /\ (r = None \/ r \in known)
    BY <1>2, <1>6 DEF StreamInv, InUse, UnderWay, TypeInv, ReadoutPart, ReadoutHolds
  <2>2. ASSUME NEW r, r = None \/ r \in known, ~InUse(r) PROVE ~(r # None /\ streamId' \in StreamsOf(r)')
    BY <1>1, <2>2 DEF InUse
  <2>3. \A r \in Range(mInFlightQueue') : ~InUse(r)'
    BY <2>1, <2>2 DEF RequestsFlow, InUse
  <2>4. ~InUse(readoutBuffers)'
    <3>1. PICK r \in {readoutRequest, readoutBuffers, None} \cup Range(mInFlightQueue) :
            r = readoutBuffers'
      BY DEF RequestsFlow
    <3>2. ~(r # None /\ streamId' \in StreamsOf(r)')
      BY <2>1, <2>2
    <3> QED BY <3>1, <3>2 DEF InUse, StreamsOf, HasJpeg, IsCapture
  <2> QED BY <2>3, <2>4
<1> QED BY <1>3, <1>4, <1>5, <1>6 DEF StreamInv

\* Where the framework's call goes on, nothing is moved.
LEMMA FrameworkKeeps ==
    ASSUME FrameworkStep, ~\E k \in Kinds : Enqueue(k)
    PROVE  /\ UNCHANGED <<flowVars, mIsBusy, mBuffers, kinds>>
           /\ UnderWay' = UnderWay /\ \A r : StreamsOf(r)' = StreamsOf(r)
<1>1. UNCHANGED <<requestQueue, kinds>>
  BY DEF FrameworkStep, RequestQueueNotify, BeginReleaseStream, InConfigure, InReadout,
     InReadoutInput, InJpeg, CountConfigure, CountReadout, CountJpeg, EndCount, BeginClose,
     CloseRequestExit, CloseUnlock, CloseJoined, BeginCall, Call, StillInUse, queueVars
<1>2. UNCHANGED <<flowVars, mIsBusy, mBuffers>>
  BY <1>1, FrameworkFrame DEF OnlyFramework, flowVars, readoutVars, jpegVars
<1>3. UnderWay' = UnderWay
  BY <1>2 DEF UnderWay, flowVars
<1>4. \A r : StreamsOf(r)' = StreamsOf(r)
  BY <1>1 DEF StreamsOf, HasJpeg, IsCapture
<1> QED BY <1>1, <1>2, <1>3, <1>4

LEMMA StreamEnqueue ==
    ASSUME TypeInv, LineInv, StreamInv, [Next]_vars, NEW k \in Kinds, Enqueue(k)
    PROVE  StreamInv'
<1> DEFINE new == Len(kinds) + 1
<1>1. frameworkPc' = "idle" /\ streams' = {"preview", "jpeg"}
  BY EnqueueFlow DEF Enqueue
<1>2. \A r : StreamsOf(r)' \subseteq {"preview", "jpeg"}
  BY DEF StreamsOf
<1> QED BY <1>1, <1>2 DEF StreamInv

LEMMA StreamInductive ==
    ASSUME TypeInv, LineInv, StreamInv, [Next]_vars
    PROVE  StreamInv'
<1>1. CASE \E k \in Kinds : Enqueue(k)
  BY <1>1, StreamEnqueue
<1>2. CASE (~\E k \in Kinds : Enqueue(k)) /\ UNCHANGED <<streams, streamId, frameworkPc>>
  BY <1>2, Flow, StreamFlows
<1>3. CASE (~\E k \in Kinds : Enqueue(k)) /\ ~UNCHANGED <<streams, streamId, frameworkPc>>
  <2>1. FrameworkStep
    BY <1>3, ConfigureFrame, ReadoutFrame, JpegFrame
       DEF Next, NotReadout, NotJpeg, SensorThread, callVars, vars
  <2>2. /\ UNCHANGED <<flowVars, mIsBusy, mBuffers>>
        /\ UnderWay' = UnderWay /\ \A r : StreamsOf(r)' = StreamsOf(r)
    BY <1>3, <2>1, FrameworkKeeps
  <2> DEFINE queueOut == streams' # {"preview", "jpeg"} => requestQueue' = <<>>
             asking == {"inConfigure", "inReadout", "inReadoutInput", "inJpeg"}
  <2>3. ASSUME UNCHANGED streams, frameworkPc' \notin asking
        PROVE  StreamInv'
    BY <2>2, <2>3 DEF StreamInv, flowVars
  <2>4. CASE \E s \in {"preview", "jpeg"} : BeginReleaseStream(s)
    <3>1. UNCHANGED streams /\ frameworkPc' = "inConfigure" /\ requestQueue = <<>>
      BY <2>4 DEF BeginReleaseStream, BeginCall, Call, FrameworkMoves
    <3> QED BY <2>2, <3>1 DEF StreamInv, flowVars
  <2>5. ASSUME UNCHANGED <<streams, streamId>>, frameworkPc \in asking
        PROVE  /\ requestQueue' = <<>> /\ queueOut
               /\ \A r \in UnderWay' \ {None} : StreamsOf(r)' \subseteq streams'
               /\ \A r : InUse(r)' = InUse(r)
    BY <2>2, <2>5 DEF StreamInv, flowVars, InUse
  <2>6. CASE InConfigure
    <3>1. CASE StillInUse("inConfigure")
      BY <2>3, <3>1 DEF StillInUse, Call, FrameworkMoves
    <3>2. CASE ConfigureDoesNotUse /\ frameworkPc' = "inReadout" /\ UNCHANGED <<streams, streamId>>
      <4>1. configureRequest # None => nextBuffersMade
        BY <2>6 DEF InConfigure, TypeInv, ConfigurePart, ConfigureHolds
      <4>2. ~InUse(configureRequest)
        BY <3>2, <4>1 DEF ConfigureDoesNotUse, InUse
      <4>3. frameworkPc = "inConfigure"
        BY <2>6 DEF InConfigure, StillInUse, Call, FrameworkMoves
      <4>4. ~InUse(configureRequest)'
        BY <2>2, <3>2, <4>2 DEF InUse, flowVars, StreamsOf, HasJpeg, IsCapture
      <4> QED BY <2>5, <3>2, <4>3, <4>4 DEF StreamInv
    <3> QED BY <2>6, <3>1, <3>2 DEF InConfigure, Call, FrameworkMoves
  <2>7. CASE InReadout
    <3>1. frameworkPc = "inReadout" /\ frameworkPc' = "inReadoutInput" /\ UNCHANGED <<streams, streamId>>
      BY <2>7 DEF InReadout, Call, FrameworkMoves
    <3>2. ~InUse(configureRequest)'
      BY <2>2, <3>1 DEF StreamInv, InUse, flowVars, StreamsOf, HasJpeg, IsCapture
    <3> QED BY <2>5, <3>1, <3>2 DEF StreamInv
  <2>8. CASE InReadoutInput
    <3>1. CASE StillInUse("inReadoutInput")
      BY <2>3, <3>1 DEF StillInUse, Call, FrameworkMoves
    <3>2. CASE ~StillInUse("inReadoutInput")
      <4>1. /\ frameworkPc = "inReadoutInput" /\ frameworkPc' = "inJpeg" /\ UNCHANGED <<streams, streamId>>
            /\ ~InUse(readoutBuffers) /\ \A i \in 1..Len(mInFlightQueue) : ~InUse(mInFlightQueue[i])
        BY <2>8, <3>2 DEF InReadoutInput, Call, FrameworkMoves
      <4>2. ~InUse(configureRequest)' /\ ~InUse(readoutBuffers)'
        BY <2>2, <4>1 DEF StreamInv, InUse, flowVars, StreamsOf, HasJpeg, IsCapture
      <4>3. \A r \in Range(mInFlightQueue) : ~InUse(r)
        <5>1. \A x : x \in Range(mInFlightQueue) <=> \E i \in 1..Len(mInFlightQueue) : mInFlightQueue[i] = x
          BY LineParts, InRange
        <5> QED BY <4>1, <5>1
      <4>4. \A r \in Range(mInFlightQueue') : ~InUse(r)'
        BY <2>2, <4>1, <4>3 DEF InUse, flowVars
      <4> QED BY <2>5, <4>1, <4>2, <4>4 DEF StreamInv
    <3> QED BY <3>1, <3>2
  <2>9. CASE InJpeg
    <3>1. CASE StillInUse("inJpeg")
      BY <2>3, <3>1 DEF StillInUse, Call, FrameworkMoves
    <3>2. CASE ~StillInUse("inJpeg")
      <4>1. /\ frameworkPc = "inJpeg" /\ frameworkPc' = "idle" /\ streams' = streams \ {streamId}
            /\ ~(mIsBusy /\ InUse(mBuffers))
        BY <2>9, <3>2 DEF InJpeg, Call, FrameworkMoves
      <4>2. \A r \in UnderWay : ~InUse(r)
        <5>1. requestQueue = <<>> /\ ~InUse(configureRequest) /\ ~InUse(readoutBuffers)
              /\ \A r \in Range(mInFlightQueue) : ~InUse(r)
          BY <4>1 DEF StreamInv
        <5>2. Range(requestQueue) = {}
          BY <5>1, EmptyRange
        <5>3. ~InUse(readoutRequest)
          BY <5>1 DEF TypeInv, ReadoutPart, ReadoutHolds, InUse
        <5> QED BY <4>1, <5>1, <5>2, <5>3 DEF UnderWay
      <4>3. \A r \in UnderWay' \ {None} : StreamsOf(r)' \subseteq streams'
        BY <2>2, <4>1, <4>2 DEF InUse, StreamInv
      <4>4. requestQueue' = <<>>
        BY <2>2, <4>1 DEF flowVars, StreamInv
      <4> QED BY <4>1, <4>3, <4>4 DEF StreamInv
    <3> QED BY <3>1, <3>2
  <2>10. CASE RequestQueueNotify \/ CountConfigure \/ CountReadout \/ CountJpeg \/ EndCount
              \/ BeginClose \/ CloseRequestExit \/ CloseUnlock \/ CloseJoined
    <3>1. UNCHANGED streams /\ frameworkPc' \notin asking
      BY <1>3, <2>10 DEF RequestQueueNotify, CountConfigure, CountReadout, CountJpeg, EndCount, BeginClose,
         CloseRequestExit, CloseUnlock, CloseJoined, BeginCall, Call, FrameworkMoves, callVars
    <3> QED BY <2>3, <3>1
  <2> QED BY <1>3, <2>1, <2>4, <2>6, <2>7, <2>8, <2>9, <2>10 DEF FrameworkStep
<1> QED BY <1>1, <1>2, <1>3

LEMMA StreamInitially == Init => StreamInv
BY EmptyRange DEF Init, JpegInit, StreamInv, UnderWay, None

\* What is at work is under way, and keeps to the streams there are.
LEMMA StreamImplied == TypeInv /\ StreamInv => ReleasedUnused
<1> SUFFICES ASSUME TypeInv, StreamInv PROVE Working \subseteq UnderWay \ {None}
  BY DEF ReleasedUnused, StreamInv
<1>1. \A x : x \in Range(mInFlightQueue) <=> \E i \in 1..Len(mInFlightQueue) : mInFlightQueue[i] = x
  BY LineParts, InRange
<1>2. Working \subseteq Numbers /\ None \notin Numbers
  BY WorkingRequests DEF TypeInv, None, Numbers
<1> QED BY <1>1, <1>2 DEF Working, UnderWay

\* releaseStream asks three threads, one after the other and with the locks of each given
\* back in between, whether they use the stream, while requests go from one to the next:
\* none gets past it, and no request under way uses a stream that has been released.
THEOREM StreamsReleased == Spec => []ReleasedUnused
BY TypeInitially, LineInitially, StreamInitially, TypeInductive, LineInductive, StreamInductive,
   StreamImplied, PTL DEF Spec

-----------------------------------------------------------------------------
(* The count of what is in progress.                                       *)

\* As long as the counts come to 0, none of what was under way as the first was taken is in
\* a place that has been counted, or before it.
counting == {"countReadout", "countJpeg", "counted"}

CountInv ==
    total = 0 =>
        /\ frameworkPc \in counting =>
             counted \cap (Range(requestQueue) \cup {configureRequest}) = {}
        /\ frameworkPc \in counting \ {"countReadout"} =>
             counted \cap (Range(mInFlightQueue) \cup {readoutRequest, readoutBuffers}) = {}
        /\ frameworkPc = "counted" /\ mIsBusy => mBuffers \notin counted

\* Requests that move on do not come from where nothing is to where something could be missed.
LEMMA CountFlows ==
    ASSUME TypeInv, CountInv, RequestsFlow, UNCHANGED <<total, counted, frameworkPc>>
    PROVE  CountInv'
<1>1. None \notin counted
  BY DEF TypeInv, FrameworkPart, Numbers, None
<1> QED BY <1>1 DEF CountInv, RequestsFlow, counting

\* What is at work has left the framework's queue behind.
LEMMA WorkingAhead ==
    ASSUME TypeInv, LineInv, configureCount = 0
    PROVE  Working \cap (Range(requestQueue) \cup {configureRequest}) = {}
<1>1. /\ \A x : x \in Range(mInFlightQueue) <=> \E i \in 1..Len(mInFlightQueue) : mInFlightQueue[i] = x
      /\ Range(requestQueue) \subseteq Numbers
  BY LineParts, InRange
<1>2. configureRequest = None \/ configurePc = "dequeued"
  BY DEF TypeInv, ConfigurePart
<1>3. readoutRequest # None => readoutRequest \in Range(One(readoutRequest))
  <2>1. ASSUME readoutRequest # None PROVE One(readoutRequest) = <<readoutRequest>>
    BY <2>1 DEF One
  <2> QED BY <2>1, Single
<1>4. readoutBuffers = readoutRequest \/ readoutBuffers \in Range(results)
  BY DEF TypeInv, ReadoutPart, LineInv
<1>5. Working \subseteq Range(Front)
  <2>1. Range(results) \cup Range(One(readoutRequest)) \cup Range(mInFlightQueue) \subseteq Range(Front)
    BY LinePairs
  <2>2. mIsBusy => mBuffers \in Range(results)
    BY DEF LineInv
  <2> QED BY <1>1, <1>2, <1>3, <1>4, <2>1, <2>2 DEF Working
<1>6. /\ Working \subseteq Nat /\ Range(requestQueue) \subseteq Nat /\ None \notin Working
      /\ configureRequest \in Nat
  BY <1>1, WorkingRequests, FakeCamera2Assumption DEF TypeInv, ConfigurePart, Numbers, None, Upto
<1>7. \A x \in Working, y \in Range(requestQueue) : x < y
  BY <1>5, LinePairs
<1>8. configureRequest # None => \A x \in Working : x < configureRequest
  BY <1>2, <1>5, PendingInLine DEF Queued
<1> QED BY <1>6, <1>7, <1>8

LEMMA CountInductive ==
    ASSUME TypeInv, LineInv, CountInv, [Next]_vars
    PROVE  CountInv'
<1>1. CASE \E k \in Kinds : Enqueue(k)
  <2>1. frameworkPc' = "idle"
    BY <1>1, EnqueueFlow DEF Enqueue
  <2> QED BY <2>1 DEF CountInv, counting
<1>2. CASE (~\E k \in Kinds : Enqueue(k)) /\ UNCHANGED <<total, counted, frameworkPc>>
  BY <1>2, Flow, CountFlows
<1>3. CASE (~\E k \in Kinds : Enqueue(k)) /\ ~UNCHANGED <<total, counted, frameworkPc>>
  <2>1. FrameworkStep
    BY <1>3, ConfigureFrame, ReadoutFrame, JpegFrame
       DEF Next, NotReadout, NotJpeg, SensorThread, callVars, vars
  <2>2. UNCHANGED <<flowVars, mIsBusy, mBuffers>>
    BY <1>3, <2>1, FrameworkKeeps
  <2>3. total \in Nat /\ readoutCount = Len(mInFlightQueue) +
          (IF readoutRequest # None \/ readoutPc \in ReadoutHolds THEN 1 ELSE 0)
    BY DEF TypeInv, FrameworkPart, ReadoutPart
  <2>4. CASE CountConfigure
    <3>1. frameworkPc' = "countReadout" /\ total' = configureCount /\ counted' = Working
      BY <2>4 DEF CountConfigure, BeginCall, Call, FrameworkMoves, InProgress
    <3> QED BY <2>2, <3>1, WorkingAhead DEF CountInv, flowVars, counting
  <2>5. CASE CountReadout
    <3>1. /\ frameworkPc = "countReadout" /\ frameworkPc' = "countJpeg"
          /\ total' = total + readoutCount /\ counted' = counted
      BY <2>5 DEF CountReadout, Call, FrameworkMoves, InProgress
    <3>2. Len(mInFlightQueue) \in Nat
      BY LineParts, LenProperties
    <3>3. total' = 0 => /\ total = 0 /\ Len(mInFlightQueue) = 0
                        /\ readoutRequest = None /\ readoutPc \notin ReadoutHolds
      BY <2>3, <3>1, <3>2
    <3>4. Len(mInFlightQueue) = 0 => mInFlightQueue = <<>> /\ Range(mInFlightQueue) = {}
      BY LineParts, EmptySeq, EmptyRange
    <3>5. total' = 0 => Range(mInFlightQueue) = {} /\ readoutRequest = None /\ readoutBuffers = None
      BY <3>3, <3>4 DEF TypeInv, ReadoutPart, ReadoutHolds
    <3>6. None \notin counted
      BY DEF TypeInv, FrameworkPart, Numbers, None
    <3> QED BY <2>2, <3>1, <3>3, <3>5, <3>6 DEF CountInv, flowVars, counting
  <2>6. CASE CountJpeg
    <3>1. /\ frameworkPc = "countJpeg" /\ frameworkPc' = "counted"
          /\ total' = total + (IF mIsBusy THEN 1 ELSE 0) /\ counted' = counted
      BY <2>6 DEF CountJpeg, Call, FrameworkMoves, InProgress
    <3>2. total' = 0 => total = 0 /\ ~mIsBusy
      BY <2>3, <3>1
    <3> QED BY <2>2, <3>1, <3>2 DEF CountInv, flowVars, counting
  <2>7. CASE ~CountConfigure /\ ~CountReadout /\ ~CountJpeg
    <3>1. frameworkPc' \notin counting
      BY <1>3, <2>1, <2>7 DEF FrameworkStep, RequestQueueNotify, BeginReleaseStream, InConfigure, InReadout,
         InReadoutInput, InJpeg, EndCount, BeginClose, CloseRequestExit, CloseUnlock, CloseJoined,
         BeginCall, Call, StillInUse, FrameworkMoves, callVars, counting
    <3> QED BY <3>1 DEF CountInv, counting
  <2> QED BY <2>4, <2>5, <2>6, <2>7
<1> QED BY <1>1, <1>2, <1>3

LEMMA CountInitially == Init => CountInv
BY DEF Init, CountInv, counting

LEMMA CountImplied == TypeInv /\ CountInv => CountNotShort
<1> SUFFICES ASSUME TypeInv, CountInv, frameworkPc = "counted", total = 0
             PROVE  Working \cap counted = {}
  BY DEF CountNotShort
<1>1. \A x : x \in Range(mInFlightQueue) <=> \E i \in 1..Len(mInFlightQueue) : mInFlightQueue[i] = x
  BY LineParts, InRange
<1> QED BY <1>1 DEF CountInv, Working, counting

\* getInProgressCount takes its three counts one after the other as requests go from thread
\* to thread. It asks them in the order in which requests pass, so that it may count one
\* twice but misses none: with 0 for an answer all that was under way has ended.
THEOREM CountComplete == Spec => []CountNotShort
BY TypeInitially, LineInitially, CountInitially, TypeInductive, LineInductive, CountInductive,
   CountImplied, PTL DEF Spec

=============================================================================
