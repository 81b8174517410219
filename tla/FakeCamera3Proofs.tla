-------------------------- MODULE FakeCamera3Proofs --------------------------
(***************************************************************************)
(* Theorems about the version 3 emulated camera, for any number of frames, *)
(* any queue size, and with neither of the assumptions about timing and    *)
(* the framework that Prompt and Drained stand for.                        *)
(*                                                                         *)
(* The inductive invariants that carry them:                               *)
(*   ExposureInv   the control parameters, from the setters to the latch   *)
(*   QueueInv      the room found in the in-flight queue, until it is used *)
(*   IdleInv       the camera status                                       *)
(*   PipeInv       the numbers of the frames in the sensor and of the      *)
(*                 requests in the queue, and that the two line up         *)
(*   JpegInv       who has the JPEG buffer of a frame                      *)
(*   OrderInv      the results sent, against the frames taken              *)
(*   FreeInv       which buffer sets can have been deleted                 *)
(***************************************************************************)
EXTENDS FakeCamera3, SequenceFacts, TLAPS

USE DEF NoBuffers

ExposureInv ==
    /\ callerPc \in {"exposure", "buffers"} => mNextBuffers = NoBuffers
    /\ callerPc = "vsyncBlocked" /\ mGotVSync => mNextBuffers = NoBuffers
    /\ callerPc = "buffers" => mExposureTime = request.frameNumber
    /\ mNextBuffers # NoBuffers => mExposureTime = mNextBuffers
    /\ OwnExposure

QueueInv ==
    /\ QueueBounded
    /\ callerPc \in {"vsync", "vsyncBlocked", "exposure", "buffers", "frameNumber", "queue"} =>
         Len(mInFlightQueue) < kMaxQueueSize

IdleInv ==
    /\ callerPc \in InCall => mStatus = "ACTIVE"
    /\ mStatus # "ACTIVE" => mInFlightQueue = <<>>
    /\ mStatus \in {"OPEN", "READY"} =>
         /\ readoutPc \in {"off", "loop", "send"}
         /\ readoutPc = "loop" => mCurrentRequest = NoRequest

\* The last frame in each place of the sensor, counted from the reader's end.
LastRead     == IF mCapturedBuffers = NoBuffers THEN takenBuffers ELSE takenBuffers + 1
LastCaptured == IF CapturedFrame = NoBuffers THEN LastRead ELSE LastRead + 1
LastLatched  == IF LatchedFrame = NoBuffers THEN LastCaptured ELSE LastCaptured + 1
LastSet      == IF mNextBuffers = NoBuffers THEN LastLatched ELSE LastLatched + 1

\* The current request still waits for its frame.
AwaitsFrame == mCurrentRequest # NoRequest /\ readoutPc \in {"off", "loop", "frame"}
LastTakenUp == IF AwaitsFrame THEN takenBuffers + 1 ELSE takenBuffers

Processing == readoutPc \in {"process", "checkIdle", "signalIdle", "send"}

SensorPipe ==
    /\ mCapturedBuffers # NoBuffers => mCapturedBuffers = LastRead
    /\ CapturedFrame # NoBuffers => CapturedFrame = LastCaptured
    /\ LatchedFrame # NoBuffers => LatchedFrame = LastLatched
    /\ mNextBuffers # NoBuffers => mNextBuffers = LastSet
    /\ LastSet = IF callerPc \in {"frameNumber", "queue"} THEN nextFrame ELSE nextFrame - 1
    /\ sensorPc = "readoutWoken" => mCapturedBuffers = NoBuffers

RequestPipe ==
    /\ readoutPc = "frame" => mCurrentRequest # NoRequest
    /\ AwaitsFrame => mCurrentRequest.frameNumber = takenBuffers + 1
    /\ Processing => mCurrentRequest.frameNumber = takenBuffers
    /\ \A i \in 1..Len(mInFlightQueue) : mInFlightQueue[i].frameNumber = LastTakenUp + i
    /\ nextFrame = LastTakenUp + Len(mInFlightQueue) + 1

PipeInv ==
    /\ callerPc \in InCall => request.frameNumber = nextFrame
    /\ callerPc \in InCall \cup {"closing", "joining"} => mStatus # "CLOSED"
    /\ callerPc = "joining" => sensorPc = "off"
    /\ mStatus = "CLOSED" => readoutPc = "off" /\ sensorPc = "off"
    /\ mStatus # "CLOSED" => SensorPipe /\ RequestPipe

-----------------------------------------------------------------------------
(* The type invariant.                                                     *)

\* What the in-flight queue yields is a request.
LEMMA DequeuedRequest ==
    ASSUME VarTypes, mInFlightQueue # <<>>
    PROVE  Head(mInFlightQueue) \in Requests /\ Tail(mInFlightQueue) \in Seq(Requests)
<1>1. mInFlightQueue \in Seq(Requests)
  BY DEF VarTypes, ReadoutTypeOK
<1> QED BY <1>1

\* Every place of the in-flight queue holds a frame number.
LEMMA QueuedRequests ==
    ASSUME VarTypes
    PROVE  \A i \in 1..Len(mInFlightQueue) : mInFlightQueue[i].frameNumber \in Nat
<1>1. mInFlightQueue \in Seq(Requests)
  BY DEF VarTypes, ReadoutTypeOK
<1>2. \A r \in Requests : r.frameNumber \in Nat
  BY DEF Requests
<1>3. \A i \in 1..Len(mInFlightQueue) : mInFlightQueue[i] \in Requests
  BY <1>1
<1> QED BY <1>2, <1>3

\* Each step keeps every variable in its type.
LEMMA TypeInductive == VarTypes /\ [Next]_vars => VarTypes'
<1> USE DEF VarTypes, SensorTypeOK, JpegTypeOK, ReadoutTypeOK, Requests, NoRequest,
            SensorPcs, ReadoutPcs, CallerPcs, InCall
<1> USE DEF vars, sensorVars, controlVars, jpegVars, readoutVars, queueVars, listenerVars,
            threadVars, receivedVars, cameraVars, Calls, OnlyCaller, Moves, Free
<1>1. VarTypes /\ ConnectCamera => VarTypes'
  <2>1. ConnectCamera =>
          /\ mGotVSync' \in BOOLEAN /\ sensorExit' \in BOOLEAN /\ mIsBusy' \in BOOLEAN
          /\ mJpegWaiting' \in BOOLEAN /\ readoutExit' \in BOOLEAN
    BY Zenon DEF ConnectCamera, SensorStartUp, ReadoutStart, JpegCreate
  <2> QED BY <2>1 DEF ConnectCamera, SensorStartUp, ReadoutStart, JpegCreate, NoLatch
<1>2. VarTypes /\ InitializeDevice => VarTypes'
  BY DEF InitializeDevice
<1>3. VarTypes /\ ConfigureStreams => VarTypes'
  <2>1. ConfigureStreams => mPrevSettings' \in BOOLEAN
    BY Zenon DEF ConfigureStreams
  <2> QED BY <2>1 DEF ConfigureStreams
<1>4. VarTypes /\ (ProcessCaptureRequest \/ RejectRequest) => VarTypes'
  <2>1. VarTypes /\ ProcessCaptureRequest => VarTypes'
    BY DEF ProcessCaptureRequest, StartRequest
  <2>2. VarTypes /\ RejectRequest => VarTypes'
    BY DEF RejectRequest, StartRequest
  <2> QED BY <2>1, <2>2
<1>5. VarTypes /\ CloseCamera => VarTypes'
  BY DEF CloseCamera, SensorRequestExit
<1>6. VarTypes /\ CallerStep => VarTypes'
  <2>1. VarTypes /\ AwaitJpeg => VarTypes'
    <3> SUFFICES ASSUME VarTypes, AwaitJpeg PROVE VarTypes'
      OBVIOUS
    <3>0. UNCHANGED <<sensorVars, readoutVars, request>> /\ OnlyCaller
      BY DEF AwaitJpeg
    <3>1. CASE WaitForDoneAtOnce /\ Calls("jpegWait", "readoutWait")
      BY <3>0, <3>1 DEF WaitForDoneAtOnce
    <3>2. CASE WaitForDoneBlock /\ Calls("jpegWait", "jpegBlocked")
      BY <3>0, <3>2 DEF WaitForDoneBlock
    <3>3. CASE WaitForDoneEnds("signalled") /\ Calls("jpegBlocked", "readoutWait")
      BY <3>0, <3>3 DEF WaitForDoneEnds
    <3> QED BY <3>1, <3>2, <3>3 DEF AwaitJpeg
  <2>2. VarTypes /\ AwaitReadout => VarTypes'
    BY DEF AwaitReadout
  <2>8. VarTypes /\ GotVSync => VarTypes'
    BY DEF GotVSync
  <2>3. VarTypes /\ AwaitVSync => VarTypes'
    <3>1. AwaitVSync => mGotVSync' \in BOOLEAN
      BY Zenon DEF AwaitVSync, BeginVSyncWait, SetControl
    <3> QED BY <3>1 DEF AwaitVSync, BeginVSyncWait, SetControl
  <2>4. VarTypes /\ ConfigureSensor => VarTypes'
    <3> SUFFICES ASSUME VarTypes, ConfigureSensor PROVE VarTypes'
      OBVIOUS
    <3>0. UNCHANGED <<jpegVars, readoutVars, request>> /\ OnlyCaller
      BY DEF ConfigureSensor
    <3>1. CASE Calls("exposure", "buffers") /\ SetExposure(request.frameNumber)
      BY <3>0, <3>1 DEF SetExposure, SetControl
    <3>2. CASE Calls("buffers", "frameNumber") /\ SetDestinationBuffers(request.frameNumber)
      BY <3>0, <3>2 DEF SetDestinationBuffers, SetControl
    <3>3. CASE Calls("frameNumber", "queue") /\ SetFrameNumber(request.frameNumber)
      BY <3>0, <3>3 DEF SetFrameNumber, SetControl
    <3> QED BY <3>1, <3>2, <3>3 DEF ConfigureSensor
  <2>5. VarTypes /\ QueueRequest => VarTypes'
    BY DEF QueueRequest, QueueCaptureRequest
  <2>6. VarTypes /\ CloseSensorDown => VarTypes'
    BY DEF CloseSensorDown, ReadoutRequestExit
  <2>7. VarTypes /\ CloseJoined => VarTypes'
    <3> SUFFICES ASSUME VarTypes, CloseJoined PROVE VarTypes'
      OBVIOUS
    <3>1. \A i \in 1..Len(mInFlightQueue) : mInFlightQueue[i].frameNumber \in Nat
      BY QueuedRequests
    <3>2. freed' \subseteq Nat
      BY ZenonT(30), <3>1 DEF CloseJoined, ReadoutDestroy
    <3> HIDE DEF Free
    <3> QED BY <3>2 DEF CloseJoined, ReadoutDestroy
  <2> QED BY <2>1, <2>2, <2>3, <2>4, <2>5, <2>6, <2>7, <2>8 DEF CallerStep
<1>7. VarTypes /\ CallerTimeout => VarTypes'
  <2>1. VarTypes /\ AwaitJpegTimeout => VarTypes'
    BY DEF AwaitJpegTimeout, GiveUp, WaitForDoneEnds
  <2>2. VarTypes /\ AwaitReadoutTimeout => VarTypes'
    BY DEF AwaitReadoutTimeout, GiveUp
  <2>3. VarTypes /\ VSyncTimeout => VarTypes'
    <3>1. VarTypes /\ VSyncTimeout /\ Calls("vsyncBlocked", "vsync")
            /\ UNCHANGED <<sensorVars, readoutVars, request>> /\ OnlyCaller => VarTypes'
      BY DEF VSyncTimeout
    <3>2. VarTypes /\ VSyncTimeout /\ GiveUp("vsyncBlocked") => VarTypes'
      BY DEF VSyncTimeout, GiveUp
    <3> QED BY <3>1, <3>2 DEF VSyncTimeout
  <2> QED BY <2>1, <2>2, <2>3 DEF CallerTimeout
<1>8. VarTypes /\ SensorThread => VarTypes'
  <2> SUFFICES ASSUME VarTypes, SensorThread PROVE VarTypes'
    OBVIOUS
  <2>0. UNCHANGED <<jpegVars, readoutVars, cameraVars>>
    BY DEF SensorThread
  <2>1. CASE SensorLatch
    BY <2>0, <2>1 DEF SensorLatch, NextBuffersAfterLatch
  <2>2. CASE SensorReadout
    BY <2>0, <2>2 DEF SensorReadout, Deliver
  <2>3. CASE SensorReadoutBlock
    BY <2>0, <2>3 DEF SensorReadoutBlock
  <2>4. CASE SensorReadoutWoken
    BY <2>0, <2>4 DEF SensorReadoutWoken, Deliver
  <2>5. CASE SensorCapture
    BY <2>0, <2>5 DEF SensorCapture
  <2>6. CASE SensorExit
    BY <2>0, <2>6 DEF SensorExit
  <2> QED BY <2>1, <2>2, <2>3, <2>4, <2>5, <2>6 DEF SensorThread, SensorStep
<1>9. VarTypes /\ ReadoutStep => VarTypes'
  <2> SUFFICES ASSUME VarTypes, ReadoutStep PROVE VarTypes'
    OBVIOUS
  <2>0. UNCHANGED cameraVars
    BY DEF ReadoutStep
  <2>1. CASE ReadoutDequeue
    <3>1. mCurrentRequest' \in Requests /\ mInFlightQueue' \in Seq(Requests)
      BY <2>1, DequeuedRequest DEF ReadoutDequeue
    <3> QED BY <2>0, <2>1, <3>1 DEF ReadoutDequeue
  <2>2. CASE ReadoutResume
    BY <2>0, <2>2 DEF ReadoutResume
  <2>3. CASE ReadoutWaitForFrame
    BY <2>0, <2>3 DEF ReadoutWaitForFrame, NewFrameBlock
  <2>4. CASE ReadoutNoFrame
    BY <2>0, <2>4 DEF ReadoutNoFrame, NewFrameTimeout
  <2>5. CASE ReadoutGotFrame
    <3>1. CASE NewFrameAtOnce
      BY <2>0, <2>5, <3>1 DEF ReadoutGotFrame, NewFrameAtOnce, SignalReadoutComplete
    <3>2. CASE NewFrameWoken
      BY <2>0, <2>5, <3>2 DEF ReadoutGotFrame, NewFrameWoken
    <3> QED BY <2>5, <3>1, <3>2 DEF ReadoutGotFrame
  <2>6. CASE ReadoutProcessPlain
    BY <2>0, <2>6 DEF ReadoutProcessPlain
  <2>7. CASE ReadoutThreadExit
    BY <2>0, <2>7 DEF ReadoutThreadExit
  <2>8. CASE ReadoutCheckIdle
    <3>1. mThreadActive' \in BOOLEAN
      BY <2>8, Zenon DEF ReadoutCheckIdle
    <3> QED BY <2>0, <2>8, <3>1 DEF ReadoutCheckIdle
  <2>9. CASE ReadoutJpegRefused
    <3>1. mBuffers' \in Nat /\ freed' \subseteq Nat /\ mIsBusy' \in BOOLEAN
          /\ UNCHANGED <<jpegPc, jpegDone>>
      BY <2>9 DEF ReadoutJpegRefused, StartRefused, StartFailed
    <3> QED BY <2>0, <2>9, <3>1 DEF ReadoutJpegRefused
  <2>10. CASE ReadoutJpegStarted
    BY <2>0, <2>10 DEF ReadoutJpegStarted, Started
  <2>11. CASE ReadoutSend
    <3>1. freed' \subseteq Nat /\ jpegReturned' \subseteq Nat
      BY <2>11 DEF ReadoutSend, BuffersToDelete
    <3> HIDE DEF Free
    <3> QED BY <2>0, <2>11, <3>1 DEF ReadoutSend
  <2> QED BY <2>1, <2>2, <2>3, <2>4, <2>5, <2>6, <2>7, <2>8, <2>9, <2>10, <2>11
          DEF ReadoutStep
<1>10. VarTypes /\ SignalReadoutIdle => VarTypes'
  BY DEF SignalReadoutIdle
<1>11. VarTypes /\ JpegThread => VarTypes'
  <2> SUFFICES ASSUME VarTypes, JpegThread PROVE VarTypes'
    OBVIOUS
  <2>0. UNCHANGED cameraVars
    BY DEF JpegThread
  <2>1. CASE OnJpegDone
    <3>1. mJpegWaiting' \in BOOLEAN
      BY <2>1, Zenon DEF OnJpegDone
    <3> QED BY <2>0, <2>1, <3>1 DEF OnJpegDone, Compress, JpegResultFrame
  <2>2. CASE JpegThreadStep
    <3>0. UNCHANGED <<sensorVars, readoutVars>>
      BY <2>2 DEF JpegThreadStep
    <3>1. CASE JpegCleanUp
      <4>1. mIsBusy' \in BOOLEAN
        BY <3>1, Zenon DEF JpegCleanUp, CleanUpBusy
      <4> QED BY <2>0, <3>0, <3>1, <4>1 DEF JpegCleanUp
    <3>2. CASE JpegThreadExit
      BY <2>0, <3>0, <3>2 DEF JpegThreadExit
    <3> QED BY <2>2, <3>1, <3>2 DEF JpegThreadStep
  <2> QED BY <2>1, <2>2 DEF JpegThread
<1>12. VarTypes /\ UNCHANGED vars => VarTypes'
  OBVIOUS
<1> QED BY <1>1, <1>2, <1>3, <1>4, <1>5, <1>6, <1>7, <1>8, <1>9, <1>10, <1>11, <1>12 DEF Next

LEMMA VarsTyped == Spec => []VarTypes
<1>1. Init => VarTypes
  <2> SUFFICES ASSUME Init PROVE VarTypes
    OBVIOUS
  <2>1. /\ mGotVSync \in BOOLEAN /\ sensorExit \in BOOLEAN /\ mIsBusy \in BOOLEAN
        /\ mThreadActive \in BOOLEAN /\ mJpegWaiting \in BOOLEAN /\ readoutExit \in BOOLEAN
        /\ mPrevSettings \in BOOLEAN
    BY Zenon DEF Init, SensorInit, JpegInit, ReadoutInit
  <2> QED BY <2>1 DEF Init, SensorInit, JpegInit, ReadoutInit, NoLatch, VarTypes,
       SensorTypeOK, JpegTypeOK, ReadoutTypeOK, Requests, NoRequest, SensorPcs, ReadoutPcs,
       CallerPcs, InCall
<1> QED BY <1>1, TypeInductive, PTL DEF Spec

-----------------------------------------------------------------------------
(* The control parameters between the setters and the latch.               *)

\* The variables ExposureInv speaks of.
exposureVars == <<mGotVSync, mExposureTime, mNextBuffers, LatchedFrame, latched, callerPc,
                  request>>

LEMMA ExposureFrame == ExposureInv /\ UNCHANGED exposureVars => ExposureInv'
BY DEF ExposureInv, OwnExposure, exposureVars

LEMMA ExposureInductive == VarTypes /\ ExposureInv /\ [Next]_vars => ExposureInv'
<1> SUFFICES ASSUME VarTypes, ExposureInv, [Next]_vars PROVE ExposureInv'
  OBVIOUS
<1> USE DEF vars, sensorVars, controlVars, cameraVars, Calls, OnlyCaller
<1>1. CASE ConnectCamera
  BY <1>1 DEF ConnectCamera, SensorStartUp, NoLatch, ExposureInv, OwnExposure, LatchedFrame
<1>2. CASE InitializeDevice \/ ConfigureStreams
  BY <1>2, ExposureFrame DEF InitializeDevice, ConfigureStreams, exposureVars, LatchedFrame
<1>3. CASE ProcessCaptureRequest \/ RejectRequest
  BY <1>3 DEF ProcessCaptureRequest, RejectRequest, StartRequest, ExposureInv, OwnExposure,
              LatchedFrame
<1>4. CASE CloseCamera
  BY <1>4 DEF CloseCamera, SensorRequestExit, ExposureInv, OwnExposure, LatchedFrame
<1>5. CASE CallerStep
  <2>1. CASE AwaitJpeg \/ AwaitReadout \/ GotVSync
    BY <2>1 DEF AwaitJpeg, AwaitReadout, GotVSync, VSyncResult, ExposureInv, OwnExposure,
                LatchedFrame
  <2>2. CASE AwaitVSync
    BY <2>2 DEF AwaitVSync, BeginVSyncWait, SetControl, ExposureInv, OwnExposure, LatchedFrame
  <2>3. CASE ConfigureSensor
    BY <2>3 DEF ConfigureSensor, SetExposure, SetDestinationBuffers, SetFrameNumber,
                SetControl, ExposureInv, OwnExposure, LatchedFrame
  <2>4. CASE QueueRequest
    BY <2>4 DEF QueueRequest, ExposureInv, OwnExposure, LatchedFrame
  <2>5. CASE CloseSensorDown \/ CloseJoined
    BY <2>5 DEF CloseSensorDown, CloseJoined, ExposureInv, OwnExposure, LatchedFrame
  <2> QED BY <1>5, <2>1, <2>2, <2>3, <2>4, <2>5 DEF CallerStep
<1>6. CASE CallerTimeout
  BY <1>6 DEF CallerTimeout, AwaitJpegTimeout, AwaitReadoutTimeout, VSyncTimeout, GiveUp,
              ExposureInv, OwnExposure, LatchedFrame
<1>7. CASE SensorThread
  BY <1>7 DEF SensorThread, SensorStep, SensorLatch, SensorReadout, SensorReadoutBlock,
              SensorReadoutWoken, SensorCapture, SensorExit, Deliver, NextBuffersAfterLatch,
              ExposureInv, OwnExposure, LatchedFrame
<1>8. CASE ReadoutStep
  <2>1. UNCHANGED <<mGotVSync, mExposureTime, mNextBuffers, latched, callerPc, request>>
    BY <1>8 DEF ReadoutStep, ReadoutDequeue, ReadoutResume, ReadoutWaitForFrame,
                ReadoutNoFrame, ReadoutGotFrame, ReadoutProcessPlain, ReadoutJpegRefused,
                ReadoutJpegStarted, ReadoutCheckIdle, ReadoutSend, ReadoutThreadExit,
                NewFrameAtOnce, NewFrameWoken, NewFrameBlock, NewFrameTimeout
  <2>2. UNCHANGED LatchedFrame
    BY <1>8 DEF ReadoutStep, ReadoutDequeue, ReadoutResume, ReadoutWaitForFrame,
                ReadoutNoFrame, ReadoutGotFrame, ReadoutProcessPlain, ReadoutJpegRefused,
                ReadoutJpegStarted, ReadoutCheckIdle, ReadoutSend, ReadoutThreadExit,
                NewFrameAtOnce, NewFrameWoken, NewFrameBlock, NewFrameTimeout,
                SignalReadoutComplete, LatchedFrame
  <2> QED BY <2>1, <2>2, ExposureFrame DEF exposureVars
<1>9. CASE SignalReadoutIdle
  BY <1>9, ExposureFrame DEF SignalReadoutIdle, exposureVars, LatchedFrame
<1>10. CASE JpegThread
  BY <1>10, ExposureFrame DEF JpegThread, OnJpegDone, JpegThreadStep, exposureVars, LatchedFrame
<1>11. CASE UNCHANGED vars
  BY <1>11, ExposureFrame DEF exposureVars, LatchedFrame
<1> QED BY <1>1, <1>2, <1>3, <1>4, <1>5, <1>6, <1>7, <1>8, <1>9, <1>10, <1>11 DEF Next

\* Whenever the sensor latches between the setters of processCaptureRequest, the
\* frame it then exposes has the exposure of its own request.
THEOREM ExposureCorrect == Spec => []OwnExposure
<1>1. Init => ExposureInv
  BY DEF Init, SensorInit, NoLatch, ExposureInv, OwnExposure, LatchedFrame
<1>2. ExposureInv => OwnExposure
  BY DEF ExposureInv
<1> QED BY <1>1, <1>2, VarsTyped, ExposureInductive, PTL DEF Spec

\* No buffer set is replaced before the sensor has latched it.
THEOREM BuffersLatched == Spec => NoBufferSetLost
<1>1. Init => ExposureInv
  BY DEF Init, SensorInit, NoLatch, ExposureInv, OwnExposure, LatchedFrame
<1>2. ExposureInv /\ [Next]_vars =>
        [mNextBuffers' # mNextBuffers => mNextBuffers = NoBuffers \/ mNextBuffers' = NoBuffers]_vars
  <2> SUFFICES ASSUME ExposureInv, Next, mNextBuffers' # mNextBuffers, mNextBuffers' # NoBuffers
               PROVE  mNextBuffers = NoBuffers
    OBVIOUS
  <2> USE DEF sensorVars, controlVars, Calls
  <2>1. ~ConnectCamera /\ ~InitializeDevice /\ ~ConfigureStreams /\ ~CloseCamera
    BY DEF ConnectCamera, SensorStartUp, InitializeDevice, ConfigureStreams, CloseCamera,
           SensorRequestExit
  <2>2. ~ProcessCaptureRequest /\ ~RejectRequest
    BY DEF ProcessCaptureRequest, RejectRequest, StartRequest
  <2>3. ~AwaitJpegTimeout /\ ~AwaitReadoutTimeout /\ ~VSyncTimeout
    BY DEF AwaitJpegTimeout, AwaitReadoutTimeout, VSyncTimeout, GiveUp
  <2>4. ~SensorThread
    BY DEF SensorThread, SensorStep, SensorLatch, SensorReadout, SensorReadoutBlock,
           SensorReadoutWoken, SensorCapture, SensorExit, Deliver, NextBuffersAfterLatch
  <2>5. ~ReadoutStep
    BY DEF ReadoutStep, ReadoutDequeue, ReadoutResume, ReadoutWaitForFrame, ReadoutNoFrame,
           ReadoutGotFrame, ReadoutProcessPlain, ReadoutJpegRefused, ReadoutJpegStarted,
           ReadoutCheckIdle, ReadoutSend, ReadoutThreadExit, NewFrameAtOnce, NewFrameWoken,
           NewFrameBlock, NewFrameTimeout
  <2>6. ~SignalReadoutIdle /\ ~JpegThread
    BY DEF SignalReadoutIdle, JpegThread, OnJpegDone, JpegThreadStep
  <2>7. CallerStep
    BY <2>1, <2>2, <2>3, <2>4, <2>5, <2>6 DEF Next, CallerTimeout
  <2>8. ConfigureSensor
    BY <2>7 DEF CallerStep, AwaitJpeg, AwaitReadout, AwaitVSync, GotVSync, QueueRequest,
                CloseSensorDown, CloseJoined, BeginVSyncWait, SetControl
  <2> QED BY <2>8 DEF ConfigureSensor, SetExposure, SetFrameNumber, SetControl, ExposureInv
<1> QED BY <1>1, <1>2, VarsTyped, ExposureInductive, PTL DEF Spec, NoBufferSetLost

-----------------------------------------------------------------------------
(* Room in the in-flight queue.                                            *)

LEMMA QueueInductive == VarTypes /\ QueueInv /\ [Next]_vars => QueueInv'
<1> SUFFICES ASSUME VarTypes, QueueInv, [Next]_vars PROVE QueueInv'
  OBVIOUS
<1>0. mInFlightQueue \in Seq(Requests) /\ request \in Requests /\ kMaxQueueSize \in Nat \ {0}
  BY FakeCamera3Assumption DEF VarTypes, ReadoutTypeOK
<1> USE DEF vars, readoutVars, queueVars, cameraVars, Calls, QueueInv, QueueBounded
<1>1. CASE ConnectCamera
  BY <1>0, <1>1 DEF ConnectCamera, ReadoutStart
<1>2. CASE CallerStep
  <2>1. CASE QueueRequest
    BY <1>0, <2>1 DEF QueueRequest, QueueCaptureRequest
  <2>2. CASE CloseJoined
    BY <1>0, <2>2 DEF CloseJoined, ReadoutDestroy
  <2>3. CASE AwaitReadout
    BY <2>3 DEF AwaitReadout, QueueHasRoom
  <2>4. CASE AwaitJpeg \/ AwaitVSync \/ GotVSync \/ ConfigureSensor
    BY <2>4 DEF AwaitJpeg, AwaitVSync, GotVSync, ConfigureSensor
  <2>5. CASE CloseSensorDown
    BY <2>5 DEF CloseSensorDown, ReadoutRequestExit
  <2> QED BY <1>2, <2>1, <2>2, <2>3, <2>4, <2>5 DEF CallerStep
<1>3. CASE ProcessCaptureRequest \/ RejectRequest \/ CloseCamera \/ InitializeDevice \/ ConfigureStreams
  BY <1>3 DEF ProcessCaptureRequest, RejectRequest, StartRequest, CloseCamera,
              InitializeDevice, ConfigureStreams
<1>4. CASE CallerTimeout
  BY <1>4 DEF CallerTimeout, AwaitJpegTimeout, AwaitReadoutTimeout, VSyncTimeout, GiveUp
<1>5. CASE ReadoutStep
  <2>1. CASE ReadoutDequeue
    BY <1>0, <1>5, <2>1 DEF ReadoutStep, ReadoutDequeue
  <2>2. CASE ~ReadoutDequeue
    BY <1>5, <2>2 DEF ReadoutStep, ReadoutResume, ReadoutWaitForFrame, ReadoutNoFrame,
           ReadoutGotFrame, ReadoutProcessPlain, ReadoutJpegRefused, ReadoutJpegStarted,
           ReadoutCheckIdle, ReadoutSend, ReadoutThreadExit
  <2> QED BY <2>1, <2>2
<1>6. CASE SensorThread \/ SignalReadoutIdle \/ JpegThread \/ UNCHANGED vars
  BY <1>6 DEF SensorThread, SignalReadoutIdle, JpegThread, OnJpegDone, JpegThreadStep
<1> QED BY <1>1, <1>2, <1>3, <1>4, <1>5, <1>6 DEF Next

\* The in-flight queue keeps within its limit, although the room the caller found
\* in it is used only after the wait for VSync.
THEOREM QueueCorrect == Spec => []QueueBounded
<1>1. Init => QueueInv
  BY FakeCamera3Assumption DEF Init, ReadoutInit, QueueInv, QueueBounded
<1>2. QueueInv => QueueBounded
  BY DEF QueueInv
<1> QED BY <1>1, <1>2, VarsTyped, QueueInductive, PTL DEF Spec

-----------------------------------------------------------------------------
(* The camera status.                                                      *)

\* The variables IdleInv speaks of.
idleVars == <<callerPc, mStatus, mInFlightQueue, readoutPc, mCurrentRequest>>

LEMMA IdleFrame == IdleInv /\ UNCHANGED idleVars => IdleInv'
BY DEF IdleInv, idleVars

LEMMA IdleInductive == VarTypes /\ IdleInv /\ [Next]_vars => IdleInv'
<1> SUFFICES ASSUME VarTypes, IdleInv, [Next]_vars PROVE IdleInv'
  OBVIOUS
<1>0. mStatus \in {"CLOSED", "OPEN", "READY", "ACTIVE"} /\ callerPc \in CallerPcs
  BY DEF VarTypes
<1> USE DEF vars, cameraVars, readoutVars, queueVars, threadVars, Calls, OnlyCaller, Moves,
            IdleInv, InCall
<1>1. CASE ConnectCamera
  BY <1>1 DEF ConnectCamera, ReadoutStart
<1>2. CASE InitializeDevice
  BY <1>2 DEF InitializeDevice
<1>3. CASE ConfigureStreams
  BY <1>3, IdleFrame DEF ConfigureStreams, idleVars
<1>4. CASE ProcessCaptureRequest
  BY <1>4 DEF ProcessCaptureRequest, StartRequest
<1>5. CASE RejectRequest
  BY <1>5 DEF RejectRequest, StartRequest
<1>6. CASE CloseCamera
  BY <1>6 DEF CloseCamera
<1>7. CASE CallerStep
  <2>1. CASE AwaitJpeg
    BY <2>1 DEF AwaitJpeg
  <2>2. CASE AwaitReadout
    BY <2>2 DEF AwaitReadout
  <2>3. CASE AwaitVSync
    BY <2>3 DEF AwaitVSync
  <2>4. CASE GotVSync
    BY <2>4 DEF GotVSync
  <2>5. CASE ConfigureSensor
    BY <2>5 DEF ConfigureSensor
  <2>6. CASE QueueRequest
    BY <2>6 DEF QueueRequest
  <2>7. CASE CloseSensorDown
    BY <2>7 DEF CloseSensorDown, ReadoutRequestExit
  <2>8. CASE CloseJoined
    BY <2>8 DEF CloseJoined, ReadoutDestroy
  <2> QED BY <1>7, <2>1, <2>2, <2>3, <2>4, <2>5, <2>6, <2>7, <2>8 DEF CallerStep
<1>8. CASE CallerTimeout
  <2>1. CASE AwaitJpegTimeout
    BY <2>1 DEF AwaitJpegTimeout, GiveUp
  <2>2. CASE AwaitReadoutTimeout
    BY <2>2 DEF AwaitReadoutTimeout, GiveUp
  <2>3. CASE VSyncTimeout
    BY <2>3 DEF VSyncTimeout, GiveUp
  <2> QED BY <1>8, <2>1, <2>2, <2>3 DEF CallerTimeout
<1>9. CASE ReadoutStep
  <2>0. UNCHANGED <<callerPc, mStatus>>
    BY <1>9 DEF ReadoutStep
  <2>1. CASE ReadoutDequeue
    BY <2>0, <2>1 DEF ReadoutDequeue
  <2>2. CASE ReadoutResume
    BY <2>0, <2>2 DEF ReadoutResume
  <2>3. CASE ReadoutWaitForFrame
    BY <2>0, <2>3 DEF ReadoutWaitForFrame
  <2>4. CASE ReadoutNoFrame
    BY <2>0, <2>4 DEF ReadoutNoFrame
  <2>5. CASE ReadoutGotFrame
    BY <2>0, <2>5 DEF ReadoutGotFrame
  <2>6. CASE ReadoutProcessPlain
    BY <2>0, <2>6 DEF ReadoutProcessPlain
  <2>7. CASE ReadoutJpegRefused
    BY <2>0, <2>7 DEF ReadoutJpegRefused
  <2>8. CASE ReadoutJpegStarted
    BY <2>0, <2>8 DEF ReadoutJpegStarted
  <2>9. CASE ReadoutCheckIdle
    BY <2>0, <2>9 DEF ReadoutCheckIdle
  <2>10. CASE ReadoutSend
    BY <2>0, <2>10 DEF ReadoutSend
  <2>11. CASE ReadoutThreadExit
    BY <2>0, <2>11 DEF ReadoutThreadExit
  <2> QED BY <1>9, <2>1, <2>2, <2>3, <2>4, <2>5, <2>6, <2>7, <2>8, <2>9, <2>10, <2>11
          DEF ReadoutStep
<1>10. CASE SignalReadoutIdle
  BY <1>0, <1>10 DEF SignalReadoutIdle, MLockHeld, IsIdle, CallerPcs
<1>11. CASE SensorThread \/ JpegThread \/ UNCHANGED vars
  BY <1>11, IdleFrame DEF SensorThread, JpegThread, OnJpegDone, JpegThreadStep, idleVars
<1> QED BY <1>1, <1>2, <1>3, <1>4, <1>5, <1>6, <1>7, <1>8, <1>9, <1>10, <1>11 DEF Next

\* READY is never reached with work in flight: the second look under mLock, in
\* signalReadoutIdle, is enough.
THEOREM IdleCorrect == Spec => []ReadyMeansIdle
<1>1. Init => IdleInv
  BY DEF Init, ReadoutInit, IdleInv, InCall
<1>2. IdleInv => ReadyMeansIdle
  BY DEF IdleInv, ReadyMeansIdle
<1> QED BY <1>1, <1>2, VarsTyped, IdleInductive, PTL DEF Spec

-----------------------------------------------------------------------------
(* Frames and requests.                                                    *)

\* Taking the head off a sequence moves every other element down by one.
LEMMA TailShifts ==
    ASSUME NEW S, NEW q \in Seq(S), q # <<>>
    PROVE  /\ Len(q) \in Nat \ {0}
           /\ Head(q) = q[1]
           /\ Len(Tail(q)) = Len(q) - 1
           /\ \A i \in 1..Len(Tail(q)) : Tail(q)[i] = q[i + 1]
OBVIOUS

\* Appending leaves the elements that are there in their places.
LEMMA AppendExtends ==
    ASSUME NEW S, NEW q \in Seq(S), NEW e \in S
    PROVE  /\ Len(q) \in Nat
           /\ Len(Append(q, e)) = Len(q) + 1
           /\ \A i \in 1..Len(q) : Append(q, e)[i] = q[i]
           /\ Append(q, e)[Len(q) + 1] = e
OBVIOUS

\* The types PipeInv relies on.
PipeTypes ==
    /\ mCapturedBuffers \in Nat /\ takenBuffers \in Nat /\ mNextCapturedBuffers \in Nat
    /\ mNextBuffers \in Nat /\ latched.buffers \in Nat /\ nextFrame \in Nat \ {0}
    /\ sensorPc \in SensorPcs /\ readoutPc \in ReadoutPcs /\ callerPc \in CallerPcs

LEMMA PipeTyped == VarTypes => PipeTypes
BY DEF VarTypes, SensorTypeOK, ReadoutTypeOK, PipeTypes

\* The variables of SensorPipe, those of RequestPipe, and the rest.
sensorPipeVars  == <<mCapturedBuffers, takenBuffers, mNextCapturedBuffers, latched, sensorPc,
                     mNextBuffers, nextFrame>>
requestPipeVars == <<takenBuffers, readoutPc, mCurrentRequest, mInFlightQueue, nextFrame>>

\* The caller's place matters to the sensor only as far as it has set the buffers.
HasSet == callerPc \in {"frameNumber", "queue"}

LEMMA SensorPipeFrame == SensorPipe /\ UNCHANGED <<sensorPipeVars, HasSet>> => SensorPipe'
BY DEF SensorPipe, sensorPipeVars, HasSet, LastSet, LastLatched, LastCaptured, LastRead,
       LatchedFrame, CapturedFrame

LEMMA RequestPipeFrame == RequestPipe /\ UNCHANGED requestPipeVars => RequestPipe'
BY DEF RequestPipe, requestPipeVars, AwaitsFrame, LastTakenUp, Processing

\* The sensor moves its frames along and changes none.
LEMMA SensorMoves == PipeTypes /\ SensorPipe /\ SensorThread => SensorPipe'
<1> SUFFICES ASSUME PipeTypes, SensorPipe, SensorThread PROVE SensorPipe'
  OBVIOUS
<1> USE DEF PipeTypes, SensorPcs, SensorPipe, LastSet, LastLatched, LastCaptured, LastRead,
            LatchedFrame, CapturedFrame, controlVars
<1>0. UNCHANGED <<takenBuffers, callerPc, nextFrame>>
  BY DEF SensorThread, readoutVars, threadVars, cameraVars
<1>1. CASE SensorLatch
  BY <1>0, <1>1 DEF SensorLatch, NextBuffersAfterLatch
<1>2. CASE SensorReadout
  BY <1>0, <1>2 DEF SensorReadout, Deliver, ReadoutBusy
<1>3. CASE SensorReadoutBlock
  BY <1>0, <1>3 DEF SensorReadoutBlock
<1>4. CASE SensorReadoutWoken
  BY <1>0, <1>4 DEF SensorReadoutWoken, Deliver
<1>5. CASE SensorCapture
  BY <1>0, <1>5 DEF SensorCapture
<1>6. CASE SensorExit
  BY <1>0, <1>6 DEF SensorExit
<1> QED BY <1>1, <1>2, <1>3, <1>4, <1>5, <1>6 DEF SensorThread, SensorStep

\* The frame the readout thread takes is the next one, for its current request.
LEMMA FrameTaken ==
    PipeTypes /\ SensorPipe /\ RequestPipe /\ ReadoutGotFrame /\ UNCHANGED cameraVars
        => SensorPipe' /\ RequestPipe'
<1> SUFFICES ASSUME PipeTypes, SensorPipe, RequestPipe, ReadoutGotFrame, UNCHANGED cameraVars
             PROVE  SensorPipe' /\ RequestPipe'
  OBVIOUS
<1>1. /\ mCapturedBuffers # NoBuffers /\ mCapturedBuffers' = NoBuffers
      /\ takenBuffers' = mCapturedBuffers
      /\ UNCHANGED <<mNextCapturedBuffers, latched, mNextBuffers, callerPc, nextFrame,
                     mCurrentRequest, mInFlightQueue>>
      /\ sensorPc' = sensorPc \/ (sensorPc = "readoutWait" /\ sensorPc' = "readoutWoken")
      /\ readoutPc = "frame" /\ readoutPc' = "process"
  <2> USE DEF ReadoutGotFrame, Moves, controlVars, queueVars, cameraVars
  <2>1. CASE NewFrameAtOnce
    BY <2>1 DEF NewFrameAtOnce, SignalReadoutComplete
  <2>2. CASE NewFrameWoken
    BY <2>2 DEF NewFrameWoken
  <2> QED BY <2>1, <2>2
<1>2. takenBuffers' = takenBuffers + 1
  BY <1>1 DEF SensorPipe, LastRead
<1>3. SensorPipe'
  BY <1>1, <1>2 DEF PipeTypes, SensorPipe, LastSet, LastLatched, LastCaptured, LastRead,
                    LatchedFrame, CapturedFrame
<1>4. RequestPipe'
  BY <1>1, <1>2 DEF PipeTypes, RequestPipe, AwaitsFrame, Processing, LastTakenUp
<1> QED BY <1>3, <1>4

\* The request taken off the queue is the one whose frame comes next.
LEMMA RequestTaken == VarTypes /\ RequestPipe /\ ReadoutDequeue /\ UNCHANGED nextFrame => RequestPipe'
<1> SUFFICES ASSUME VarTypes, RequestPipe, ReadoutDequeue, UNCHANGED nextFrame PROVE RequestPipe'
  OBVIOUS
<1>1. mInFlightQueue \in Seq(Requests) /\ takenBuffers \in Nat /\ nextFrame \in Nat
  BY DEF VarTypes, ReadoutTypeOK
<1>2. /\ readoutPc = "loop" /\ readoutPc' = "frame"
      /\ mInFlightQueue # <<>> /\ mInFlightQueue' = Tail(mInFlightQueue)
      /\ mCurrentRequest = NoRequest /\ mCurrentRequest' = Head(mInFlightQueue)
      /\ takenBuffers' = takenBuffers
  BY DEF ReadoutDequeue, Moves
<1> HIDE DEF Requests
<1>3. /\ Len(mInFlightQueue) \in Nat \ {0}
      /\ Head(mInFlightQueue) = mInFlightQueue[1]
      /\ Len(mInFlightQueue') = Len(mInFlightQueue) - 1
      /\ \A i \in 1..Len(mInFlightQueue') : mInFlightQueue'[i] = mInFlightQueue[i + 1]
  BY <1>1, <1>2, TailShifts
<1>4. LastTakenUp = takenBuffers
  BY <1>2 DEF LastTakenUp, AwaitsFrame
<1>5. mCurrentRequest'.frameNumber = takenBuffers + 1
  BY <1>1, <1>2, <1>3, <1>4 DEF RequestPipe
<1>6. mCurrentRequest' # NoRequest
  BY <1>1, <1>5 DEF NoRequest
<1>7. LastTakenUp' = takenBuffers + 1
  BY <1>2, <1>6 DEF LastTakenUp, AwaitsFrame
<1>8. \A i \in 1..Len(mInFlightQueue') : mInFlightQueue'[i].frameNumber = LastTakenUp' + i
  <2> TAKE i \in 1..Len(mInFlightQueue')
  <2>1. i \in Nat /\ i + 1 \in 1..Len(mInFlightQueue)
    BY <1>3
  <2>2. mInFlightQueue'[i] = mInFlightQueue[i + 1]
    BY <1>3
  <2>3. mInFlightQueue[i + 1].frameNumber = LastTakenUp + (i + 1)
    BY <2>1 DEF RequestPipe
  <2> QED BY <1>1, <1>4, <1>7, <2>1, <2>2, <2>3
<1>9. nextFrame' = LastTakenUp' + Len(mInFlightQueue') + 1
  BY <1>1, <1>3, <1>4, <1>7 DEF RequestPipe
<1> QED BY <1>2, <1>5, <1>6, <1>8, <1>9 DEF RequestPipe, AwaitsFrame, Processing

\* A request is queued behind the one numbered just before it.
LEMMA RequestQueued ==
    VarTypes /\ RequestPipe /\ QueueRequest /\ request.frameNumber = nextFrame => RequestPipe'
<1> SUFFICES ASSUME VarTypes, RequestPipe, QueueRequest, request.frameNumber = nextFrame
             PROVE  RequestPipe'
  OBVIOUS
<1>1. /\ mInFlightQueue \in Seq(Requests) /\ request \in Requests
      /\ takenBuffers \in Nat /\ nextFrame \in Nat
  BY DEF VarTypes, ReadoutTypeOK
<1>2. /\ mInFlightQueue' = Append(mInFlightQueue, request) /\ nextFrame' = nextFrame + 1
      /\ UNCHANGED <<takenBuffers, readoutPc, mCurrentRequest>>
  BY DEF QueueRequest, QueueCaptureRequest, threadVars
<1>3. /\ Len(mInFlightQueue) \in Nat
      /\ Len(mInFlightQueue') = Len(mInFlightQueue) + 1
      /\ \A i \in 1..Len(mInFlightQueue) : mInFlightQueue'[i] = mInFlightQueue[i]
      /\ mInFlightQueue'[Len(mInFlightQueue) + 1] = request
  BY <1>1, <1>2, AppendExtends
<1>4. LastTakenUp' = LastTakenUp /\ LastTakenUp \in Nat
  BY <1>1, <1>2 DEF LastTakenUp, AwaitsFrame
<1>5. \A i \in 1..Len(mInFlightQueue') : mInFlightQueue'[i].frameNumber = LastTakenUp' + i
  <2> TAKE i \in 1..Len(mInFlightQueue')
  <2>1. CASE i \in 1..Len(mInFlightQueue)
    <3>1. mInFlightQueue[i].frameNumber = LastTakenUp + i
      BY <2>1 DEF RequestPipe
    <3> QED BY <1>3, <1>4, <2>1, <3>1
  <2>2. CASE i = Len(mInFlightQueue) + 1
    <3>1. nextFrame = LastTakenUp + i
      BY <1>3, <1>4, <2>2 DEF RequestPipe
    <3> QED BY <1>3, <1>4, <2>2, <3>1
  <2>3. i \in 1..Len(mInFlightQueue) \/ i = Len(mInFlightQueue) + 1
    BY <1>3
  <2> QED BY <2>1, <2>2, <2>3
<1>6. nextFrame' = LastTakenUp' + Len(mInFlightQueue') + 1
  BY <1>1, <1>2, <1>3, <1>4 DEF RequestPipe
<1> QED BY <1>2, <1>5, <1>6 DEF RequestPipe, AwaitsFrame, Processing

\* The other steps of the readout thread.
LEMMA RequestMoves ==
    ASSUME VarTypes, RequestPipe, ReadoutStep, ~ReadoutDequeue, ~ReadoutGotFrame
    PROVE  RequestPipe'
<1> USE DEF Moves, queueVars, threadVars, readoutVars
<1>0. UNCHANGED nextFrame /\ takenBuffers \in Nat
  BY DEF ReadoutStep, cameraVars, VarTypes, ReadoutTypeOK
<1>1. CASE ReadoutResume
  BY <1>0, <1>1 DEF ReadoutResume, RequestPipe, AwaitsFrame, Processing, LastTakenUp
<1>2. CASE ReadoutWaitForFrame
  BY <1>0, <1>2, RequestPipeFrame DEF ReadoutWaitForFrame, requestPipeVars
<1>3. CASE ReadoutNoFrame
  BY <1>0, <1>3 DEF ReadoutNoFrame, RequestPipe, AwaitsFrame, Processing, LastTakenUp
<1>4. CASE ReadoutProcessPlain
  BY <1>0, <1>4 DEF ReadoutProcessPlain, RequestPipe, AwaitsFrame, Processing, LastTakenUp
<1>5. CASE ReadoutJpegRefused
  BY <1>0, <1>5 DEF ReadoutJpegRefused, RequestPipe, AwaitsFrame, Processing, LastTakenUp
<1>6. CASE ReadoutJpegStarted
  BY <1>0, <1>6 DEF ReadoutJpegStarted, RequestPipe, AwaitsFrame, Processing, LastTakenUp
<1>7. CASE ReadoutCheckIdle
  BY <1>0, <1>7 DEF ReadoutCheckIdle, RequestPipe, AwaitsFrame, Processing, LastTakenUp
<1>8. CASE ReadoutSend
  BY <1>0, <1>8 DEF ReadoutSend, RequestPipe, AwaitsFrame, Processing, LastTakenUp
<1>9. CASE ReadoutThreadExit
  BY <1>0, <1>9 DEF ReadoutThreadExit, RequestPipe, AwaitsFrame, Processing, LastTakenUp
<1> QED BY <1>1, <1>2, <1>3, <1>4, <1>5, <1>6, <1>7, <1>8, <1>9 DEF ReadoutStep

LEMMA PipeInductive == VarTypes /\ ExposureInv /\ PipeInv /\ [Next]_vars => PipeInv'
<1> SUFFICES ASSUME VarTypes, ExposureInv, PipeInv, [Next]_vars PROVE PipeInv'
  OBVIOUS
<1>0. PipeTypes
  BY PipeTyped
<1> USE DEF vars, sensorVars, controlVars, readoutVars, queueVars, threadVars, cameraVars,
            Calls, OnlyCaller, InCall
<1> DEFINE Rest == /\ callerPc \in InCall => request.frameNumber = nextFrame
                   /\ callerPc \in InCall \cup {"closing", "joining"} => mStatus # "CLOSED"
                   /\ callerPc = "joining" => sensorPc = "off"
                   /\ mStatus = "CLOSED" => readoutPc = "off" /\ sensorPc = "off"
<1>1. Rest /\ (mStatus # "CLOSED" => SensorPipe /\ RequestPipe)
  BY DEF PipeInv
<1>2. SUFFICES Rest' /\ (mStatus' # "CLOSED" => SensorPipe' /\ RequestPipe')
  BY DEF PipeInv
<1>3. ASSUME Rest', UNCHANGED <<sensorPipeVars, HasSet, requestPipeVars>>,
             mStatus = "CLOSED" => mStatus' = "CLOSED"
      PROVE  Rest' /\ (mStatus' # "CLOSED" => SensorPipe' /\ RequestPipe')
  BY <1>1, <1>3, SensorPipeFrame, RequestPipeFrame
<1> HIDE DEF Rest
<1>4. CASE ConnectCamera
  <2>1. /\ mCapturedBuffers' = NoBuffers /\ mNextCapturedBuffers' = NoBuffers
        /\ mNextBuffers' = NoBuffers /\ latched' = NoLatch /\ sensorPc' = "latch"
        /\ readoutPc' = "loop" /\ mCurrentRequest' = NoRequest /\ mInFlightQueue' = <<>>
        /\ takenBuffers' = nextFrame - 1 /\ nextFrame' = nextFrame
        /\ callerPc = "idle" /\ callerPc' = "idle" /\ mStatus' = "OPEN"
    BY <1>4 DEF ConnectCamera, SensorStartUp, ReadoutStart
  <2>2. Rest'
    BY <2>1 DEF Rest
  <2>3. SensorPipe'
    BY <1>0, <2>1 DEF PipeTypes, SensorPipe, LastSet, LastLatched, LastCaptured, LastRead,
                      LatchedFrame, CapturedFrame
  <2>4. RequestPipe'
    BY <1>0, <2>1 DEF PipeTypes, RequestPipe, AwaitsFrame, Processing, LastTakenUp
  <2> QED BY <2>2, <2>3, <2>4
<1>5. CASE InitializeDevice
  BY <1>1, <1>3, <1>5 DEF InitializeDevice, Rest, sensorPipeVars, requestPipeVars, HasSet
<1>6. CASE ConfigureStreams
  BY <1>1, <1>3, <1>6 DEF ConfigureStreams, Rest, sensorPipeVars, requestPipeVars, HasSet
<1>7. CASE ProcessCaptureRequest
  <2>1. /\ callerPc = "idle" /\ callerPc' \in {"jpegWait", "readoutWait"}
        /\ mStatus # "CLOSED" /\ mStatus' = "ACTIVE"
        /\ request'.frameNumber = nextFrame
        /\ UNCHANGED <<sensorPipeVars, requestPipeVars>>
    BY <1>7 DEF ProcessCaptureRequest, StartRequest, sensorPipeVars, requestPipeVars
  <2> QED BY <1>1, <1>3, <2>1 DEF Rest, HasSet, sensorPipeVars
<1>8. CASE RejectRequest
  BY <1>1, <1>3, <1>8 DEF RejectRequest, StartRequest, Rest, sensorPipeVars, requestPipeVars, HasSet
<1>9. CASE CloseCamera
  BY <1>1, <1>3, <1>9 DEF CloseCamera, SensorRequestExit, Rest, sensorPipeVars,
                          requestPipeVars, HasSet
<1>10. CASE CallerStep
  <2>1. CASE AwaitJpeg
    BY <1>1, <1>3, <2>1 DEF AwaitJpeg, Rest, sensorPipeVars, requestPipeVars, HasSet
  <2>2. CASE AwaitReadout
    BY <1>1, <1>3, <2>2 DEF AwaitReadout, Rest, sensorPipeVars, requestPipeVars, HasSet
  <2>3. CASE AwaitVSync
    BY <1>1, <1>3, <2>3 DEF AwaitVSync, BeginVSyncWait, SetControl, Rest, sensorPipeVars,
                            requestPipeVars, HasSet
  <2>4. CASE GotVSync
    BY <1>1, <1>3, <2>4 DEF GotVSync, Rest, sensorPipeVars, requestPipeVars, HasSet
  <2>5. CASE ConfigureSensor
    <3>0. UNCHANGED <<mStatus, nextFrame, request, requestPipeVars>>
      BY <2>5 DEF ConfigureSensor, requestPipeVars
    <3>1. CASE Calls("exposure", "buffers") /\ SetExposure(request.frameNumber)
      BY <1>1, <1>3, <3>0, <3>1 DEF SetExposure, SetControl, Rest, sensorPipeVars,
                                    requestPipeVars, HasSet
    <3>2. CASE Calls("buffers", "frameNumber") /\ SetDestinationBuffers(request.frameNumber)
      <4>1. /\ mNextBuffers = NoBuffers /\ mNextBuffers' = nextFrame
            /\ callerPc = "buffers" /\ callerPc' = "frameNumber"
            /\ UNCHANGED <<mCapturedBuffers, mNextCapturedBuffers, latched, sensorPc, readoutPc>>
        BY <1>1, <3>0, <3>2 DEF SetDestinationBuffers, SetControl, Rest, ExposureInv,
                                requestPipeVars
      <4>2. Rest'
        BY <1>1, <3>0, <4>1 DEF Rest
      <4>3. mStatus # "CLOSED" => SensorPipe'
        BY <1>0, <1>1, <3>0, <4>1 DEF PipeTypes, SensorPipe, LastSet, LastLatched, LastCaptured,
                             LastRead, LatchedFrame, CapturedFrame, requestPipeVars
      <4> QED BY <1>1, <3>0, <4>2, <4>3, RequestPipeFrame
    <3>3. CASE Calls("frameNumber", "queue") /\ SetFrameNumber(request.frameNumber)
      BY <1>1, <1>3, <3>0, <3>3 DEF SetFrameNumber, SetControl, Rest, sensorPipeVars,
                                    requestPipeVars, HasSet
    <3> QED BY <2>5, <3>1, <3>2, <3>3 DEF ConfigureSensor
  <2>6. CASE QueueRequest
    <3>1. /\ callerPc = "queue" /\ callerPc' = "idle" /\ nextFrame' = nextFrame + 1
          /\ UNCHANGED <<mStatus, mCapturedBuffers, mNextCapturedBuffers, latched, sensorPc,
                         mNextBuffers, takenBuffers, readoutPc>>
      BY <2>6 DEF QueueRequest, QueueCaptureRequest
    <3>2. Rest' /\ mStatus # "CLOSED" /\ request.frameNumber = nextFrame
      BY <1>1, <3>1 DEF Rest
    <3>3. SensorPipe'
      BY <1>0, <1>1, <3>1, <3>2 DEF PipeTypes, SensorPipe, LastSet, LastLatched, LastCaptured,
                           LastRead, LatchedFrame, CapturedFrame
    <3> QED BY <1>1, <2>6, <3>2, <3>3, RequestQueued
  <2>7. CASE CloseSensorDown
    BY <1>1, <1>3, <2>7 DEF CloseSensorDown, ReadoutRequestExit, Rest, sensorPipeVars,
                            requestPipeVars, HasSet
  <2>8. CASE CloseJoined
    <3>1. /\ callerPc = "joining" /\ callerPc' = "idle" /\ mStatus' = "CLOSED"
          /\ readoutPc = "off" /\ UNCHANGED <<readoutPc, sensorPc>>
      BY <2>8 DEF CloseJoined, ReadoutDestroy
    <3> QED BY <1>1, <3>1 DEF Rest
  <2> QED BY <1>10, <2>1, <2>2, <2>3, <2>4, <2>5, <2>6, <2>7, <2>8 DEF CallerStep
<1>11. CASE CallerTimeout
  <2> USE <1>1, <1>3 DEF Rest, sensorPipeVars, requestPipeVars, HasSet
  <2>1. CASE AwaitJpegTimeout
    BY <2>1 DEF AwaitJpegTimeout, GiveUp
  <2>2. CASE AwaitReadoutTimeout
    BY <2>2 DEF AwaitReadoutTimeout, GiveUp
  <2>3. CASE VSyncTimeout
    BY <2>3 DEF VSyncTimeout, GiveUp
  <2> QED BY <1>11, <2>1, <2>2, <2>3 DEF CallerTimeout
<1>12. CASE SensorThread
  <2>1. UNCHANGED <<requestPipeVars, callerPc, request, mStatus, readoutPc, nextFrame>>
    BY <1>12 DEF SensorThread, requestPipeVars
  <2>2. sensorPc = "off" => ~SensorThread
    BY DEF SensorThread, SensorStep, SensorLatch, SensorReadout, SensorReadoutBlock,
           SensorReadoutWoken, SensorCapture, SensorExit
  <2>3. Rest'
    BY <1>1, <1>12, <2>1, <2>2 DEF Rest
  <2> QED BY <1>0, <1>1, <1>12, <2>1, <2>3, SensorMoves, RequestPipeFrame
<1>13. CASE ReadoutStep
  <2>1. UNCHANGED cameraVars /\ readoutPc # "off"
    BY <1>13 DEF ReadoutStep, ReadoutDequeue, ReadoutResume, ReadoutWaitForFrame,
                 ReadoutNoFrame, ReadoutGotFrame, ReadoutProcessPlain, ReadoutJpegRefused,
                 ReadoutJpegStarted, ReadoutCheckIdle, ReadoutSend, ReadoutThreadExit, Moves
  <2>2. SensorPipe /\ RequestPipe /\ mStatus # "CLOSED"
    BY <1>1, <2>1 DEF Rest
  <2>3. sensorPc = "off" => sensorPc' = "off"
    BY <1>13 DEF ReadoutStep, ReadoutDequeue, ReadoutResume, ReadoutWaitForFrame,
                 ReadoutNoFrame, ReadoutGotFrame, ReadoutProcessPlain, ReadoutJpegRefused,
                 ReadoutJpegStarted, ReadoutCheckIdle, ReadoutSend, ReadoutThreadExit,
                 NewFrameAtOnce, NewFrameWoken, NewFrameBlock, NewFrameTimeout,
                 SignalReadoutComplete
  <2>4. Rest'
    BY <1>1, <2>1, <2>2, <2>3 DEF Rest
  <2>5. CASE ReadoutGotFrame
    BY <1>0, <2>1, <2>2, <2>4, <2>5, FrameTaken
  <2>6. CASE ~ReadoutGotFrame
    <3>1. UNCHANGED <<sensorPipeVars, HasSet>>
      BY <1>13, <2>1, <2>6 DEF ReadoutStep, ReadoutDequeue, ReadoutResume, ReadoutWaitForFrame,
                 ReadoutNoFrame, ReadoutProcessPlain, ReadoutJpegRefused, ReadoutJpegStarted,
                 ReadoutCheckIdle, ReadoutSend, ReadoutThreadExit, NewFrameBlock,
                 NewFrameTimeout, sensorPipeVars, HasSet
    <3>2. SensorPipe'
      BY <2>2, <3>1, SensorPipeFrame
    <3>3. RequestPipe'
      BY <1>13, <2>1, <2>2, <2>6, RequestTaken, RequestMoves
    <3> QED BY <2>4, <3>2, <3>3
  <2> QED BY <2>5, <2>6
<1>14. CASE SignalReadoutIdle
  <2>1. /\ UNCHANGED <<sensorPipeVars, HasSet, callerPc, request, nextFrame, sensorPc,
                       takenBuffers, mCurrentRequest, mInFlightQueue>>
        /\ readoutPc = "signalIdle" /\ readoutPc' = "send"
        /\ mStatus' = mStatus \/ (mStatus = "ACTIVE" /\ mStatus' = "READY")
    BY <1>14 DEF SignalReadoutIdle, Moves, sensorPipeVars, HasSet
  <2>2. Rest'
    BY <1>1, <2>1 DEF Rest
  <2>3. mStatus # "CLOSED" => SensorPipe'
    BY <1>1, <2>1, SensorPipeFrame
  <2>4. mStatus # "CLOSED" => RequestPipe'
    BY <1>1, <2>1 DEF RequestPipe, AwaitsFrame, Processing, LastTakenUp
  <2> QED BY <2>1, <2>2, <2>3, <2>4
<1>15. CASE JpegThread
  BY <1>1, <1>3, <1>15 DEF JpegThread, OnJpegDone, JpegThreadStep, Rest, sensorPipeVars,
                           requestPipeVars, HasSet
<1>16. CASE UNCHANGED vars
  BY <1>1, <1>3, <1>16 DEF Rest, sensorPipeVars, requestPipeVars, HasSet
<1> QED BY <1>4, <1>5, <1>6, <1>7, <1>8, <1>9, <1>10, <1>11, <1>12, <1>13, <1>14, <1>15, <1>16
        DEF Next

\* Each result is sent with the frame that was captured for it, however the
\* sensor, the readout thread and the caller interleave.
THEOREM FramesCorrect == Spec => []FramesMatchRequests
<1>1. Init => ExposureInv
  BY DEF Init, SensorInit, NoLatch, ExposureInv, OwnExposure, LatchedFrame
<1>2. Init => PipeInv
  BY DEF Init, SensorInit, ReadoutInit, PipeInv, InCall
<1>3. PipeInv => FramesMatchRequests
  BY DEF PipeInv, RequestPipe, Processing, FramesMatchRequests
<1> QED BY <1>1, <1>2, <1>3, VarsTyped, ExposureInductive, PipeInductive, PTL DEF Spec

-----------------------------------------------------------------------------
(* JPEG buffers.                                                           *)

\* The readout thread has the buffers of the frame it has taken: it has not given them to
\* the compressor.
OwnsBuffers == Processing /\ (readoutPc = "process" \/ jpegOutcome # "taken")

JpegInv ==
    /\ takenBuffers < nextFrame
    /\ \A n \in jpegReturned : n <= takenBuffers
    /\ jpegPc = "compress" =>
         /\ mIsBusy /\ mJpegFrameNumber = mBuffers
         /\ mBuffers <= takenBuffers /\ mBuffers \notin jpegReturned
    /\ OwnsBuffers =>
         /\ takenBuffers \notin jpegReturned
         /\ jpegPc = "compress" => mBuffers # takenBuffers

\* The variables of JpegInv, and their types.
jpegInvVars == <<takenBuffers, nextFrame, jpegReturned, jpegPc, mIsBusy, mJpegFrameNumber,
                 mBuffers, readoutPc, jpegOutcome>>

JpegTypes ==
    /\ takenBuffers \in Nat /\ nextFrame \in Nat \ {0} /\ mBuffers \in Nat
    /\ \A n \in jpegReturned : n \in Nat
    /\ \A n \in freed : n \in Nat
    /\ mCurrentRequest.frameNumber \in Nat
    /\ callerPc \in CallerPcs /\ readoutPc \in ReadoutPcs

LEMMA JpegTyped == VarTypes => JpegTypes
BY DEF VarTypes, JpegTypeOK, ReadoutTypeOK, JpegTypes, Requests

LEMMA JpegFrame == JpegInv /\ UNCHANGED jpegInvVars => JpegInv'
BY DEF JpegInv, jpegInvVars, OwnsBuffers, Processing

\* Where the readout thread processes a frame, the frame is that of its current request.
LEMMA CurrentTaken == PipeInv /\ Processing => mCurrentRequest.frameNumber = takenBuffers
BY DEF PipeInv, RequestPipe, Processing

\* The frame taken is the one after the last.
LEMMA TakenNext ==
    PipeInv /\ ReadoutGotFrame =>
      /\ readoutPc = "frame" /\ readoutPc' = "process"
      /\ takenBuffers' = takenBuffers + 1
      /\ mStatus # "CLOSED" /\ RequestPipe
BY DEF PipeInv, ReadoutGotFrame, Moves, NewFrameAtOnce, NewFrameWoken, SensorPipe, LastRead

\* A request numbered past the frame taken is under way while one is.
LEMMA TakenBelow ==
    ASSUME VarTypes, RequestPipe
    PROVE  takenBuffers < nextFrame /\ (readoutPc = "frame" => takenBuffers + 1 < nextFrame)
<1>1. takenBuffers \in Nat /\ nextFrame \in Nat /\ Len(mInFlightQueue) \in Nat
  BY DEF VarTypes, ReadoutTypeOK
<1>2. nextFrame = LastTakenUp + Len(mInFlightQueue) + 1
  BY DEF RequestPipe
<1>3. LastTakenUp \in {takenBuffers, takenBuffers + 1}
      /\ (readoutPc = "frame" => LastTakenUp = takenBuffers + 1)
  BY DEF LastTakenUp, AwaitsFrame, RequestPipe
<1> QED BY <1>1, <1>2, <1>3

LEMMA JpegInductive == VarTypes /\ PipeInv /\ JpegInv /\ [Next]_vars => JpegInv'
<1> SUFFICES ASSUME VarTypes, PipeInv, JpegInv, [Next]_vars PROVE JpegInv'
  OBVIOUS
<1>0. JpegTypes
  BY JpegTyped
<1> USE DEF vars, sensorVars, jpegVars, readoutVars, queueVars, listenerVars, threadVars,
            receivedVars, cameraVars, Calls, OnlyCaller, Moves
<1>1. CASE ConnectCamera
  <2>1. /\ takenBuffers' = nextFrame - 1 /\ nextFrame' = nextFrame
        /\ UNCHANGED jpegReturned /\ jpegPc' = "off" /\ readoutPc' = "loop"
    BY <1>1 DEF ConnectCamera, ReadoutStart, JpegCreate
  <2> QED BY <1>0, <2>1 DEF JpegTypes, JpegInv, OwnsBuffers, Processing
<1>2. CASE InitializeDevice \/ ConfigureStreams \/ ProcessCaptureRequest \/ RejectRequest
           \/ CloseCamera
  <2>1. UNCHANGED jpegInvVars
    BY <1>2 DEF InitializeDevice, ConfigureStreams, ProcessCaptureRequest, RejectRequest,
                StartRequest, CloseCamera, jpegInvVars
  <2> QED BY <2>1, JpegFrame
<1>3. CASE CallerStep /\ ~QueueRequest
  <2>1. CASE AwaitJpeg
    <3>1. UNCHANGED jpegInvVars
      BY <2>1 DEF AwaitJpeg, WaitForDoneAtOnce, WaitForDoneBlock, WaitForDoneEnds, jpegInvVars
    <3> QED BY <3>1, JpegFrame
  <2>2. CASE AwaitReadout \/ AwaitVSync \/ GotVSync \/ ConfigureSensor
    <3>1. UNCHANGED jpegInvVars
      BY <2>2 DEF AwaitReadout, AwaitVSync, GotVSync, ConfigureSensor, jpegInvVars
    <3> QED BY <3>1, JpegFrame
  <2>3. CASE CloseSensorDown \/ CloseJoined
    <3>1. UNCHANGED jpegInvVars
      BY <2>3 DEF CloseSensorDown, ReadoutRequestExit, CloseJoined, ReadoutDestroy, jpegInvVars
    <3> QED BY <3>1, JpegFrame
  <2> QED BY <1>3, <2>1, <2>2, <2>3 DEF CallerStep
<1>4. CASE QueueRequest
  <2>1. nextFrame' = nextFrame + 1 /\ UNCHANGED <<takenBuffers, jpegReturned, jpegVars,
                                                 mJpegFrameNumber, readoutPc, jpegOutcome>>
    BY <1>4 DEF QueueRequest, QueueCaptureRequest
  <2> QED BY <1>0, <2>1 DEF JpegTypes, JpegInv, OwnsBuffers, Processing
<1>5. CASE CallerTimeout
  <2>1. UNCHANGED jpegInvVars
    BY <1>5 DEF CallerTimeout, AwaitJpegTimeout, AwaitReadoutTimeout, VSyncTimeout, GiveUp,
                WaitForDoneEnds, jpegInvVars
  <2> QED BY <2>1, JpegFrame
<1>6. CASE SensorThread \/ UNCHANGED vars
  <2>1. UNCHANGED jpegInvVars
    BY <1>6 DEF SensorThread, jpegInvVars
  <2> QED BY <2>1, JpegFrame
<1>7. CASE ReadoutStep
  <2>0. UNCHANGED nextFrame
    BY <1>7 DEF ReadoutStep
  <2>1. CASE ReadoutDequeue \/ ReadoutResume \/ ReadoutNoFrame \/ ReadoutThreadExit
    BY <2>0, <2>1 DEF ReadoutDequeue, ReadoutResume, ReadoutNoFrame, ReadoutThreadExit,
                      JpegInv, OwnsBuffers, Processing
  <2>2. CASE ReadoutWaitForFrame
    <3>1. UNCHANGED jpegInvVars
      BY <2>0, <2>2 DEF ReadoutWaitForFrame, jpegInvVars
    <3> QED BY <3>1, JpegFrame
  <2>3. CASE ReadoutGotFrame
    <3>1. /\ takenBuffers' = takenBuffers + 1 /\ readoutPc' = "process"
          /\ takenBuffers + 1 < nextFrame
      BY <2>3, TakenNext, TakenBelow
    <3>2. UNCHANGED <<jpegReturned, jpegVars, mJpegFrameNumber>>
      BY <2>3 DEF ReadoutGotFrame
    <3> QED BY <1>0, <2>0, <3>1, <3>2 DEF JpegTypes, JpegInv
  <2>4. CASE ReadoutProcessPlain
    BY <2>0, <2>4 DEF ReadoutProcessPlain, JpegInv, OwnsBuffers, Processing
  <2>5. CASE ReadoutJpegRefused
    <3>1. /\ readoutPc = "process" /\ jpegPc' = jpegPc
          /\ UNCHANGED <<takenBuffers, jpegReturned, mJpegFrameNumber>>
      BY <2>5 DEF ReadoutJpegRefused, StartRefused, StartFailed
    <3>2. jpegPc = "compress" => UNCHANGED <<mIsBusy, mBuffers>>
      BY <2>5 DEF ReadoutJpegRefused, StartRefused, StartFailed, JpegInv
    <3> QED BY <2>0, <3>1, <3>2 DEF JpegInv, OwnsBuffers, Processing
  <2>6. CASE ReadoutJpegStarted
    <3>1. /\ readoutPc = "process" /\ readoutPc' = "checkIdle" /\ jpegOutcome' = "taken"
          /\ mIsBusy' = TRUE /\ mBuffers' = mCurrentRequest.frameNumber
          /\ mJpegFrameNumber' = mCurrentRequest.frameNumber
          /\ UNCHANGED <<takenBuffers, jpegReturned>>
      <4>1. mIsBusy' = TRUE
        BY Zenon, <2>6 DEF ReadoutJpegStarted, Started
      <4> QED BY <2>6, <4>1 DEF ReadoutJpegStarted, Started
    <3>2. mCurrentRequest.frameNumber = takenBuffers /\ OwnsBuffers
      BY <3>1, CurrentTaken DEF OwnsBuffers, Processing
    <3> QED BY <1>0, <2>0, <3>1, <3>2 DEF JpegTypes, JpegInv, OwnsBuffers
  <2>7. CASE ReadoutCheckIdle
    BY <2>0, <2>7 DEF ReadoutCheckIdle, JpegInv, OwnsBuffers, Processing
  <2>8. CASE ReadoutSend
    <3>0. readoutPc = "send" /\ readoutPc' = "loop"
          /\ UNCHANGED <<takenBuffers, jpegPc, mIsBusy, mBuffers, mJpegFrameNumber>>
      BY <2>8 DEF ReadoutSend
    <3>1. \/ jpegReturned' = jpegReturned
          \/ jpegOutcome = "error" /\ jpegReturned' = jpegReturned \cup {takenBuffers}
      <4>1. mCurrentRequest.frameNumber = takenBuffers
        BY <3>0, CurrentTaken DEF Processing
      <4> QED BY <2>8, <4>1 DEF ReadoutSend
    <3>2. ~OwnsBuffers' /\ jpegPc' = jpegPc
      BY <3>0 DEF OwnsBuffers, Processing
    <3>3. OwnsBuffers \/ jpegOutcome = "taken"
      BY <3>0 DEF OwnsBuffers, Processing
    <3>4. \A n \in jpegReturned' : n <= takenBuffers
      BY <1>0, <3>0, <3>1 DEF JpegTypes, JpegInv
    <3>5. jpegPc = "compress" => mBuffers \notin jpegReturned'
      BY <3>1, <3>3 DEF JpegInv
    <3> QED BY <2>0, <3>0, <3>2, <3>4, <3>5 DEF JpegInv
  <2> QED BY <1>7, <2>1, <2>2, <2>3, <2>4, <2>5, <2>6, <2>7, <2>8 DEF ReadoutStep
<1>8. CASE SignalReadoutIdle
  BY <1>8 DEF SignalReadoutIdle, JpegInv, OwnsBuffers, Processing
<1>9. CASE JpegThread
  <2>0. UNCHANGED nextFrame
    BY <1>9 DEF JpegThread
  <2>1. CASE OnJpegDone
    <3>1. /\ jpegPc = "compress" /\ jpegPc' = "cleanUp"
          /\ jpegReturned' = jpegReturned \cup {mBuffers}
          /\ UNCHANGED <<takenBuffers, readoutPc, jpegOutcome>>
      BY <2>1 DEF OnJpegDone, Compress, JpegResultFrame, JpegInv
    <3> QED BY <1>0, <2>0, <3>1 DEF JpegTypes, JpegInv, OwnsBuffers, Processing
  <2>2. CASE JpegThreadStep
    <3>1. /\ jpegPc' \in {"exit", "off"}
          /\ UNCHANGED <<takenBuffers, jpegReturned, readoutPc, jpegOutcome>>
      BY <2>2 DEF JpegThreadStep, JpegCleanUp, JpegThreadExit
    <3> QED BY <2>0, <3>1 DEF JpegInv, OwnsBuffers, Processing
  <2> QED BY <1>9, <2>1, <2>2 DEF JpegThread
<1> QED BY <1>1, <1>2, <1>3, <1>4, <1>5, <1>6, <1>7, <1>8, <1>9 DEF Next, CallerStep

\* The JPEG buffer of a request goes back to the framework once: from the compression thread,
\* or with an error in the result the readout thread sends. mJpegFrameNumber is still that of
\* the frame being compressed when onJpegDone takes it from there.
THEOREM JpegCorrect == Spec => []JpegReturnedOnce
<1>1. Init => JpegInv
  BY DEF Init, JpegInit, ReadoutInit, JpegInv, OwnsBuffers, Processing
<1>2. Init => ExposureInv
  BY DEF Init, SensorInit, NoLatch, ExposureInv, OwnExposure, LatchedFrame
<1>3. Init => PipeInv
  BY DEF Init, SensorInit, ReadoutInit, PipeInv, InCall
<1>4. PipeInv /\ JpegInv => JpegReturnedOnce
  BY CurrentTaken DEF JpegInv, JpegReturnedOnce, OwnsBuffers, Processing
<1> QED BY <1>1, <1>2, <1>3, <1>4, VarsTyped, ExposureInductive, PipeInductive,
           JpegInductive, PTL DEF Spec

-----------------------------------------------------------------------------
(* The camera as a capture service.                                        *)

\* The numbers of the requests queued.
Queued == [i \in 1..Len(mInFlightQueue) |-> mInFlightQueue[i].frameNumber]

LEMMA InFlightTyped ==
    ASSUME VarTypes
    PROVE  /\ Queued \in Seq(Nat) /\ Len(Queued) = Len(mInFlightQueue)
           /\ \A i \in 1..Len(mInFlightQueue) : Queued[i] = mInFlightQueue[i].frameNumber
           /\ CurrentInFlight \in Seq(Nat)
           /\ CurrentInFlight = IF mCurrentRequest = NoRequest
                                THEN <<>> ELSE <<mCurrentRequest.frameNumber>>
           /\ InFlight = CurrentInFlight \o Queued
<1>1. \A i \in 1..Len(mInFlightQueue) : mInFlightQueue[i].frameNumber \in Nat
  BY QueuedRequests
<1>2. Len(mInFlightQueue) \in Nat
  BY DEF VarTypes, ReadoutTypeOK
<1>3. Queued \in Seq(Nat) /\ Len(Queued) = Len(mInFlightQueue)
  BY <1>1, <1>2 DEF Queued
<1>4. mCurrentRequest.frameNumber \in Nat
  BY DEF VarTypes, ReadoutTypeOK, Requests
<1> QED BY <1>3, <1>4 DEF Queued, CurrentInFlight, InFlight

\* The request taken off the queue stays in flight.
LEMMA DequeueKeepsInFlight ==
    ASSUME VarTypes, VarTypes', ReadoutDequeue, mCurrentRequest' # NoRequest
    PROVE  InFlight' = InFlight
<1>1. /\ mInFlightQueue \in Seq(Requests) /\ mInFlightQueue # <<>>
      /\ mInFlightQueue' = Tail(mInFlightQueue)
      /\ mCurrentRequest = NoRequest /\ mCurrentRequest' = Head(mInFlightQueue)
  BY DEF ReadoutDequeue, VarTypes, ReadoutTypeOK
<1>2. /\ Len(mInFlightQueue) \in Nat \ {0} /\ Head(mInFlightQueue) = mInFlightQueue[1]
      /\ Len(Tail(mInFlightQueue)) = Len(mInFlightQueue) - 1
      /\ \A i \in 1..Len(Tail(mInFlightQueue)) :
           Tail(mInFlightQueue)[i] = mInFlightQueue[i + 1]
  <2> HIDE DEF Requests
  <2> QED BY <1>1, TailShifts
<1>3. /\ Queued \in Seq(Nat) /\ Len(Queued) = Len(mInFlightQueue)
      /\ \A i \in 1..Len(mInFlightQueue) : Queued[i] = mInFlightQueue[i].frameNumber
      /\ InFlight = <<>> \o Queued
  BY <1>1, InFlightTyped
<1>4. PICK q : q = Queued'
  OBVIOUS
<1>5. /\ q = [i \in 1..Len(mInFlightQueue') |-> mInFlightQueue'[i].frameNumber]
      /\ InFlight' = <<mCurrentRequest'.frameNumber>> \o q
  BY <1>4 DEF Queued, InFlight, CurrentInFlight
<1>6. /\ q \in Seq(Nat) /\ Len(q) = Len(mInFlightQueue')
  <2>1. \A i \in 1..Len(mInFlightQueue') : mInFlightQueue'[i].frameNumber \in Nat
    <3>1. mInFlightQueue' \in Seq(Requests)
      BY DEF VarTypes, ReadoutTypeOK
    <3>2. \A r \in Requests : r.frameNumber \in Nat
      BY DEF Requests
    <3>3. \A i \in 1..Len(mInFlightQueue') : mInFlightQueue'[i] \in Requests
      BY <3>1
    <3> QED BY <3>2, <3>3
  <2>2. Len(mInFlightQueue') \in Nat
    BY <1>1, <1>2
  <2> QED BY <1>5, <2>1, <2>2
<1>7. Queued # <<>> /\ Head(Queued) = mCurrentRequest'.frameNumber
  <2>1. Len(Queued) # 0
    BY <1>2, <1>3
  <2>2. Queued # <<>> /\ Head(Queued) = Queued[1]
    BY <1>3, <2>1, EmptySeq
  <2> QED BY <1>1, <1>2, <1>3, <2>2
<1>8. /\ Tail(Queued) \in Seq(Nat) /\ Len(Tail(Queued)) = Len(Queued) - 1
      /\ \A i \in 1..Len(Tail(Queued)) : Tail(Queued)[i] = Queued[i + 1]
  BY <1>3, <1>7, HeadTailProperties
<1>9. q = Tail(Queued)
  <2>1. Len(q) = Len(Tail(Queued))
    BY <1>1, <1>2, <1>3, <1>6, <1>8
  <2>2. \A i \in 1..Len(q) : q[i] = Tail(Queued)[i]
    <3> TAKE i \in 1..Len(q)
    <3>1. q[i] = Tail(mInFlightQueue)[i].frameNumber
      BY <1>1, <1>5, <1>6
    <3>2. i \in 1..Len(Tail(mInFlightQueue)) /\ i + 1 \in 1..Len(mInFlightQueue)
      BY <1>1, <1>2, <1>6
    <3>3. Tail(Queued)[i] = Queued[i + 1]
      BY <1>8, <2>1
    <3> QED BY <1>2, <1>3, <3>1, <3>2, <3>3
  <2> QED BY <1>6, <1>8, <2>1, <2>2, SeqEqual
<1>10. Queued = <<Head(Queued)>> \o Tail(Queued)
  BY <1>3, <1>7, HeadThenTail
<1>11. InFlight = Queued
  BY <1>3, ConcatEmptySeq
<1> QED BY <1>5, <1>7, <1>9, <1>10, <1>11

\* A request that is queued is the last in flight.
LEMMA QueueExtendsInFlight ==
    ASSUME VarTypes, QueueRequest
    PROVE  InFlight' = Append(InFlight, request.frameNumber)
<1> DEFINE n == request.frameNumber
<1>1. /\ mInFlightQueue \in Seq(Requests) /\ request \in Requests
      /\ mInFlightQueue' = Append(mInFlightQueue, request)
      /\ CurrentInFlight' = CurrentInFlight
  BY DEF QueueRequest, QueueCaptureRequest, threadVars, VarTypes, ReadoutTypeOK, CurrentInFlight
<1>2. n \in Nat
  <2>1. \A r \in Requests : r.frameNumber \in Nat
    BY DEF Requests
  <2> QED BY <1>1, <2>1
<1>3. /\ Len(mInFlightQueue) \in Nat
      /\ Len(mInFlightQueue') = Len(mInFlightQueue) + 1
      /\ \A i \in 1..Len(mInFlightQueue) : mInFlightQueue'[i] = mInFlightQueue[i]
      /\ mInFlightQueue'[Len(mInFlightQueue) + 1] = request
  <2> HIDE DEF Requests
  <2> QED BY <1>1, AppendExtends
<1>4. /\ Queued \in Seq(Nat) /\ Len(Queued) = Len(mInFlightQueue)
      /\ \A i \in 1..Len(mInFlightQueue) : Queued[i] = mInFlightQueue[i].frameNumber
      /\ CurrentInFlight \in Seq(Nat) /\ InFlight = CurrentInFlight \o Queued
  BY InFlightTyped
<1>5. PICK q : q = Queued'
  OBVIOUS
<1>6. /\ q = [i \in 1..Len(mInFlightQueue') |-> mInFlightQueue'[i].frameNumber]
      /\ InFlight' = CurrentInFlight \o q
  BY <1>1, <1>5 DEF Queued, InFlight
<1>7. \A i \in 1..Len(mInFlightQueue') :
        mInFlightQueue'[i].frameNumber = IF i <= Len(mInFlightQueue) THEN Queued[i] ELSE n
  <2> TAKE i \in 1..Len(mInFlightQueue')
  <2>1. CASE i \in 1..Len(mInFlightQueue)
    <3>1. mInFlightQueue'[i].frameNumber = Queued[i]
      BY <1>3, <1>4, <2>1
    <3>2. i <= Len(mInFlightQueue)
      BY <1>3, <2>1
    <3> QED BY <3>1, <3>2
  <2>2. CASE i = Len(mInFlightQueue) + 1
    <3>1. mInFlightQueue'[i] = request
      BY <1>3, <2>2
    <3>2. ~(i <= Len(mInFlightQueue))
      BY <1>3, <2>2
    <3> QED BY <3>1, <3>2
  <2> QED BY <1>3, <2>1, <2>2
<1> HIDE DEF n
<1> DEFINE a == Append(Queued, n)
<1>8. /\ a \in Seq(Nat) /\ Len(a) = Len(Queued) + 1
      /\ \A i \in 1..Len(Queued) : a[i] = Queued[i]
      /\ a[Len(Queued) + 1] = n
  BY <1>2, <1>4, AppendProperties
<1>9. a = Queued \o <<n>>
  BY <1>2, <1>4, AppendIsConcat
<1> HIDE DEF a
<1>10. q = a
  <2>1. \A i \in 1..Len(mInFlightQueue') : mInFlightQueue'[i].frameNumber = a[i]
    <3> TAKE i \in 1..Len(mInFlightQueue')
    <3>1. i \in 1..Len(Queued) \/ i = Len(Queued) + 1
      BY <1>3, <1>4
    <3> QED BY <1>3, <1>4, <1>7, <1>8, <3>1
  <2>2. Len(a) = Len(mInFlightQueue') /\ Len(a) \in Nat
    BY <1>3, <1>4, <1>8
  <2>3. q \in Seq(Nat) /\ Len(q) = Len(a) /\ \A i \in 1..Len(a) : q[i] = a[i]
    <3>1. \A i \in 1..Len(a) : a[i] \in Nat
      BY <1>8, ElementOfSeq
    <3>2. q = [i \in 1..Len(a) |-> mInFlightQueue'[i].frameNumber]
      BY <1>6, <2>2
    <3>3. \A i \in 1..Len(a) : mInFlightQueue'[i].frameNumber = a[i]
      BY <2>1, <2>2
    <3>4. q = [i \in 1..Len(a) |-> a[i]]
      BY <3>2, <3>3
    <3>5. a = [i \in 1..Len(a) |-> a[i]]
      BY <1>8
    <3> QED BY <1>8, <3>4, <3>5
  <2> QED BY <1>8, <2>3, SeqEqual
<1>11. <<n>> \in Seq(Nat)
  BY <1>2
<1>12. InFlight' = (CurrentInFlight \o Queued) \o <<n>>
  <2> DEFINE c == CurrentInFlight
             u == <<n>>
  <2>1. InFlight' = c \o (Queued \o u) /\ u \in Seq(Nat) /\ c \in Seq(Nat) /\ Queued \in Seq(Nat)
    BY <1>4, <1>6, <1>9, <1>10, <1>11
  <2> HIDE DEF c, u
  <2>2. (c \o Queued) \o u = c \o (Queued \o u)
    BY SMTT(30), <2>1, ConcatAssociative
  <2>3. InFlight' = (c \o Queued) \o u
    BY <2>1, <2>2
  <2> QED BY <2>3 DEF c, u
<1>13. InFlight \in Seq(Nat)
  BY <1>4, ConcatProperties
<1> QED BY <1>2, <1>4, <1>12, <1>13, AppendIsConcat DEF n

\* The numbers given so far: of the request in the caller's hands, of the results sent, and
\* of the frame being processed.
OrderInv ==
    /\ callerPc \in InCall => nextFrame <= MaxFrame
    /\ \A i \in 1..Len(results) : results[i] < nextFrame
    /\ Processing => 0 < takenBuffers

orderVars == <<callerPc, nextFrame, results, readoutPc, takenBuffers>>

LEMMA OrderFrame == OrderInv /\ UNCHANGED orderVars => OrderInv'
BY DEF OrderInv, orderVars, Processing

LEMMA OrderInductive == VarTypes /\ PipeInv /\ OrderInv /\ [Next]_vars => OrderInv'
<1> SUFFICES ASSUME VarTypes, PipeInv, OrderInv, [Next]_vars PROVE OrderInv'
  OBVIOUS
<1>0. JpegTypes /\ results \in Seq(Nat)
  BY JpegTyped DEF VarTypes, ReadoutTypeOK
<1> USE DEF vars, readoutVars, queueVars, listenerVars, threadVars, receivedVars, cameraVars,
            Calls, OnlyCaller, Moves
<1>1. CASE ConnectCamera
  <2>1. UNCHANGED <<callerPc, nextFrame, results>> /\ readoutPc' = "loop"
    BY <1>1 DEF ConnectCamera, ReadoutStart
  <2> QED BY <2>1 DEF OrderInv, Processing
<1>2. CASE InitializeDevice \/ ConfigureStreams \/ RejectRequest
  <2>1. UNCHANGED orderVars
    BY <1>2 DEF InitializeDevice, ConfigureStreams, RejectRequest, StartRequest, orderVars
  <2> QED BY <2>1, OrderFrame
<1>3. CASE ProcessCaptureRequest
  <2>1. nextFrame <= MaxFrame /\ UNCHANGED <<nextFrame, results, readoutPc, takenBuffers>>
    BY <1>3 DEF ProcessCaptureRequest, StartRequest
  <2> QED BY <2>1 DEF OrderInv, Processing
<1>4. CASE CloseCamera
  BY <1>4 DEF CloseCamera, OrderInv, Processing, InCall
<1>5. CASE CallerStep /\ ~QueueRequest
  <2>1. /\ callerPc' \in InCall => callerPc \in InCall
        /\ UNCHANGED <<nextFrame, results, readoutPc, takenBuffers>>
    <3>1. CASE AwaitJpeg \/ AwaitReadout \/ AwaitVSync \/ GotVSync \/ ConfigureSensor
      BY <3>1 DEF AwaitJpeg, AwaitReadout, AwaitVSync, GotVSync, ConfigureSensor, InCall
    <3>2. CASE CloseSensorDown \/ CloseJoined
      BY <3>2 DEF CloseSensorDown, ReadoutRequestExit, CloseJoined, ReadoutDestroy, InCall
    <3> QED BY <1>5, <3>1, <3>2 DEF CallerStep
  <2> QED BY <2>1 DEF OrderInv, Processing
<1>6. CASE QueueRequest
  <2>1. /\ callerPc' = "idle" /\ nextFrame' = nextFrame + 1
        /\ UNCHANGED <<results, readoutPc, takenBuffers>>
    BY <1>6 DEF QueueRequest, QueueCaptureRequest
  <2>2. \A i \in 1..Len(results) : results[i] \in Nat
    BY <1>0
  <2> QED BY <1>0, <2>1, <2>2 DEF OrderInv, Processing, InCall, JpegTypes
<1>7. CASE CallerTimeout
  <2>1. /\ callerPc' \in InCall => callerPc \in InCall
        /\ UNCHANGED <<nextFrame, results, readoutPc, takenBuffers>>
    BY <1>7 DEF CallerTimeout, AwaitJpegTimeout, AwaitReadoutTimeout, VSyncTimeout, GiveUp, InCall
  <2> QED BY <2>1 DEF OrderInv, Processing
<1>8. CASE SensorThread \/ JpegThread \/ UNCHANGED vars
  <2>1. UNCHANGED orderVars
    BY <1>8 DEF SensorThread, JpegThread, OnJpegDone, JpegThreadStep, orderVars
  <2> QED BY <2>1, OrderFrame
<1>9. CASE ReadoutStep
  <2>0. UNCHANGED <<callerPc, nextFrame>>
    BY <1>9 DEF ReadoutStep
  <2>1. CASE ReadoutGotFrame
    <3>1. readoutPc' = "process" /\ takenBuffers' = takenBuffers + 1 /\ UNCHANGED results
      BY <2>1, TakenNext DEF ReadoutGotFrame
    <3> QED BY <1>0, <2>0, <3>1 DEF OrderInv, JpegTypes
  <2>2. CASE ReadoutSend
    <3> DEFINE n == mCurrentRequest.frameNumber
    <3>1. /\ readoutPc = "send" /\ readoutPc' = "loop"
          /\ results' = Append(results, n) /\ UNCHANGED takenBuffers
      BY <2>2 DEF ReadoutSend
    <3>2. n \in Nat /\ n < nextFrame
      <4>1. n = takenBuffers /\ mStatus # "CLOSED"
        BY <3>1, CurrentTaken DEF Processing, PipeInv
      <4> QED BY <1>0, <4>1, TakenBelow DEF JpegTypes, PipeInv
    <3> HIDE DEF n
    <3>3. /\ Len(results') = Len(results) + 1 /\ Len(results) \in Nat
          /\ \A i \in 1..Len(results) : results'[i] = results[i]
          /\ results'[Len(results) + 1] = n
      BY <1>0, <3>1, <3>2, AppendExtends
    <3>4. \A i \in 1..Len(results') : results'[i] < nextFrame
      <4> TAKE i \in 1..Len(results')
      <4>1. i \in 1..Len(results) \/ i = Len(results) + 1
        BY <3>3
      <4> QED BY <3>2, <3>3, <4>1 DEF OrderInv
    <3> QED BY <2>0, <3>1, <3>4 DEF OrderInv, Processing
  <2>3. CASE ~ReadoutGotFrame /\ ~ReadoutSend
    <3>1. /\ UNCHANGED <<results, takenBuffers>>
          /\ readoutPc' \in {"process", "checkIdle", "signalIdle", "send"} =>
               readoutPc \in {"process", "checkIdle", "signalIdle", "send"}
      BY <1>9, <2>3 DEF ReadoutStep, ReadoutDequeue, ReadoutResume, ReadoutWaitForFrame,
         ReadoutNoFrame, ReadoutProcessPlain, ReadoutJpegRefused, ReadoutJpegStarted,
         ReadoutCheckIdle, ReadoutThreadExit
    <3> QED BY <2>0, <3>1 DEF OrderInv, Processing
  <2> QED BY <2>1, <2>2, <2>3
<1>10. CASE SignalReadoutIdle
  BY <1>10 DEF SignalReadoutIdle, OrderInv, Processing
<1> QED BY <1>1, <1>2, <1>3, <1>4, <1>5, <1>6, <1>7, <1>8, <1>9, <1>10 DEF Next, CallerStep

\* The numbers in flight are below the next one.
LEMMA InFlightBelow ==
    ASSUME VarTypes, RequestPipe, mCurrentRequest # NoRequest => AwaitsFrame \/ Processing
    PROVE  \A i \in 1..Len(InFlight) : InFlight[i] < nextFrame
<1>1. /\ Queued \in Seq(Nat) /\ Len(Queued) = Len(mInFlightQueue)
      /\ \A i \in 1..Len(mInFlightQueue) : Queued[i] = mInFlightQueue[i].frameNumber
      /\ CurrentInFlight \in Seq(Nat) /\ InFlight = CurrentInFlight \o Queued
  BY InFlightTyped
<1>2. takenBuffers \in Nat /\ nextFrame \in Nat /\ Len(mInFlightQueue) \in Nat
  BY DEF VarTypes, ReadoutTypeOK
<1>3. /\ LastTakenUp \in {takenBuffers, takenBuffers + 1}
      /\ nextFrame = LastTakenUp + Len(mInFlightQueue) + 1
      /\ \A i \in 1..Len(mInFlightQueue) : mInFlightQueue[i].frameNumber = LastTakenUp + i
  BY DEF RequestPipe, LastTakenUp
<1>4. mCurrentRequest # NoRequest => mCurrentRequest.frameNumber < nextFrame
  <2>1. AwaitsFrame => mCurrentRequest.frameNumber = LastTakenUp
    BY DEF RequestPipe, LastTakenUp
  <2>2. Processing => mCurrentRequest.frameNumber = takenBuffers
    BY DEF RequestPipe
  <2> QED BY <1>2, <1>3, <2>1, <2>2
<1>5. \A i \in 1..Len(Queued) : Queued[i] < nextFrame
  BY <1>1, <1>2, <1>3
<1>6. \A i \in 1..Len(CurrentInFlight) : CurrentInFlight[i] < nextFrame
  BY <1>4 DEF CurrentInFlight
<1> DEFINE c == CurrentInFlight
           d == Queued
<1>7. /\ c \in Seq(Nat) /\ d \in Seq(Nat) /\ InFlight = c \o d
      /\ \A i \in 1..Len(d) : d[i] < nextFrame
      /\ \A i \in 1..Len(c) : c[i] < nextFrame
  BY <1>1, <1>5, <1>6
<1> HIDE DEF c, d
<1>8. /\ Len(InFlight) = Len(c) + Len(d) /\ Len(c) \in Nat /\ Len(d) \in Nat
      /\ \A i \in 1..Len(c) + Len(d) :
           InFlight[i] = IF i <= Len(c) THEN c[i] ELSE d[i - Len(c)]
  BY <1>7, ConcatProperties, LenProperties
<1> TAKE i \in 1..Len(InFlight)
<1>9. CASE i <= Len(c)
  <2>1. i \in 1..Len(c) /\ InFlight[i] = c[i]
    BY <1>8, <1>9
  <2>2. c[i] < nextFrame
    BY <1>7, <2>1, Zenon
  <2> QED BY <2>1, <2>2
<1>10. CASE ~(i <= Len(c))
  <2>1. i - Len(c) \in 1..Len(d)
    BY <1>8, <1>10
  <2>2. InFlight[i] = d[i - Len(c)]
    BY <1>8, <1>10
  <2> QED BY <1>7, <2>1, <2>2
<1> QED BY <1>9, <1>10

ServiceNext == [Service!Next]_<<InFlight, results>>

LEMMA InFlightKept ==
    UNCHANGED <<mInFlightQueue, mCurrentRequest, results>> => ServiceNext
BY DEF ServiceNext, InFlight, CurrentInFlight

LEMMA ServiceAccepts ==
    ASSUME VarTypes, PipeInv, OrderInv, QueueRequest
    PROVE  ServiceNext
<1> DEFINE n == request.frameNumber
<1>1. /\ callerPc = "queue" /\ UNCHANGED results
  BY DEF QueueRequest, QueueCaptureRequest, receivedVars, Calls
<1>2. /\ n = nextFrame /\ nextFrame <= MaxFrame /\ mStatus # "CLOSED" /\ RequestPipe
  BY <1>1 DEF PipeInv, OrderInv, InCall
<1>3. nextFrame \in Nat \ {0} /\ MaxFrame \in Nat
  BY FakeCamera3Assumption DEF VarTypes
<1>4. mCurrentRequest # NoRequest => AwaitsFrame \/ Processing
  BY DEF VarTypes, ReadoutTypeOK, ReadoutPcs, AwaitsFrame, Processing
<1>5. \A i \in 1..Len(InFlight) : InFlight[i] < n
  BY <1>2, <1>4, InFlightBelow
<1>6. \A i \in 1..Len(results) : results[i] < n
  BY <1>2 DEF OrderInv
<1>7. InFlight' = Append(InFlight, n)
  BY QueueExtendsInFlight
<1>8. n \in 1..MaxFrame
  BY <1>2, <1>3
<1> HIDE DEF n
<1>9. Service!Accept
  BY <1>1, <1>5, <1>6, <1>7, <1>8 DEF Service!Accept
<1> QED BY <1>9 DEF ServiceNext, Service!Next

LEMMA ServiceCompletes ==
    ASSUME VarTypes, PipeInv, OrderInv, ReadoutSend
    PROVE  ServiceNext
<1> DEFINE n == mCurrentRequest.frameNumber
<1>1. /\ readoutPc = "send" /\ results' = Append(results, n)
      /\ mCurrentRequest' = NoRequest /\ UNCHANGED mInFlightQueue
  BY DEF ReadoutSend, Moves, queueVars
<1>2. n = takenBuffers /\ 0 < takenBuffers /\ takenBuffers \in Nat
  BY <1>1, CurrentTaken DEF Processing, OrderInv, VarTypes, ReadoutTypeOK
<1>3. mCurrentRequest # NoRequest
  BY <1>2 DEF NoRequest
<1>4. Queued \in Seq(Nat) /\ InFlight = <<n>> \o Queued
  BY <1>3, InFlightTyped
<1>5. InFlight' = <<>> \o Queued
  BY <1>1 DEF InFlight, CurrentInFlight, Queued
<1>6. n \in Nat
  BY <1>2
<1> HIDE DEF n
<1>7. InFlight # <<>> /\ Head(InFlight) = n /\ Tail(InFlight) = Queued
  BY <1>4, <1>6, ConsTail
<1>8. InFlight' = Queued
  BY <1>4, <1>5, ConcatEmptySeq
<1>9. Service!Complete
  BY <1>1, <1>7, <1>8 DEF Service!Complete
<1> QED BY <1>9 DEF ServiceNext, Service!Next

LEMMA ServiceCloses ==
    UNCHANGED results /\ mInFlightQueue' = <<>> /\ mCurrentRequest' = NoRequest => ServiceNext
<1> SUFFICES ASSUME UNCHANGED results, mInFlightQueue' = <<>>, mCurrentRequest' = NoRequest
             PROVE  ServiceNext
  OBVIOUS
<1>1. PICK q : q = mInFlightQueue'
  OBVIOUS
<1>2. InFlight' = <<>> \o [i \in 1..Len(q) |-> q[i].frameNumber] /\ q = <<>>
  BY <1>1 DEF InFlight, CurrentInFlight
<1>3. [i \in 1..Len(q) |-> q[i].frameNumber] = <<>>
  BY <1>2
<1>4. InFlight' = <<>>
  BY <1>2, <1>3
<1>5. Service!Close
  BY <1>4 DEF Service!Close
<1> QED BY <1>5 DEF ServiceNext, Service!Next

LEMMA ServiceSteps ==
    VarTypes /\ VarTypes' /\ PipeInv /\ PipeInv' /\ OrderInv /\ [Next]_vars => ServiceNext
<1> SUFFICES ASSUME VarTypes, VarTypes', PipeInv, PipeInv', OrderInv, [Next]_vars PROVE ServiceNext
  OBVIOUS
<1> USE DEF vars, readoutVars, queueVars, threadVars, receivedVars
<1>1. CASE ConnectCamera
  <2>1. UNCHANGED results /\ mInFlightQueue' = <<>> /\ mCurrentRequest' = NoRequest
    BY <1>1 DEF ConnectCamera, ReadoutStart
  <2> QED BY <2>1, ServiceCloses
<1>2. CASE InitializeDevice \/ ConfigureStreams \/ ProcessCaptureRequest \/ RejectRequest
           \/ CloseCamera
  <2>1. UNCHANGED <<mInFlightQueue, mCurrentRequest, results>>
    BY <1>2 DEF InitializeDevice, ConfigureStreams, ProcessCaptureRequest, RejectRequest,
                StartRequest, CloseCamera
  <2> QED BY <2>1, InFlightKept
<1>3. CASE QueueRequest
  BY <1>3, ServiceAccepts
<1>4. CASE CloseJoined
  <2>1. UNCHANGED results /\ mInFlightQueue' = <<>> /\ mCurrentRequest' = NoRequest
    BY <1>4 DEF CloseJoined, ReadoutDestroy
  <2> QED BY <2>1, ServiceCloses
<1>5. CASE CallerStep /\ ~QueueRequest /\ ~CloseJoined
  <2>1. UNCHANGED <<mInFlightQueue, mCurrentRequest, results>>
    BY <1>5 DEF CallerStep, AwaitJpeg, AwaitReadout, AwaitVSync, GotVSync, ConfigureSensor,
                CloseSensorDown, ReadoutRequestExit
  <2> QED BY <2>1, InFlightKept
<1>6. CASE CallerTimeout
  <2>1. UNCHANGED <<mInFlightQueue, mCurrentRequest, results>>
    BY <1>6 DEF CallerTimeout, AwaitJpegTimeout, AwaitReadoutTimeout, VSyncTimeout, GiveUp
  <2> QED BY <2>1, InFlightKept
<1>7. CASE SensorThread \/ JpegThread \/ SignalReadoutIdle \/ UNCHANGED vars
  <2>1. UNCHANGED <<mInFlightQueue, mCurrentRequest, results>>
    BY <1>7 DEF SensorThread, JpegThread, OnJpegDone, JpegThreadStep, SignalReadoutIdle
  <2> QED BY <2>1, InFlightKept
<1>8. CASE ReadoutDequeue
  <2>1. mCurrentRequest' # NoRequest
    <3>1. readoutPc' = "frame"
      BY <1>8 DEF ReadoutDequeue, Moves
    <3> QED BY <3>1 DEF PipeInv, RequestPipe
  <2>2. InFlight' = InFlight
    BY <1>8, <2>1, DequeueKeepsInFlight
  <2>3. UNCHANGED results
    BY <1>8 DEF ReadoutDequeue
  <2> QED BY <2>2, <2>3 DEF ServiceNext
<1>9. CASE ReadoutSend
  BY <1>9, ServiceCompletes
<1>10. CASE ReadoutStep /\ ~ReadoutDequeue /\ ~ReadoutSend
  <2>1. UNCHANGED <<mInFlightQueue, mCurrentRequest, results>>
    BY <1>10 DEF ReadoutStep, ReadoutResume, ReadoutWaitForFrame, ReadoutNoFrame,
       ReadoutGotFrame, ReadoutProcessPlain, ReadoutJpegRefused, ReadoutJpegStarted,
       ReadoutCheckIdle, ReadoutThreadExit
  <2> QED BY <2>1, InFlightKept
<1> QED BY <1>1, <1>2, <1>3, <1>4, <1>5, <1>6, <1>7, <1>8, <1>9, <1>10 DEF Next, CallerStep

\* The camera implements CaptureService: requests complete one at a time, in the order in
\* which they were queued and each at most once, and nothing is dropped but by a close. The
\* number a request gets is greater than all those before it, refused requests among them.
THEOREM CapturesCorrect == Spec => CapturesInOrder
<1>1. Init => Service!Init /\ OrderInv /\ ExposureInv /\ PipeInv
  <2> SUFFICES ASSUME Init PROVE Service!Init /\ OrderInv /\ ExposureInv /\ PipeInv
    OBVIOUS
  <2>1. Service!Init
    BY DEF Init, ReadoutInit, Service!Init, InFlight, CurrentInFlight
  <2>2. OrderInv
    BY DEF Init, ReadoutInit, OrderInv, Processing, InCall
  <2>3. ExposureInv
    BY DEF Init, SensorInit, NoLatch, ExposureInv, OwnExposure, LatchedFrame
  <2>4. PipeInv
    BY DEF Init, SensorInit, ReadoutInit, PipeInv, InCall
  <2> QED BY <2>1, <2>2, <2>3, <2>4
<1> QED BY <1>1, VarsTyped, ExposureInductive, PipeInductive, OrderInductive, ServiceSteps,
           PTL DEF Spec, CapturesInOrder, Service!Spec, ServiceNext

-----------------------------------------------------------------------------
(* Deleted buffers.                                                        *)

\* A deleted set is one of a frame already taken, of a session closed, or of a request that
\* was still queued at a close; the compressor and the readout thread hold different sets. The
\* set of a start() that failed is deleted in the readout thread's hands.
FreeInv ==
    /\ 0 \notin jpegReturned
    /\ \A n \in freed : 0 < n /\ n < nextFrame
    /\ mStatus # "CLOSED" => \A n \in freed : n <= takenBuffers
    /\ jpegPc \in {"compress", "cleanUp"} =>
         mIsBusy /\ mBuffers \notin freed /\ 0 < mBuffers /\ mBuffers <= takenBuffers
    /\ readoutPc = "process" => takenBuffers \notin freed
    /\ OwnsBuffers =>
         /\ 0 < takenBuffers
         /\ takenBuffers \in freed => takenBuffers \in FailedStart
         /\ jpegPc \in {"compress", "cleanUp"} => mBuffers # takenBuffers

freeVars == <<freed, nextFrame, takenBuffers, jpegPc, mIsBusy, mBuffers, readoutPc,
              jpegOutcome, jpegReturned>>

LEMMA FreeFrame ==
    FreeInv /\ UNCHANGED freeVars /\ (mStatus = "CLOSED" => mStatus' = "CLOSED") => FreeInv'
BY DEF FreeInv, freeVars, OwnsBuffers, Processing, FailedStart

\* The requests a close drops are numbered past every frame taken, and below the next.
LEMMA DroppedNumbers ==
    ASSUME VarTypes, RequestPipe, readoutPc = "off"
    PROVE  \A n \in {mInFlightQueue[i].frameNumber : i \in 1..Len(mInFlightQueue)} :
             takenBuffers < n /\ n < nextFrame
<1>1. takenBuffers \in Nat /\ nextFrame \in Nat /\ Len(mInFlightQueue) \in Nat
  BY DEF VarTypes, ReadoutTypeOK
<1>2. /\ nextFrame = LastTakenUp + Len(mInFlightQueue) + 1
      /\ \A i \in 1..Len(mInFlightQueue) : mInFlightQueue[i].frameNumber = LastTakenUp + i
  BY DEF RequestPipe
<1>3. LastTakenUp \in {takenBuffers, takenBuffers + 1}
  BY DEF LastTakenUp
<1> QED BY <1>1, <1>2, <1>3

LEMMA FreeInductive == VarTypes /\ PipeInv /\ JpegInv /\ FreeInv /\ [Next]_vars => FreeInv'
<1> SUFFICES ASSUME VarTypes, PipeInv, JpegInv, FreeInv, [Next]_vars PROVE FreeInv'
  OBVIOUS
<1>0. JpegTypes /\ takenBuffers < nextFrame
  BY JpegTyped DEF JpegInv
<1> USE DEF vars, sensorVars, jpegVars, readoutVars, queueVars, listenerVars, threadVars,
            receivedVars, cameraVars, Calls, OnlyCaller, Moves, Free
<1>1. CASE ConnectCamera
  <2>1. /\ takenBuffers' = nextFrame - 1 /\ nextFrame' = nextFrame
        /\ UNCHANGED <<freed, jpegReturned>> /\ jpegPc' = "off" /\ readoutPc' = "loop"
    BY <1>1 DEF ConnectCamera, ReadoutStart, JpegCreate
  <2> QED BY <1>0, <2>1 DEF JpegTypes, FreeInv, OwnsBuffers, Processing
<1>2. CASE InitializeDevice \/ ConfigureStreams \/ ProcessCaptureRequest \/ RejectRequest
           \/ CloseCamera
  <2>1. UNCHANGED freeVars /\ (mStatus = "CLOSED" => mStatus' = "CLOSED")
    BY <1>2 DEF InitializeDevice, ConfigureStreams, ProcessCaptureRequest, RejectRequest,
                StartRequest, CloseCamera, freeVars
  <2> QED BY <2>1, FreeFrame
<1>3. CASE CallerStep /\ ~QueueRequest /\ ~CloseJoined
  <2>1. UNCHANGED freeVars /\ mStatus' = mStatus
    <3>1. CASE AwaitJpeg
      BY <3>1 DEF AwaitJpeg, WaitForDoneAtOnce, WaitForDoneBlock, WaitForDoneEnds, freeVars
    <3>2. CASE AwaitReadout \/ AwaitVSync \/ GotVSync \/ ConfigureSensor
      BY <3>2 DEF AwaitReadout, AwaitVSync, GotVSync, ConfigureSensor, freeVars
    <3>3. CASE CloseSensorDown
      BY <3>3 DEF CloseSensorDown, ReadoutRequestExit, freeVars
    <3> QED BY <1>3, <3>1, <3>2, <3>3 DEF CallerStep
  <2> QED BY <2>1, FreeFrame
<1>4. CASE QueueRequest
  <2>1. nextFrame' = nextFrame + 1
        /\ UNCHANGED <<takenBuffers, freed, mBuffers, mIsBusy, jpegPc, readoutPc, jpegOutcome,
                       mStatus, jpegReturned>>
    BY <1>4 DEF QueueRequest, QueueCaptureRequest
  <2> QED BY <1>0, <2>1 DEF JpegTypes, FreeInv, OwnsBuffers, Processing, FailedStart
<1>5. CASE CloseJoined
  <2> DEFINE dropped == {mInFlightQueue[i].frameNumber : i \in 1..Len(mInFlightQueue)}
  <2>1. /\ callerPc = "joining" /\ readoutPc = "off" /\ mStatus' = "CLOSED"
        /\ freed' = freed \cup dropped
        /\ UNCHANGED <<nextFrame, takenBuffers, jpegPc, mIsBusy, mBuffers, readoutPc,
                       jpegReturned>>
    BY <1>5 DEF CloseJoined, ReadoutDestroy
  <2>2. RequestPipe
    BY <2>1 DEF PipeInv
  <2>3. \A n \in dropped : takenBuffers < n /\ n < nextFrame
    BY <2>1, <2>2, DroppedNumbers
  <2>4. \A n \in dropped : n \in Nat
    BY QueuedRequests
  <2> HIDE DEF dropped
  <2>5. \A n \in freed' : 0 < n /\ n < nextFrame'
    BY <1>0, <2>1, <2>3, <2>4 DEF FreeInv, JpegTypes
  <2>6. jpegPc \in {"compress", "cleanUp"} => mBuffers \notin dropped
    BY <1>0, <2>3, <2>4 DEF FreeInv, JpegTypes
  <2>7. ~OwnsBuffers'
    BY <2>1 DEF OwnsBuffers, Processing
  <2>8. readoutPc' # "process"
    BY <2>1
  <2> QED BY <2>1, <2>5, <2>6, <2>7, <2>8 DEF FreeInv
<1>6. CASE CallerTimeout
  <2>1. UNCHANGED freeVars /\ mStatus' = mStatus
    BY <1>6 DEF CallerTimeout, AwaitJpegTimeout, AwaitReadoutTimeout, VSyncTimeout, GiveUp,
                WaitForDoneEnds, freeVars
  <2> QED BY <2>1, FreeFrame
<1>7. CASE SensorThread \/ UNCHANGED vars
  <2>1. UNCHANGED freeVars /\ mStatus' = mStatus
    BY <1>7 DEF SensorThread, freeVars
  <2> QED BY <2>1, FreeFrame
<1>8. CASE SignalReadoutIdle
  BY <1>8 DEF SignalReadoutIdle, FreeInv, OwnsBuffers, Processing, FailedStart
<1>9. CASE ReadoutStep
  <2>0. UNCHANGED <<nextFrame, mStatus>>
    BY <1>9 DEF ReadoutStep
  <2>1. CASE ReadoutDequeue \/ ReadoutResume \/ ReadoutNoFrame \/ ReadoutThreadExit
    BY <2>0, <2>1 DEF ReadoutDequeue, ReadoutResume, ReadoutNoFrame, ReadoutThreadExit,
                      FreeInv, OwnsBuffers, Processing
  <2>2. CASE ReadoutWaitForFrame
    <3>1. UNCHANGED freeVars
      BY <2>0, <2>2 DEF ReadoutWaitForFrame, freeVars
    <3> QED BY <2>0, <3>1, FreeFrame
  <2>3. CASE ReadoutGotFrame
    <3>1. takenBuffers' = takenBuffers + 1 /\ mStatus # "CLOSED"
      BY <2>3, TakenNext
    <3>2. UNCHANGED <<freed, mBuffers, mIsBusy, jpegPc, jpegReturned>>
      BY <2>3 DEF ReadoutGotFrame
    <3> QED BY <1>0, <2>0, <3>1, <3>2 DEF JpegTypes, FreeInv
  <2>4. CASE ReadoutProcessPlain \/ ReadoutCheckIdle
    BY <2>0, <2>4 DEF ReadoutProcessPlain, ReadoutCheckIdle, FreeInv, OwnsBuffers, Processing,
                      FailedStart
  <2>5. CASE ReadoutJpegRefused
    <3>1. /\ readoutPc = "process" /\ readoutPc' = "checkIdle"
          /\ UNCHANGED <<takenBuffers, jpegPc, jpegReturned>>
      BY <2>5 DEF ReadoutJpegRefused, StartRefused, StartFailed
    <3>2. OwnsBuffers /\ mCurrentRequest.frameNumber = takenBuffers
      BY <3>1, CurrentTaken DEF OwnsBuffers, Processing
    <3>3. CASE UNCHANGED <<freed, mBuffers, mIsBusy>>
      BY <2>0, <3>1, <3>2, <3>3 DEF FreeInv, OwnsBuffers, Processing, FailedStart
    <3>4. CASE StartFailed(mCurrentRequest.frameNumber)
      <4>1. /\ ~mIsBusy /\ mBuffers' = takenBuffers /\ freed' = freed \cup {takenBuffers}
        BY <3>2, <3>4 DEF StartFailed
      <4>2. mIsBusy' = TRUE
        BY Zenon, <3>4 DEF StartFailed
      <4>3. jpegPc \notin {"compress", "cleanUp"} /\ 0 < takenBuffers
        BY <3>2, <4>1 DEF FreeInv
      <4>4. takenBuffers' \in FailedStart'
        BY <3>1, <4>1, <4>2, <4>3 DEF FailedStart
      <4> QED BY <1>0, <2>0, <3>1, <4>1, <4>3, <4>4 DEF JpegTypes, FreeInv
    <3> QED BY <2>5, <3>3, <3>4 DEF ReadoutJpegRefused, StartRefused
  <2>6. CASE ReadoutJpegStarted
    <3>1. /\ readoutPc = "process" /\ readoutPc' = "checkIdle" /\ jpegOutcome' = "taken"
          /\ mBuffers' = mCurrentRequest.frameNumber
          /\ UNCHANGED <<takenBuffers, freed, jpegReturned>>
      BY <2>6 DEF ReadoutJpegStarted, Started
    <3>4. mIsBusy' = TRUE
      BY Zenon, <2>6 DEF ReadoutJpegStarted, Started
    <3>2. mCurrentRequest.frameNumber = takenBuffers /\ OwnsBuffers
      BY <3>1, CurrentTaken DEF OwnsBuffers, Processing
    <3>3. ~OwnsBuffers'
      BY <3>1 DEF OwnsBuffers
    <3> QED BY <1>0, <2>0, <3>1, <3>2, <3>3, <3>4 DEF JpegTypes, FreeInv
  <2>7. CASE ReadoutSend
    <3>0. readoutPc = "send" /\ readoutPc' = "loop"
          /\ UNCHANGED <<takenBuffers, jpegPc, mIsBusy, mBuffers>>
      BY <2>7 DEF ReadoutSend
    <3>1. mCurrentRequest.frameNumber = takenBuffers
      BY <3>0, CurrentTaken DEF Processing
    <3>2. ~OwnsBuffers' /\ (OwnsBuffers \/ jpegOutcome = "taken")
      BY <3>0 DEF OwnsBuffers, Processing
    <3>3. freed' = freed \/ (OwnsBuffers /\ freed' = freed \cup {takenBuffers})
      BY <2>7, <3>1, <3>2 DEF ReadoutSend, BuffersToDelete
    <3>4. 0 \notin jpegReturned'
      BY <2>7, <3>1, <3>2 DEF ReadoutSend, FreeInv
    <3> QED BY <1>0, <2>0, <3>0, <3>2, <3>3, <3>4 DEF JpegTypes, FreeInv
  <2> QED BY <1>9, <2>1, <2>2, <2>3, <2>4, <2>5, <2>6, <2>7 DEF ReadoutStep
<1>10. CASE JpegThread
  <2>0. UNCHANGED <<nextFrame, mStatus>>
    BY <1>10 DEF JpegThread
  <2>1. CASE OnJpegDone
    <3>1. /\ jpegPc = "compress" /\ jpegPc' = "cleanUp"
          /\ UNCHANGED <<freed, mIsBusy, mBuffers, takenBuffers, readoutPc, jpegOutcome>>
          /\ jpegReturned' = jpegReturned \cup {mBuffers}
      BY <2>1 DEF OnJpegDone, Compress, JpegResultFrame, JpegInv
    <3> QED BY <2>0, <3>1 DEF FreeInv, OwnsBuffers, Processing, FailedStart
  <2>2. CASE JpegCleanUp /\ UNCHANGED readoutVars
    <3>1. /\ jpegPc = "cleanUp" /\ jpegPc' = "exit" /\ freed' = freed \cup {mBuffers}
          /\ UNCHANGED <<takenBuffers, readoutPc, jpegOutcome, jpegReturned>>
      BY <2>2 DEF JpegCleanUp
    <3>2. OwnsBuffers' <=> OwnsBuffers
      BY <3>1 DEF OwnsBuffers, Processing
    <3>3. OwnsBuffers => takenBuffers \notin freed'
      BY <3>1 DEF FreeInv, FailedStart
    <3>4. readoutPc = "process" => OwnsBuffers
      BY DEF OwnsBuffers, Processing
    <3> QED BY <1>0, <2>0, <3>1, <3>2, <3>3, <3>4 DEF JpegTypes, FreeInv
  <2>3. CASE JpegThreadExit /\ UNCHANGED readoutVars
    <3>1. /\ jpegPc = "exit" /\ jpegPc' = "off"
          /\ UNCHANGED <<freed, mIsBusy, mBuffers, takenBuffers, readoutPc, jpegOutcome,
                         jpegReturned>>
      BY <2>3 DEF JpegThreadExit
    <3> QED BY <2>0, <3>1 DEF FreeInv, OwnsBuffers, Processing, FailedStart
  <2> QED BY <1>10, <2>1, <2>2, <2>3 DEF JpegThread, JpegThreadStep
<1> QED BY <1>1, <1>2, <1>3, <1>4, <1>5, <1>6, <1>7, <1>8, <1>9, <1>10 DEF Next, CallerStep

\* A frame the sensor fills is numbered past every frame taken.
LEMMA LatchedPast ==
    ASSUME VarTypes, PipeInv, LatchedFrame # NoBuffers
    PROVE  mStatus # "CLOSED" /\ LatchedFrame > takenBuffers
<1>1. mStatus # "CLOSED" /\ SensorPipe
  BY DEF PipeInv, LatchedFrame
<1>2. takenBuffers \in Nat
  BY DEF VarTypes, ReadoutTypeOK
<1>3. LastRead \in {takenBuffers, takenBuffers + 1}
  BY DEF LastRead
<1>4. LastCaptured \in {LastRead, LastRead + 1}
  BY DEF LastCaptured
<1>5. LatchedFrame = LastCaptured + 1
  BY <1>1 DEF SensorPipe, LastLatched
<1> QED BY <1>1, <1>2, <1>3, <1>4, <1>5

\* What FreeInv and the invariants it rests on say of the states reached.
LEMMA FreeReached == Spec => [](VarTypes /\ PipeInv /\ JpegInv /\ FreeInv)
<1>1. Init => ExposureInv
  BY DEF Init, SensorInit, NoLatch, ExposureInv, OwnExposure, LatchedFrame
<1>2. Init => PipeInv
  BY DEF Init, SensorInit, ReadoutInit, PipeInv, InCall
<1>3. Init => JpegInv
  BY DEF Init, JpegInit, ReadoutInit, JpegInv, OwnsBuffers, Processing
<1>4. Init => FreeInv
  BY DEF Init, JpegInit, ReadoutInit, FreeInv, OwnsBuffers, Processing
<1> QED BY <1>1, <1>2, <1>3, <1>4, VarsTyped, ExposureInductive, PipeInductive,
           JpegInductive, FreeInductive, PTL DEF Spec

\* No buffer set is used once it has been deleted, whenever the framework asks for JPEGs: the
\* sensor, the compressor and the readout thread each hold sets of their own, and a close
\* deletes only what none of them holds. Nor does the readout thread delete a set that has
\* been deleted, but for the one that a start() that failed deleted before it: the
\* code does delete that one twice.
THEOREM FreedUnused == Spec => []NoUseAfterFree
<1>1. VarTypes /\ PipeInv /\ JpegInv /\ FreeInv => NoUseAfterFree
  <2> SUFFICES ASSUME VarTypes, PipeInv, FreeInv PROVE NoUseAfterFree
    OBVIOUS
  <2>1. LatchedFrame \notin freed
    <3>1. JpegTypes
      BY JpegTyped
    <3>2. CASE LatchedFrame = NoBuffers
      BY <3>1, <3>2 DEF FreeInv, JpegTypes
    <3>3. CASE LatchedFrame # NoBuffers
      <4>1. mStatus # "CLOSED" /\ LatchedFrame > takenBuffers
        BY <3>3, LatchedPast
      <4> QED BY <3>1, <4>1 DEF FreeInv, JpegTypes
    <3> QED BY <3>2, <3>3
  <2>2. readoutPc = "send" => BuffersToDelete \cap freed \subseteq FailedStart
    <3>1. readoutPc = "send" => mCurrentRequest.frameNumber = takenBuffers
      BY CurrentTaken DEF Processing
    <3> QED BY <3>1 DEF FreeInv, OwnsBuffers, Processing, BuffersToDelete
  <2> QED BY <2>1, <2>2 DEF NoUseAfterFree, FreeInv
<1> QED BY <1>1, FreeReached, PTL

-----------------------------------------------------------------------------
(* Types, and that what the threads use is there.                          *)

\* Every variable keeps to its type, and no thread comes to use a request, a current request
\* or a buffer set that is not there: where the code would follow a null pointer.
THEOREM TypeCorrect == Spec => []TypeOK
<1>1. VarTypes /\ PipeInv /\ FreeInv /\ IdleInv /\ OrderInv => TypeOK
  <2> SUFFICES ASSUME VarTypes, PipeInv, FreeInv, IdleInv, OrderInv PROVE NothingNull
    BY DEF TypeOK
  <2>1. takenBuffers \in Nat /\ nextFrame \in Nat \ {0} /\ readoutPc \in ReadoutPcs
    BY DEF VarTypes, ReadoutTypeOK
  <2>2. callerPc \in InCall => request.frameNumber # 0
    BY <2>1 DEF PipeInv
  <2>3. \A i \in 1..Len(mInFlightQueue) : mInFlightQueue[i].frameNumber # 0
    <3>1. CASE mInFlightQueue = <<>>
      BY <3>1
    <3>2. CASE mStatus = "ACTIVE"
      <4>1. \A i \in 1..Len(mInFlightQueue) : mInFlightQueue[i].frameNumber = LastTakenUp + i
        BY <3>2 DEF PipeInv, RequestPipe
      <4>2. LastTakenUp \in Nat /\ Len(mInFlightQueue) \in Nat
        BY <2>1 DEF LastTakenUp, VarTypes, ReadoutTypeOK
      <4> QED BY <4>1, <4>2
    <3> QED BY <3>1, <3>2 DEF IdleInv
  <2>4. readoutPc \notin {"off", "loop"} => mCurrentRequest.frameNumber # 0
    <3> SUFFICES ASSUME readoutPc \notin {"off", "loop"} PROVE mCurrentRequest.frameNumber # 0
      OBVIOUS
    <3>1. RequestPipe
      BY DEF PipeInv
    <3>2. CASE readoutPc = "frame"
      BY <2>1, <3>1, <3>2 DEF RequestPipe, AwaitsFrame
    <3>3. CASE Processing
      BY <2>1, <3>1, <3>3 DEF RequestPipe, OrderInv
    <3> QED BY <2>1, <3>2, <3>3 DEF ReadoutPcs, Processing
  <2>5. jpegPc \in {"compress", "cleanUp"} => mBuffers # 0
    BY DEF FreeInv
  <2>6. 0 \notin freed \cup jpegReturned
    BY DEF FreeInv
  <2> QED BY <2>2, <2>3, <2>4, <2>5, <2>6 DEF NothingNull
<1>2. Init => IdleInv
  BY DEF Init, ReadoutInit, IdleInv, InCall
<1>3. Init => OrderInv
  BY DEF Init, ReadoutInit, OrderInv, Processing, InCall
<1> QED BY <1>1, <1>2, <1>3, FreeReached, IdleInductive, OrderInductive, PTL DEF Spec

=============================================================================
