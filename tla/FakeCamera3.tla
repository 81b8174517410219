----------------------------- MODULE FakeCamera3 -----------------------------
(***************************************************************************)
(* The version 3 emulated camera: EmulatedFakeCamera3 (and its base class  *)
(* EmulatedCamera3) with its sensor, readout and JPEG threads.             *)
(*                                                                         *)
(* The framework calls the HAL from one thread, the caller: open, then     *)
(* initialize and configure, then capture requests, then close.  mLock is  *)
(* held by the caller throughout each call, the long waits included, and   *)
(* by the readout thread in signalReadoutIdle.                             *)
(*                                                                         *)
(* Frames are numbered from 1 in the order in which requests are accepted; *)
(* a request that is refused leaves its number to the next one.            *)
(***************************************************************************)
EXTENDS ReadoutThread

CONSTANTS
    MaxFrame,       \* bound: the number of requests submitted
    JpegFrames,     \* bound: the requests that may ask for a JPEG
    kMaxQueueSize,  \* requests the in-flight queue holds
    Drained         \* TRUE: the framework closes only when it has everything back

ASSUME FakeCamera3Assumption ==
    /\ MaxFrame \in Nat /\ JpegFrames \subseteq Nat
    /\ kMaxQueueSize \in Nat \ {0}
    /\ Drained \in BOOLEAN

VARIABLES
    mStatus,
    mPrevSettings,     \* TRUE: settings are cached for requests that bring none
    callerPc,          \* where the caller is in the call it makes
    request,           \* the request being processed
    nextFrame          \* the number of the next request accepted

cameraVars == <<mStatus, mPrevSettings, callerPc, request, nextFrame>>
vars       == <<sensorVars, jpegVars, readoutVars, cameraVars>>

\* The places between the validation of a request and its end.
InCall == {"jpegWait", "jpegBlocked", "readoutWait", "vsync", "vsyncBlocked", "exposure",
           "buffers", "frameNumber", "queue"}

CallerPcs == InCall \cup {"idle", "closing", "joining"}

\* The places where the caller holds mLock: in every call but for the join.
MLockHeld == callerPc \notin {"idle", "joining"}

VarTypes ==
    /\ SensorTypeOK /\ JpegTypeOK /\ ReadoutTypeOK
    /\ mStatus \in {"CLOSED", "OPEN", "READY", "ACTIVE"}
    /\ mPrevSettings \in BOOLEAN
    /\ callerPc \in CallerPcs
    /\ request \in Requests
    /\ nextFrame \in Nat \ {0}

\* What a thread uses is there, and what is deleted or given back is something.
NothingNull ==
    /\ callerPc \in InCall => request.frameNumber # 0
    /\ \A i \in 1..Len(mInFlightQueue) : mInFlightQueue[i].frameNumber # 0
    /\ readoutPc \notin {"off", "loop"} => mCurrentRequest.frameNumber # 0
    /\ jpegPc \in {"compress", "cleanUp"} => mBuffers # 0
    /\ 0 \notin freed \cup jpegReturned

TypeOK == VarTypes /\ NothingNull

Init ==
    /\ SensorInit /\ JpegInit /\ ReadoutInit
    /\ mStatus = "CLOSED"
    /\ mPrevSettings = FALSE
    /\ callerPc = "idle"
    /\ request = NoRequest
    /\ nextFrame = 1

Calls(from, to) == callerPc = from /\ callerPc' = to
\* Leaves all but the place of the caller and the request as it is.
OnlyCaller == UNCHANGED <<mStatus, mPrevSettings, nextFrame>>

-----------------------------------------------------------------------------
(* Opening and configuring.                                                *)

\* connectCamera: new sensor, readout thread and compressor. A compression left
\* over from the last session has ended by now (see the README).
ConnectCamera ==
    /\ callerPc = "idle" /\ mStatus = "CLOSED"
    /\ jpegPc = "off"
    /\ SensorStartUp /\ ReadoutStart(nextFrame - 1) /\ JpegCreate
    /\ mStatus' = "OPEN"
    /\ UNCHANGED <<mPrevSettings, callerPc, request, nextFrame>>

InitializeDevice ==
    /\ callerPc = "idle" /\ mStatus = "OPEN"
    /\ mStatus' = "READY"
    /\ UNCHANGED <<sensorVars, jpegVars, readoutVars, mPrevSettings, callerPc, request,
                   nextFrame>>

\* configureStreams: settings are not reused across it.
ConfigureStreams ==
    /\ callerPc = "idle" /\ mStatus \in {"OPEN", "READY"}
    /\ mPrevSettings' = FALSE
    /\ UNCHANGED <<sensorVars, jpegVars, readoutVars, mStatus, callerPc, request, nextFrame>>

-----------------------------------------------------------------------------
(* processCaptureRequest.                                                  *)

\* A request passes validation. Without settings of its own it takes the cached
\* ones, which must be there. It may then fail in the 3A algorithms, or as its
\* buffers are waited for and locked: the call returns, the status stays ACTIVE
\* and the cached settings it took are gone.
StartRequest(hasSettings) ==
    /\ mStatus \in {"READY", "ACTIVE"}
    /\ nextFrame <= MaxFrame
    /\ hasSettings \/ mPrevSettings
    /\ mStatus' = "ACTIVE"
    /\ mPrevSettings' = (mPrevSettings /\ hasSettings)
    /\ UNCHANGED <<sensorVars, jpegVars, readoutVars, nextFrame>>

ProcessCaptureRequest ==
    \E jpeg, hasSettings \in BOOLEAN :
       /\ jpeg => nextFrame \in JpegFrames
       /\ StartRequest(hasSettings)
       /\ Calls("idle", IF jpeg THEN "jpegWait" ELSE "readoutWait")
       /\ request' = [frameNumber |-> nextFrame, jpeg |-> jpeg]

RejectRequest ==
    \E hasSettings \in BOOLEAN :
       /\ callerPc = "idle"
       /\ StartRequest(hasSettings)
       /\ UNCHANGED <<callerPc, request>>

\* The call fails: the buffers of the request are neither returned nor deleted.
GiveUp(from) ==
    /\ Calls(from, "idle")
    /\ request' = NoRequest
    /\ UNCHANGED <<sensorVars, readoutVars>>
    /\ OnlyCaller

\* Wait for the compressor: 2000 is passed as the timeout, in nanoseconds.
AwaitJpeg ==
    /\ \/ WaitForDoneAtOnce /\ Calls("jpegWait", "readoutWait")
       \/ WaitForDoneBlock /\ Calls("jpegWait", "jpegBlocked")
       \/ WaitForDoneEnds("signalled") /\ Calls("jpegBlocked", "readoutWait")
    /\ UNCHANGED <<sensorVars, readoutVars, request>>
    /\ OnlyCaller

AwaitJpegTimeout == WaitForDoneEnds("waiting") /\ GiveUp("jpegBlocked")

\* waitForReadout: wait until the in-flight queue has room, or give up after
\* kMaxWaitLoops waits.
QueueRoomAtCap == Len(mInFlightQueue) <= kMaxQueueSize
QueueHasRoom   == Len(mInFlightQueue) < kMaxQueueSize

AwaitReadout ==
    /\ QueueHasRoom
    /\ Calls("readoutWait", "vsync")
    /\ UNCHANGED <<sensorVars, jpegVars, readoutVars, request>>
    /\ OnlyCaller

\* A variant: the wait has no timeout.
AwaitReadoutForever == FALSE

\* It is the one way on when the queue is full and the readout thread waits for
\* mLock, which the caller holds, in signalReadoutIdle.
AwaitReadoutTimeout ==
    /\ ~QueueHasRoom
    /\ GiveUp("readoutWait")
    /\ UNCHANGED jpegVars

\* The VSync loop: each wait lasts 10 ms at most, and 1000 of them may fail.
AwaitVSync ==
    /\ Calls("vsync", "vsyncBlocked")
    /\ BeginVSyncWait
    /\ UNCHANGED <<jpegVars, readoutVars, request>>
    /\ OnlyCaller

GotVSync ==
    /\ VSyncResult
    /\ Calls("vsyncBlocked", "exposure")
    /\ UNCHANGED <<sensorVars, jpegVars, readoutVars, request>>
    /\ OnlyCaller

VSyncTimeout ==
    /\ ~VSyncResult
    /\ \/ /\ Calls("vsyncBlocked", "vsync")
          /\ UNCHANGED <<sensorVars, readoutVars, request>>
          /\ OnlyCaller
       \/ GiveUp("vsyncBlocked")
    /\ UNCHANGED jpegVars

\* A variant: the buffers are set first, before the exposure that belongs to them.
ConfigureSensorBuffersFirst ==
    /\ \/ Calls("exposure", "buffers")    /\ SetDestinationBuffers(request.frameNumber)
       \/ Calls("buffers", "frameNumber") /\ SetExposure(request.frameNumber)
       \/ Calls("frameNumber", "queue")   /\ SetFrameNumber(request.frameNumber)
    /\ UNCHANGED <<jpegVars, readoutVars, request>>
    /\ OnlyCaller

\* Configure the sensor: each setter is a critical section of its own.
ConfigureSensor ==
    /\ \/ Calls("exposure", "buffers")    /\ SetExposure(request.frameNumber)
       \/ Calls("buffers", "frameNumber") /\ SetDestinationBuffers(request.frameNumber)
       \/ Calls("frameNumber", "queue")   /\ SetFrameNumber(request.frameNumber)
    /\ UNCHANGED <<jpegVars, readoutVars, request>>
    /\ OnlyCaller

\* Queue the request and cache its settings; mLock is released.
QueueRequest ==
    /\ Calls("queue", "idle")
    /\ QueueCaptureRequest(request)
    /\ request' = NoRequest
    /\ nextFrame' = nextFrame + 1
    /\ mPrevSettings' = TRUE
    /\ UNCHANGED <<sensorVars, jpegVars, mStatus>>

-----------------------------------------------------------------------------
(* closeCamera.                                                            *)

\* Everything the framework asked for has come back.
AllReturned == InFlight = <<>> /\ jpegPc # "compress"

CloseCamera ==
    /\ Calls("idle", "closing")
    /\ mStatus # "CLOSED"
    /\ Drained => AllReturned
    /\ SensorRequestExit
    /\ UNCHANGED <<jpegVars, readoutVars, request>>
    /\ OnlyCaller

\* The sensor thread has ended: mSensor is cleared and the readout thread asked
\* to exit. The caller leaves mLock, and joins the thread.
CloseSensorDown ==
    /\ Calls("closing", "joining")
    /\ sensorPc = "off"
    /\ ReadoutRequestExit
    /\ UNCHANGED <<sensorVars, jpegVars, request>>
    /\ OnlyCaller

\* The readout thread has ended: the streams and the thread object go.
CloseJoined ==
    /\ Calls("joining", "idle")
    /\ readoutPc = "off"
    /\ ReadoutDestroy
    /\ mStatus' = "CLOSED"
    /\ UNCHANGED <<sensorVars, mIsBusy, mBuffers, jpegDone, jpegPc, mPrevSettings,
                   request, nextFrame>>

-----------------------------------------------------------------------------
\* signalReadoutIdle, on the readout thread: under mLock, look again.
SignalReadoutIdle ==
    /\ ~MLockHeld
    /\ Moves("signalIdle", "send")
    /\ mStatus' = IF mStatus = "ACTIVE" /\ IsIdle THEN "READY" ELSE mStatus
    /\ UNCHANGED <<sensorVars, jpegVars, queueVars, listenerVars, mCurrentRequest,
                   jpegOutcome, takenBuffers, readoutExit, receivedVars, mPrevSettings,
                   callerPc, request, nextFrame>>

ReadoutStep ==
    /\ \/ ReadoutDequeue \/ ReadoutResume \/ ReadoutWaitForFrame \/ ReadoutNoFrame
       \/ ReadoutGotFrame \/ ReadoutProcessPlain \/ ReadoutJpegRefused
       \/ ReadoutJpegStarted \/ ReadoutCheckIdle \/ ReadoutSend \/ ReadoutThreadExit
    /\ UNCHANGED cameraVars

\* With prompt threads no VSync falls between two waits of the VSync loop.
SensorThread ==
    /\ Prompt /\ sensorPc = "latch" => callerPc # "vsync"
    /\ SensorStep
    /\ UNCHANGED <<jpegVars, readoutVars, cameraVars>>
JpegThread   == (OnJpegDone \/ JpegThreadStep) /\ UNCHANGED cameraVars

\* What the caller does inside a call that is under way.
CallerStep ==
    \/ AwaitJpeg \/ AwaitReadout \/ AwaitVSync \/ GotVSync
    \/ ConfigureSensor \/ QueueRequest \/ CloseSensorDown \/ CloseJoined

\* The end of a wait of the caller by its timeout.
CallerTimeout == AwaitJpegTimeout \/ AwaitReadoutTimeout \/ VSyncTimeout

Next ==
    \/ ConnectCamera \/ InitializeDevice \/ ConfigureStreams
    \/ ProcessCaptureRequest \/ RejectRequest \/ CloseCamera
    \/ CallerStep
    \/ CallerTimeout
    \/ SensorThread \/ ReadoutStep \/ SignalReadoutIdle \/ JpegThread

Spec == Init /\ [][Next]_vars

\* Threads that can run do, the sensor also when the VSync loop of the caller
\* holds it up for moments, and the readout thread gets mLock some day. A wait
\* that goes on ends by its timeout. Nothing makes the framework call.
Fairness ==
    /\ SF_vars(SensorThread)
    /\ WF_vars(ReadoutStep)
    /\ SF_vars(SignalReadoutIdle)
    /\ WF_vars(JpegThread)
    /\ WF_vars(CallerStep)
    /\ WF_vars(CallerTimeout)

FairSpec == Spec /\ Fairness

-----------------------------------------------------------------------------
(* Safety.                                                                 *)

\* The frame the readout thread holds was captured into the buffers of the very
\* request it is about to complete: nothing in the code compares the two
\* (EmulatedFakeCamera3::ReadoutThread::threadLoop).
FramesMatchRequests ==
    readoutPc \in {"process", "checkIdle", "signalIdle", "send"} =>
        takenBuffers = mCurrentRequest.frameNumber

\* setDestinationBuffers never replaces a buffer set the sensor has not latched:
\* that frame would never be captured, and every later result would be late by one.
NoBufferSetLost ==
    [][mNextBuffers' # mNextBuffers => mNextBuffers = NoBuffers \/ mNextBuffers' = NoBuffers]_vars

\* A frame is exposed with the exposure settings of its own request, whenever the
\* sensor latches between the separate setters of processCaptureRequest.
OwnExposure ==
    LatchedFrame # NoBuffers => latched.exposureTime = latched.buffers

\* The in-flight queue stays within kMaxQueueSize, although the caller looks at
\* its length long before it appends.
QueueBounded == Len(mInFlightQueue) <= kMaxQueueSize

\* READY, the status in which streams may be reconfigured, is never reached with
\* a request queued or in the hands of the readout thread.
ReadyMeansIdle ==
    mStatus = "READY" =>
        mInFlightQueue = <<>> /\ readoutPc \in {"off", "loop", "send"}

\* A JPEG buffer goes back to the framework once: the compressor is not at work
\* for a frame whose buffer has been returned, nor is it returned with an error
\* in a result when the compressor has it or has returned it.
JpegReturnedOnce ==
    /\ jpegPc = "compress" => mJpegFrameNumber = mBuffers /\ mBuffers \notin jpegReturned
    /\ readoutPc = "send" /\ jpegOutcome = "error" =>
          /\ mCurrentRequest.frameNumber \notin jpegReturned
          /\ jpegPc = "compress" => mJpegFrameNumber # mCurrentRequest.frameNumber

\* The buffer set that start() deleted when it could not run its thread: the
\* compressor stays busy with it, and no thread is at work.
FailedStart == IF mIsBusy /\ jpegPc \notin {"compress", "cleanUp"} THEN {mBuffers} ELSE {}

\* No buffer set is used once it has been deleted, by the sensor that fills it or
\* by the compressor, nor does the readout thread delete one again: but for the set
\* of a start() that failed, which both delete (JpegCompressor.cpp:68,
\* EmulatedFakeCamera3.cpp:2002).
NoUseAfterFree ==
    /\ LatchedFrame \notin freed
    /\ jpegPc \in {"compress", "cleanUp"} => mBuffers \notin freed
    /\ readoutPc = "send" => BuffersToDelete \cap freed \subseteq FailedStart

-----------------------------------------------------------------------------
(* Liveness.                                                               *)

\* The results catch up with the requests accepted, when the framework asks for
\* no more for a while: with results in order, every request gets its own.
RequestsComplete == Len(results) < nextFrame - 1 ~> Len(results) = nextFrame - 1

\* Every JPEG buffer the readout thread takes up comes back, compressed or not.
JpegsReturn ==
    \A n \in JpegFrames :
        (mCurrentRequest.frameNumber = n /\ mCurrentRequest.jpeg) ~> (n \in jpegReturned)

\* closeCamera returns: the threads it waits for with mLock held do end.
CloseReturns == (callerPc = "closing") ~> (callerPc = "idle")

\* A sensor thread that waits for the readout thread to catch up goes on.
SensorNotStuck == (sensorPc = "readoutWait") ~> (sensorPc # "readoutWait")

-----------------------------------------------------------------------------
\* The camera as a capture service: the requests in flight and the results sent.
Service == 
    INSTANCE CaptureService
        WITH Numbers <- 1..MaxFrame, pending <- InFlight, completed <- results

\* Requests complete one at a time, in the order in which they were queued.
CapturesInOrder == Service!Spec
=============================================================================
