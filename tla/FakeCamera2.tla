----------------------------- MODULE FakeCamera2 -----------------------------
(***************************************************************************)
(* The version 2 emulated camera: camera/EmulatedFakeCamera2.cpp, with the *)
(* sensor and the JPEG compressor it shares with version 3.                *)
(*                                                                         *)
(* The framework puts requests into a queue of its own.  The configure     *)
(* thread takes them from there, waits for the pipeline and programs the   *)
(* sensor; the readout thread waits for the frames and starts the          *)
(* compressor; the framework, on its own thread, releases streams, asks    *)
(* how much is in progress and closes the camera.                          *)
(*                                                                         *)
(* Each thread has mInternalsMutex for what it works on and mInputMutex    *)
(* for what others give it; mMutex is the camera's.  A mutex held from one *)
(* step to another is a variable that names its holder; one that is taken  *)
(* and given back within a step shows in the guard only.                   *)
(*                                                                         *)
(* Requests are numbered in the order in which the framework queues them,  *)
(* and a Buffers pointer is the number of its request.  The model is of    *)
(* one session, from the end of connectCamera to the end of closeCamera.   *)
(***************************************************************************)
EXTENDS Sensor, JpegCompressor, Sequences

CONSTANTS
    kInFlightQueueSize,  \* slots of the in-flight queue, one of which stays empty
    MaxOperations        \* bound: what the framework does: requests queued, streams
                         \* released, counts asked for, the camera closed

ASSUME FakeCamera2Assumption ==
    /\ kInFlightQueueSize \in Nat \ {0, 1}
    /\ MaxOperations \in Nat

VARIABLES
    mMutex, configureInternals, readoutInternals, readoutInput,   \* the mutexes
    \* the framework
    requestQueue, kinds,     \* requests not taken yet; what each request asks for
    notifyDue,               \* a request came into an empty queue: the HAL is to hear of it
    streams,                 \* mStreams
    frameworkPc, streamId, total, counted, calls,
    results,                              \* the requests that came back, in order
    \* the configure thread
    configurePc, configureActive, configureRequest, nextBuffersMade, configureCount,
    mWaitingForReadout, mNextNeedsJpeg,
    \* the readout thread
    readoutPc, readoutActive, readoutRequest, readoutBuffers, readoutCount,
    mInFlightQueue, takenBuffers, dropped,
    \* the compressor: the call it makes of its listener, its member mFoundAux
    jpegCall, mFoundAux,
    exitPending              \* the threads have been asked to exit

mutexes       == <<mMutex, configureInternals, readoutInternals, readoutInput>>
callVars      == <<streams, frameworkPc, streamId, total, counted, calls>>
queueVars     == <<requestQueue, kinds, notifyDue>>
configureVars == <<configurePc, configureActive, configureRequest, nextBuffersMade,
                   configureCount, mWaitingForReadout, mNextNeedsJpeg>>
readoutVars   == <<readoutPc, readoutActive, readoutRequest, readoutBuffers, readoutCount,
                   mInFlightQueue, takenBuffers, dropped>>
listenerVars  == <<jpegCall, mFoundAux>>
vars == <<sensorVars, jpegVars, mutexes, callVars, queueVars, results, configureVars,
          readoutVars, listenerVars, exitPending>>

\* A request: a preview; a preview and a JPEG; a JPEG of a buffer that is there already;
\* one with a stream that has no concrete format, which stops the configure thread.
Kinds == {"preview", "still", "reprocess", "bad"}
IsCapture(r) == kinds[r] # "reprocess"
HasJpeg(r)   == kinds[r] \in {"still", "reprocess"}
StreamsOf(r) == (IF HasJpeg(r) THEN {"jpeg"} ELSE {}) \cup
                (IF IsCapture(r) THEN {"preview"} ELSE {})
Numbers == 1..MaxOperations
None == 0
Upto == 0..MaxOperations

TypeOK ==
    /\ SensorTypeOK /\ JpegTypeOK
    /\ mMutex \in {"none", "framework"} /\ configureInternals \in {"none", "configure", "framework"}
    /\ readoutInternals \in {"none", "readout", "framework"}
    /\ readoutInput \in {"none", "readout"}
    /\ requestQueue \in Seq(Numbers) /\ kinds \in Seq(Kinds)
    /\ notifyDue \in BOOLEAN
    /\ streams \subseteq {"preview", "jpeg"} /\ streamId \in {"none", "preview", "jpeg"}
    /\ frameworkPc \in {"idle", "inConfigure", "inReadout", "inReadoutInput", "inJpeg",
                        "countReadout", "countJpeg", "counted",
                        "sensorExit", "jpegExit", "joining", "closed"}
    /\ total \in Nat /\ counted \subseteq Numbers /\ calls \in 0..MaxOperations
    /\ results \in Seq(Numbers)
    /\ configurePc \in {"loop", "empty", "dequeued", "setup", "wait", "vsync", "exposure",
                        "buffers", "operation", "done", "off"}
    /\ configureActive \in BOOLEAN /\ configureRequest \in Upto
    /\ nextBuffersMade \in BOOLEAN /\ configureCount \in Nat
    /\ mWaitingForReadout \in BOOLEAN /\ mNextNeedsJpeg \in BOOLEAN
    /\ readoutPc \in {"loop", "take", "frame", "process", "streams", "start", "count",
                      "failed", "off"}
    /\ readoutActive \in BOOLEAN
    /\ readoutRequest \in Upto /\ readoutBuffers \in Upto /\ takenBuffers \in Upto
    /\ readoutCount \in Nat
    /\ mInFlightQueue \in Seq(Numbers) /\ Len(mInFlightQueue) < kInFlightQueueSize
    /\ dropped \subseteq Numbers
    /\ jpegCall \in {"none", "onJpegDone", "onJpegInputDone"} /\ mFoundAux \in BOOLEAN
    /\ exitPending \in BOOLEAN

\* The end of connectCamera: the threads run. mWaitingForReadout and mFoundAux are not
\* initialised by any constructor.
Init ==
    /\ mGotVSync = FALSE /\ mExposureTime = 0 /\ mNextBuffers = NoBuffers /\ mFrameNumber = 0
    /\ mCapturedBuffers = NoBuffers /\ readoutAvailable = "none" /\ sensorPc = "latch"
    /\ latched = NoLatch /\ mNextCapturedBuffers = NoBuffers /\ sensorExit = FALSE
    /\ JpegInit /\ jpegCall = "none" /\ mFoundAux \in BOOLEAN
    /\ mMutex = "none" /\ configureInternals = "none"
    /\ readoutInternals = "none" /\ readoutInput = "none"
    /\ requestQueue = <<>> /\ kinds = <<>> /\ notifyDue = FALSE
    /\ streams = {"preview", "jpeg"} /\ streamId = "none" /\ frameworkPc = "idle"
    /\ total = 0 /\ counted = {} /\ calls = 0
    /\ results = <<>>
    /\ configurePc = "loop" /\ configureActive = FALSE /\ configureRequest = None
    /\ nextBuffersMade = FALSE /\ configureCount = 0
    /\ mWaitingForReadout \in BOOLEAN /\ mNextNeedsJpeg = FALSE
    /\ readoutPc = "loop" /\ readoutActive = FALSE /\ readoutRequest = None
    /\ readoutBuffers = None /\ readoutCount = 0
    /\ mInFlightQueue = <<>> /\ takenBuffers = None /\ dropped = {}
    /\ exitPending = FALSE

ConfigureMoves(from, to) == configurePc = from /\ configurePc' = to
ReadoutMoves(from, to)   == readoutPc = from /\ readoutPc' = to
FrameworkMoves(from, to) == frameworkPc = from /\ frameworkPc' = to

\* getStreamInfo and getReprocessStreamInfo take the camera's mutex for a moment.
GetStreamInfo == mMutex = "none"

-----------------------------------------------------------------------------
(* The configure thread.                                                   *)

NotConfigure == UNCHANGED <<sensorVars, jpegVars, callVars, results, readoutVars,
                            listenerVars, exitPending, mMutex, readoutInternals, readoutInput>>

\* The queue of requests is looked at with mInternalsMutex held.
ConfigureDequeue ==
    /\ ~exitPending /\ configureActive /\ configureRequest = None
    /\ configureInternals = "none" /\ configureInternals' = "configure"
    /\ \/ /\ requestQueue = <<>> /\ ConfigureMoves("loop", "empty")
          /\ UNCHANGED <<requestQueue, configureRequest>>
       \/ /\ requestQueue # <<>> /\ ConfigureMoves("loop", "dequeued")
          /\ configureRequest' = Head(requestQueue) /\ requestQueue' = Tail(requestQueue)
    /\ UNCHANGED <<kinds, notifyDue, configureActive, nextBuffersMade, configureCount,
                   mWaitingForReadout, mNextNeedsJpeg>>
    /\ NotConfigure

\* There was none. A notification since then is lost.
ConfigureGoInactive ==
    /\ ConfigureMoves("empty", "loop")
    /\ configureActive' = FALSE
    /\ configureInternals' = "none"
    /\ UNCHANGED <<queueVars, configureRequest, nextBuffersMade, configureCount,
                   mWaitingForReadout, mNextNeedsJpeg>>
    /\ NotConfigure

ConfigureCountRequest ==
    /\ ConfigureMoves("dequeued", "setup")
    /\ configureCount' = configureCount + 1
    /\ UNCHANGED <<queueVars, configureInternals, configureActive, configureRequest,
                   nextBuffersMade, mWaitingForReadout, mNextNeedsJpeg>>
    /\ NotConfigure

\* setupCapture and setupReprocess; only the first waits for the readout thread.
WaitsAsBefore(r)   == mWaitingForReadout
WaitsForReadout(r) == IsCapture(r) \/ mWaitingForReadout

ConfigureSetup ==
    /\ configurePc = "setup" /\ GetStreamInfo
    /\ configureInternals' = "none"
    /\ nextBuffersMade' = TRUE
    /\ IF kinds[configureRequest] = "bad"
       THEN /\ configurePc' = "off"
            /\ UNCHANGED <<mWaitingForReadout, mNextNeedsJpeg>>
       ELSE /\ configurePc' = "wait"
            /\ mWaitingForReadout' = WaitsForReadout(configureRequest)
            /\ mNextNeedsJpeg' = HasJpeg(configureRequest)
    /\ UNCHANGED <<queueVars, configureActive, configureRequest, configureCount>>
    /\ NotConfigure

\* waitForReady: the in-flight queue has room. The timeout only repeats the wait.
InFlightRoomAtCap == Len(mInFlightQueue) <= kInFlightQueueSize - 1
ReadyForNextCapture == Len(mInFlightQueue) < kInFlightQueueSize - 1

ConfigureAwaitReadout ==
    /\ configurePc = "wait" /\ mWaitingForReadout
    /\ readoutInput = "none" /\ ReadyForNextCapture
    /\ mWaitingForReadout' = FALSE
    /\ UNCHANGED <<queueVars, configureInternals, configurePc, configureActive,
                   configureRequest, nextBuffersMade, configureCount, mNextNeedsJpeg>>
    /\ NotConfigure

\* waitForDone takes mBusyMutex, which cleanUp holds as it calls the listener.
BusyMutexFree == jpegCall # "onJpegInputDone"

ConfigureAwaitJpeg ==
    /\ configurePc = "wait" /\ ~mWaitingForReadout /\ mNextNeedsJpeg
    /\ BusyMutexFree
    /\ \/ (WaitForDoneAtOnce \/ WaitForDoneEnds("signalled")) /\ mNextNeedsJpeg' = FALSE
       \/ (WaitForDoneBlock \/ WaitForDoneEnds("waiting")) /\ UNCHANGED mNextNeedsJpeg
    /\ UNCHANGED <<sensorVars, mutexes, callVars, queueVars, results, configurePc,
                   configureActive, configureRequest, nextBuffersMade, configureCount,
                   mWaitingForReadout, readoutVars, listenerVars, exitPending>>

ReadyToConfigure == configurePc = "wait" /\ ~mWaitingForReadout /\ ~mNextNeedsJpeg

\* configureNextCapture: waitForVSync, then the sensor and the next operation.
ConfigureBeginVSync ==
    /\ ReadyToConfigure /\ IsCapture(configureRequest)
    /\ ConfigureMoves("wait", "vsync")
    /\ BeginVSyncWait
    /\ UNCHANGED <<jpegVars, mutexes, callVars, queueVars, results, configureActive,
                   configureRequest, nextBuffersMade, configureCount, mWaitingForReadout,
                   mNextNeedsJpeg, readoutVars, listenerVars, exitPending>>

ConfigureVSync ==
    /\ \/ /\ VSyncResult /\ ConfigureMoves("vsync", "exposure")
          /\ configureInternals = "none" /\ configureInternals' = "configure"
       \/ ~VSyncResult /\ ConfigureMoves("vsync", "wait") /\ UNCHANGED configureInternals
    /\ UNCHANGED <<queueVars, configureActive, configureRequest, nextBuffersMade,
                   configureCount, mWaitingForReadout, mNextNeedsJpeg>>
    /\ NotConfigure

ConfigureExposure ==
    /\ ConfigureMoves("exposure", "buffers")
    /\ SetExposure(configureRequest)
    /\ UNCHANGED <<jpegVars, mutexes, callVars, queueVars, results, configureActive,
                   configureRequest, nextBuffersMade, configureCount, mWaitingForReadout,
                   mNextNeedsJpeg, readoutVars, listenerVars, exitPending>>

\* configureNextReprocess needs no VSync.
ConfigureReprocess ==
    /\ ReadyToConfigure /\ ~IsCapture(configureRequest)
    /\ ConfigureMoves("wait", "buffers")
    /\ configureInternals = "none" /\ configureInternals' = "configure"
    /\ UNCHANGED <<queueVars, configureActive, configureRequest, nextBuffersMade,
                   configureCount, mWaitingForReadout, mNextNeedsJpeg>>
    /\ NotConfigure

ConfigureGetBuffers ==
    /\ ConfigureMoves("buffers", "operation")
    /\ GetStreamInfo
    /\ UNCHANGED <<queueVars, configureInternals, configureActive, configureRequest,
                   nextBuffersMade, configureCount, mWaitingForReadout, mNextNeedsJpeg>>
    /\ NotConfigure

\* setNextOperation: with the in-flight queue full the request is dropped.
SetNextOperation ==
    /\ ConfigureMoves("operation", "done")
    /\ readoutInput = "none"
    /\ IF ReadyForNextCapture
       THEN /\ mInFlightQueue' = Append(mInFlightQueue, configureRequest)
            /\ readoutCount' = readoutCount + 1
            /\ readoutActive' = TRUE
            /\ UNCHANGED dropped
       ELSE /\ dropped' = dropped \cup {configureRequest}
            /\ UNCHANGED <<mInFlightQueue, readoutCount, readoutActive>>
    /\ UNCHANGED <<sensorVars, jpegVars, mutexes, callVars, queueVars, results,
                   configureActive, configureRequest, nextBuffersMade, configureCount,
                   mWaitingForReadout, mNextNeedsJpeg, readoutPc, readoutRequest,
                   readoutBuffers, takenBuffers, listenerVars, exitPending>>

\* The last of configureNextCapture and configureNextReprocess.
ConfigureDone ==
    /\ ConfigureMoves("done", "loop")
    /\ IF IsCapture(configureRequest) THEN SetDestinationBuffers(configureRequest)
                                      ELSE UNCHANGED sensorVars
    /\ configureRequest' = None
    /\ nextBuffersMade' = FALSE
    /\ configureCount' = configureCount - 1
    /\ configureInternals' = "none"
    /\ UNCHANGED <<jpegVars, callVars, queueVars, results, mMutex, readoutInternals,
                   readoutInput, configureActive, mWaitingForReadout, mNextNeedsJpeg,
                   readoutVars, listenerVars, exitPending>>

\* Thread::_threadLoop leaves between two rounds, each wait being one.
ConfigureExit ==
    /\ exitPending /\ jpegDone = "none"
    /\ ConfigureMoves("loop", "off") \/ ConfigureMoves("wait", "off")
    /\ UNCHANGED <<queueVars, configureInternals, configureActive, configureRequest,
                   nextBuffersMade, configureCount, mWaitingForReadout, mNextNeedsJpeg>>
    /\ NotConfigure

ConfigureStep ==
    \/ ConfigureDequeue \/ ConfigureGoInactive \/ ConfigureCountRequest \/ ConfigureSetup
    \/ ConfigureAwaitReadout \/ ConfigureAwaitJpeg \/ ConfigureBeginVSync \/ ConfigureVSync
    \/ ConfigureExposure \/ ConfigureReprocess \/ ConfigureGetBuffers \/ SetNextOperation
    \/ ConfigureDone \/ ConfigureExit

-----------------------------------------------------------------------------
(* The readout thread.                                                     *)

NotReadout == UNCHANGED <<callVars, queueVars, configureVars, exitPending, mMutex,
                          configureInternals, mFoundAux, jpegCall>>

AfterTake(r) == IF IsCapture(r) THEN "frame" ELSE "process"

\* Active, with no request: with none queued the thread goes inactive at once.
ReadoutGoInactive ==
    /\ readoutPc = "loop" /\ readoutActive /\ readoutRequest = None
    /\ readoutInput = "none" /\ mInFlightQueue = <<>>
    /\ readoutActive' = FALSE
    /\ UNCHANGED <<sensorVars, jpegVars, mutexes, results, readoutPc, readoutRequest,
                   readoutBuffers, readoutCount, mInFlightQueue, takenBuffers, dropped>>
    /\ NotReadout

\* Otherwise it keeps mInputMutex as it waits for its own mInternalsMutex ...
ReadoutInputFirst ==
    /\ ~exitPending /\ readoutActive /\ readoutRequest = None
    /\ mInFlightQueue # <<>>
    /\ ReadoutMoves("loop", "take")
    /\ readoutInput = "none" /\ readoutInput' = "readout"
    /\ UNCHANGED <<sensorVars, jpegVars, readoutInternals, results, readoutActive,
                   readoutRequest, readoutBuffers, readoutCount, mInFlightQueue,
                   takenBuffers, dropped>>
    /\ NotReadout

\* ... and takes the request at the head of the queue.
ReadoutTake ==
    /\ readoutPc = "take" /\ readoutInternals = "none"
    /\ readoutRequest' = Head(mInFlightQueue)
    /\ readoutBuffers' = Head(mInFlightQueue)
    /\ mInFlightQueue' = Tail(mInFlightQueue)
    /\ readoutPc' = AfterTake(Head(mInFlightQueue))
    /\ readoutInput' = "none"
    /\ UNCHANGED <<sensorVars, jpegVars, readoutInternals, results, readoutActive,
                   readoutCount, takenBuffers, dropped>>
    /\ NotReadout

\* A round with a request whose frame has not come yet.
ReadoutResume ==
    /\ readoutPc = "loop" /\ readoutRequest # None
    /\ ~exitPending /\ readoutInput = "none"
    /\ readoutPc' = AfterTake(readoutRequest)
    /\ UNCHANGED <<sensorVars, jpegVars, mutexes, results, readoutActive, readoutRequest,
                   readoutBuffers, readoutCount, mInFlightQueue, takenBuffers, dropped>>
    /\ NotReadout

ReadoutAwaitFrame ==
    /\ readoutPc = "frame"
    /\ \/ NewFrameBlock /\ UNCHANGED <<readoutPc, takenBuffers>>
       \/ NewFrameTimeout /\ readoutPc' = "loop" /\ UNCHANGED takenBuffers
       \/ /\ NewFrameAtOnce \/ NewFrameWoken
          /\ readoutPc' = "process" /\ takenBuffers' = mCapturedBuffers
    /\ UNCHANGED <<jpegVars, mutexes, results, readoutActive, readoutRequest,
                   readoutBuffers, readoutCount, mInFlightQueue, dropped>>
    /\ NotReadout

\* With mInternalsMutex held to the end of the round: the result goes to the framework and
\* the request back to it ...
ReadoutProcess ==
    /\ readoutInternals = "none" /\ readoutInternals' = "readout"
    /\ ReadoutMoves("process", "streams")
    /\ results' = Append(results, readoutRequest)
    /\ readoutRequest' = None
    /\ UNCHANGED <<sensorVars, jpegVars, readoutInput, readoutActive, readoutBuffers,
                   readoutCount, mInFlightQueue, takenBuffers, dropped>>
    /\ NotReadout

\* ... or the thread ends with the request in its hands: without the metadata it needs,
\* without a frame of the framework, or because the framework does not take the request back.
ReadoutFails ==
    /\ readoutInternals = "none"
    /\ ReadoutMoves("process", "failed")
    /\ UNCHANGED <<sensorVars, jpegVars, mutexes, results, readoutActive, readoutRequest,
                   readoutBuffers, readoutCount, mInFlightQueue, takenBuffers, dropped>>
    /\ NotReadout

\* ... the image buffers to their streams ...
ReadoutStreams ==
    /\ ReadoutMoves("streams", "start")
    /\ IsCapture(readoutBuffers) => GetStreamInfo
    /\ UNCHANGED <<sensorVars, jpegVars, mutexes, results, readoutActive,
                   readoutRequest, readoutBuffers, readoutCount, mInFlightQueue,
                   takenBuffers, dropped>>
    /\ NotReadout

\* ... and a JPEG buffer to the compressor, whatever that answers.
ReadoutStart ==
    /\ ReadoutMoves("start", "count")
    /\ IF HasJpeg(readoutBuffers)
       THEN /\ BusyMutexFree
            /\ Started(readoutBuffers) \/ StartRefused \/ StartFailed(readoutBuffers)
       ELSE Free({readoutBuffers}) /\ UNCHANGED <<mIsBusy, mBuffers, jpegDone, jpegPc>>
    /\ readoutBuffers' = None
    /\ UNCHANGED <<sensorVars, mutexes, results, readoutActive, readoutRequest,
                   readoutCount, mInFlightQueue, takenBuffers, dropped>>
    /\ NotReadout

ReadoutCountDone ==
    /\ ReadoutMoves("count", "loop")
    /\ readoutInput = "none"
    /\ readoutCount' = readoutCount - 1
    /\ readoutInternals' = "none"
    /\ UNCHANGED <<sensorVars, jpegVars, readoutInput, results, readoutActive,
                   readoutRequest, readoutBuffers, mInFlightQueue, takenBuffers, dropped>>
    /\ NotReadout

ReadoutExit ==
    /\ exitPending /\ ReadoutMoves("loop", "off")
    /\ UNCHANGED <<sensorVars, jpegVars, mutexes, results, readoutActive, readoutRequest,
                   readoutBuffers, readoutCount, mInFlightQueue, takenBuffers, dropped>>
    /\ NotReadout

ReadoutStep ==
    \/ ReadoutGoInactive \/ ReadoutInputFirst \/ ReadoutTake \/ ReadoutResume
    \/ ReadoutAwaitFrame \/ ReadoutProcess \/ ReadoutFails \/ ReadoutStreams
    \/ ReadoutStart \/ ReadoutCountDone \/ ReadoutExit

-----------------------------------------------------------------------------
(* The compression thread and its listener.                                *)

NotJpeg == UNCHANGED <<sensorVars, mutexes, callVars, queueVars, configureVars, readoutVars,
                       mFoundAux, exitPending>>

\* compress() ends: done, or cut short by a cancel.
JpegCompressed ==
    /\ jpegPc = "compress" /\ jpegCall = "none"
    /\ jpegCall' = "onJpegDone"
    /\ UNCHANGED <<jpegVars, results>>
    /\ NotJpeg

JpegCancelled ==
    /\ exitPending /\ jpegCall = "none"
    /\ Compress
    /\ UNCHANGED <<results, jpegCall>>
    /\ NotJpeg

OnJpegDone ==
    /\ jpegCall = "onJpegDone" /\ jpegCall' = "none"
    /\ GetStreamInfo
    /\ Compress
    /\ UNCHANGED results
    /\ NotJpeg

\* cleanUp: the buffer that was read is let go, if mFoundAux happens to be set: nothing
\* sets it, a local variable of compress() has its name.
HasInput(b) == mFoundAux /\ ~IsCapture(b)

CleanUp ==
    /\ jpegCall = "none" /\ jpegPc = "cleanUp"
    /\ IF HasInput(mBuffers)
       THEN jpegCall' = "onJpegInputDone" /\ UNCHANGED jpegVars
       ELSE JpegCleanUp /\ UNCHANGED jpegCall
    /\ UNCHANGED results
    /\ NotJpeg

OnJpegInputDone ==
    /\ jpegCall = "onJpegInputDone" /\ jpegCall' = "none"
    /\ GetStreamInfo
    /\ JpegCleanUp
    /\ UNCHANGED results
    /\ NotJpeg

JpegEnds == JpegThreadExit /\ UNCHANGED <<results, jpegCall>> /\ NotJpeg

JpegStep ==
    \/ JpegCompressed \/ JpegCancelled \/ OnJpegDone \/ CleanUp \/ OnJpegInputDone
    \/ JpegEnds

-----------------------------------------------------------------------------
(* The framework.                                                          *)

OnlyFramework == UNCHANGED <<jpegVars, results, configureRequest, configurePc,
                             nextBuffersMade, configureCount, mWaitingForReadout,
                             mNextNeedsJpeg, readoutVars, listenerVars>>

WithinBound == Len(kinds) + calls < MaxOperations

\* A request is put into the framework's queue, for the streams there are. None follows
\* one that stops the configure thread.
Enqueue(kind) ==
    /\ frameworkPc = "idle" /\ WithinBound
    /\ streams = {"preview", "jpeg"} /\ \A r \in 1..Len(kinds) : kinds[r] # "bad"
    /\ kinds' = Append(kinds, kind)
    /\ requestQueue' = Append(requestQueue, Len(kinds) + 1)
    /\ notifyDue' = (notifyDue \/ requestQueue = <<>>)
    /\ UNCHANGED <<sensorVars, mutexes, callVars, configureActive, exitPending>>
    /\ OnlyFramework

\* requestQueueNotify.
RequestQueueNotify ==
    /\ frameworkPc = "idle" /\ notifyDue /\ notifyDue' = FALSE
    /\ configureActive' = TRUE
    /\ UNCHANGED <<sensorVars, mutexes, callVars, requestQueue, kinds, exitPending>>
    /\ OnlyFramework

Call(from, to) ==
    /\ FrameworkMoves(from, to)
    /\ UNCHANGED <<queueVars, configureActive>>
    /\ OnlyFramework

BeginCall(to) ==
    /\ Call("idle", to)
    /\ mMutex = "none" /\ mMutex' = "framework"
    /\ WithinBound /\ calls' = calls + 1
    /\ UNCHANGED <<sensorVars, configureInternals, readoutInternals, readoutInput, exitPending>>

\* releaseStream: the framework has no request with the stream in its queue.
BeginReleaseStream(s) ==
    /\ BeginCall("inConfigure")
    /\ s \in streams /\ requestQueue = <<>>
    /\ streamId' = s
    /\ UNCHANGED <<streams, total, counted>>

InUse(b) == b # None /\ streamId \in StreamsOf(b)

\* The stream is in use: the call ends.
StillInUse(from) ==
    /\ Call(from, "idle")
    /\ mMutex' = "none" /\ streamId' = "none"
    /\ UNCHANGED <<sensorVars, streams, total, counted, calls, configureInternals,
                   readoutInput, exitPending>>

\* The three parts of isStreamInUse, in the order in which a request goes through them.
ConfigureNotAsked == TRUE
ConfigureDoesNotUse == ~(nextBuffersMade /\ InUse(configureRequest))

InConfigure ==
    /\ configureInternals = "none"
    /\ \/ /\ ~ConfigureDoesNotUse
          /\ StillInUse("inConfigure") /\ UNCHANGED readoutInternals
       \/ /\ ConfigureDoesNotUse /\ Call("inConfigure", "inReadout")
          /\ UNCHANGED <<sensorVars, mutexes, streams, streamId, total, counted, calls,
                         exitPending>>

\* The readout thread's, mInternalsMutex first.
InReadout ==
    /\ Call("inReadout", "inReadoutInput")
    /\ readoutInternals = "none" /\ readoutInternals' = "framework"
    /\ UNCHANGED <<sensorVars, mMutex, configureInternals, readoutInput, streams, streamId,
                   total, counted, calls, exitPending>>

InReadoutInput ==
    /\ readoutInput = "none"
    /\ readoutInternals' = "none"
    /\ IF \/ \E i \in 1..Len(mInFlightQueue) : InUse(mInFlightQueue[i])
          \/ InUse(readoutBuffers)
       THEN StillInUse("inReadoutInput")
       ELSE /\ Call("inReadoutInput", "inJpeg")
            /\ UNCHANGED <<sensorVars, mMutex, configureInternals, readoutInput, streams,
                           streamId, total, counted, calls, exitPending>>

InJpeg ==
    /\ BusyMutexFree
    /\ IF mIsBusy /\ InUse(mBuffers)
       THEN StillInUse("inJpeg") /\ UNCHANGED readoutInternals
       ELSE /\ Call("inJpeg", "idle")
            /\ streams' = streams \ {streamId} /\ streamId' = "none"
            /\ mMutex' = "none"
            /\ UNCHANGED <<sensorVars, configureInternals, readoutInternals, readoutInput,
                           total, counted, calls, exitPending>>

\* What is between the count of the configure thread and its end.
Working ==
    (IF configureRequest # None /\ configurePc \notin {"dequeued"} THEN {configureRequest} ELSE {})
        \cup {mInFlightQueue[i] : i \in 1..Len(mInFlightQueue)}
        \cup ({readoutRequest, readoutBuffers} \ {None})
        \cup (IF mIsBusy THEN {mBuffers} ELSE {})

\* The counts of getInProgressCount, from the first thread to the last.
InProgressBackwards(i) == <<IF mIsBusy THEN 1 ELSE 0, readoutCount, configureCount>>[i]
InProgress(i)          == <<configureCount, readoutCount, IF mIsBusy THEN 1 ELSE 0>>[i]

\* getInProgressCount: three counts, one after the other. counted is what is under way as
\* the first one is taken.
CountConfigure ==
    /\ BeginCall("countReadout")
    /\ total' = InProgress(1)
    /\ counted' = Working
    /\ UNCHANGED <<streams, streamId>>

CountReadout ==
    /\ Call("countReadout", "countJpeg")
    /\ readoutInput = "none"
    /\ total' = total + InProgress(2)
    /\ UNCHANGED <<sensorVars, mutexes, streams, streamId, counted, calls, exitPending>>

CountJpeg ==
    /\ Call("countJpeg", "counted")
    /\ BusyMutexFree
    /\ total' = total + InProgress(3)
    /\ UNCHANGED <<sensorVars, mutexes, streams, streamId, counted, calls, exitPending>>

EndCount ==
    /\ Call("counted", "idle")
    /\ mMutex' = "none"
    /\ total' = 0 /\ counted' = {}
    /\ UNCHANGED <<sensorVars, configureInternals, readoutInternals, readoutInput, streams,
                   streamId, calls, exitPending>>

\* closeCamera: with mMutex held, the sensor's thread is waited for ...
BeginClose ==
    /\ Call("idle", "sensorExit")
    /\ mMutex = "none" /\ mMutex' = "framework"
    /\ WithinBound /\ calls' = calls + 1
    /\ SensorRequestExit
    /\ UNCHANGED <<configureInternals, readoutInternals, readoutInput, streams, streamId,
                   total, counted, exitPending>>

\* ... the other threads are asked to exit ...
CloseRequestExit ==
    /\ Call("sensorExit", "jpegExit")
    /\ sensorPc = "off"
    /\ exitPending' = TRUE
    /\ UNCHANGED <<sensorVars, mutexes, streams, streamId, total, counted, calls>>

\* ... and the compressor's waited for. Then mMutex is given up ...
CloseUnlock ==
    /\ Call("jpegExit", "joining")
    /\ jpegPc = "off"
    /\ mMutex' = "none"
    /\ UNCHANGED <<sensorVars, configureInternals, readoutInternals, readoutInput, streams,
                   streamId, total, counted, calls, exitPending>>

\* ... and the threads are joined.
CloseJoined ==
    /\ Call("joining", "closed")
    /\ configurePc = "off" /\ readoutPc \in {"failed", "off"}
    /\ UNCHANGED <<sensorVars, mutexes, streams, streamId, total, counted, calls, exitPending>>

FrameworkStep ==
    \/ \E k \in Kinds : Enqueue(k)
    \/ RequestQueueNotify
    \/ \E s \in {"preview", "jpeg"} : BeginReleaseStream(s)
    \/ InConfigure \/ InReadout \/ InReadoutInput \/ InJpeg
    \/ CountConfigure \/ CountReadout \/ CountJpeg \/ EndCount
    \/ BeginClose \/ CloseRequestExit \/ CloseUnlock \/ CloseJoined

SensorThread == SensorStep /\ UNCHANGED <<jpegVars, mutexes, callVars, queueVars, results,
                                configureVars, readoutVars, listenerVars, exitPending>>

Next == ConfigureStep \/ ReadoutStep \/ JpegStep \/ SensorThread \/ FrameworkStep

Spec == Init /\ [][Next]_vars

-----------------------------------------------------------------------------
(* Properties.                                                             *)

\* The request in the readout thread is completed with the frame that was captured into
\* its own buffers, though reprocess requests pass between the captures and nothing ties
\* a frame to a request but their order.
FramesMatchRequests ==
    readoutPc = "process" /\ IsCapture(readoutRequest) => takenBuffers = readoutBuffers

\* Requests stay in their order and none is lost between the framework's queue and the
\* results, but for reprocess requests, which do not wait for room in the in-flight queue.
Queued == configurePc = "done"
One(r) == IF r = None THEN <<>> ELSE <<r>>
Line == results \o One(readoutRequest) \o mInFlightQueue
            \o (IF Queued THEN <<>> ELSE One(configureRequest)) \o requestQueue
CapturesKept ==
    /\ \A i, j \in 1..Len(Line) : i < j => Line[i] < Line[j]
    /\ \A r \in 1..Len(kinds) : \/ \E i \in 1..Len(Line) : Line[i] = r
                                \/ r \in dropped /\ kinds[r] = "reprocess"

\* getInProgressCount answers 0 only when all that was under way as it began has ended:
\* a request that goes from one thread to the next between two of its looks is not missed.
CountNotShort == frameworkPc = "counted" /\ total = 0 => Working \cap counted = {}

\* A stream that has been released is not in the buffers of any request under way: the
\* threads are asked in the order in which requests go through them.
ReleasedUnused ==
    \A r \in Working : kinds[r] # "bad" /\ (r = configureRequest => nextBuffersMade)
                            => StreamsOf(r) \subseteq streams

\* isStreamInUse "acquires in same order as threadLoop" the two mutexes of the readout
\* thread: neither of the two calls waits for the other with the mutex it waits for.
SameLockOrder == ~ (frameworkPc = "inReadoutInput" /\ readoutPc = "take")
=============================================================================
