---------------------------- MODULE ReadoutThread ----------------------------
(***************************************************************************)
(* The readout thread of the version 3 emulated camera:                    *)
(* EmulatedFakeCamera3::ReadoutThread in camera/EmulatedFakeCamera3.cpp.   *)
(*                                                                         *)
(* It takes requests from the in-flight queue, waits for the sensor to     *)
(* deliver a frame for each, hands the JPEG buffer to the compressor and   *)
(* returns the result to the framework.  The sensor does not say which     *)
(* buffers it filled: the thread takes it that frames come in the order of *)
(* the queue.                                                              *)
(*                                                                         *)
(* A request is its frame number and whether it has a JPEG (BLOB) output   *)
(* buffer; settings and the other buffers travel with it and are not told  *)
(* apart.                                                                  *)
(***************************************************************************)
EXTENDS Sensor, JpegCompressor, Sequences

VARIABLES
    mInFlightQueue, mThreadActive,     \* guarded by the thread's mLock
    mJpegWaiting, mJpegFrameNumber,    \* guarded by mJpegLock
    \* the thread
    readoutPc,
    mCurrentRequest,
    jpegOutcome,         \* what became of the current request's JPEG buffer
    takenBuffers,        \* the buffers the sensor filled last, of those handed over
    readoutExit,         \* Thread::mExitPending
    \* what the framework has received
    results,             \* frame numbers of the capture results, in order
    jpegReturned         \* frames whose JPEG buffer has come back

queueVars    == <<mInFlightQueue, mThreadActive>>
listenerVars == <<mJpegWaiting, mJpegFrameNumber>>
threadVars   == <<readoutPc, mCurrentRequest, jpegOutcome, takenBuffers, readoutExit>>
receivedVars == <<results, jpegReturned>>
readoutVars  == <<queueVars, listenerVars, threadVars, receivedVars>>

Requests  == [frameNumber : Nat, jpeg : BOOLEAN]
NoRequest == [frameNumber |-> 0, jpeg |-> FALSE]   \* its settings are empty

ReadoutPcs == {"off", "loop", "frame", "process", "checkIdle", "signalIdle", "send"}

ReadoutTypeOK ==
    /\ mInFlightQueue \in Seq(Requests)
    /\ mThreadActive \in BOOLEAN
    /\ mJpegWaiting \in BOOLEAN
    /\ mJpegFrameNumber \in Nat
    /\ readoutPc \in ReadoutPcs
    /\ mCurrentRequest \in Requests
    /\ jpegOutcome \in {"none", "taken", "error"}
    /\ takenBuffers \in Nat
    /\ readoutExit \in BOOLEAN
    /\ results \in Seq(Nat)
    /\ jpegReturned \subseteq Nat

ReadoutInit ==
    /\ mInFlightQueue = <<>>
    /\ mThreadActive = FALSE
    /\ mJpegWaiting = FALSE
    /\ mJpegFrameNumber = 0
    /\ readoutPc = "off"
    /\ mCurrentRequest = NoRequest
    /\ jpegOutcome = "none"
    /\ takenBuffers = 0
    /\ readoutExit = FALSE
    /\ results = <<>>
    /\ jpegReturned = {}

-----------------------------------------------------------------------------
(* Operations called by the camera object.                                 *)

\* A new thread object, started, with frames up to last behind it. The
\* constructor leaves mThreadActive uninitialised.
ReadoutStart(last) ==
    /\ mInFlightQueue' = <<>>
    /\ mThreadActive' \in BOOLEAN
    /\ mJpegWaiting' = FALSE
    /\ mJpegFrameNumber' = 0
    /\ readoutPc' = "loop"
    /\ mCurrentRequest' = NoRequest
    /\ jpegOutcome' = "none"
    /\ takenBuffers' = last
    /\ readoutExit' = FALSE
    /\ UNCHANGED receivedVars

QueueAtFront(r) ==
    /\ mInFlightQueue' = <<r>> \o mInFlightQueue
    /\ UNCHANGED <<mThreadActive, listenerVars, threadVars, receivedVars>>

QueueCaptureRequest(r) ==
    /\ mInFlightQueue' = Append(mInFlightQueue, r)
    /\ UNCHANGED <<mThreadActive, listenerVars, threadVars, receivedVars>>

AlwaysIdle == TRUE
IsIdle     == mInFlightQueue = <<>> /\ ~mThreadActive

\* Thread::requestExit.
ExitNotRequested == UNCHANGED readoutVars
ReadoutRequestExit ==
    /\ readoutExit' = TRUE
    /\ UNCHANGED <<queueVars, listenerVars, readoutPc, mCurrentRequest, jpegOutcome,
                   takenBuffers, receivedVars>>

\* The destructor, once the thread has ended: requests still queued are dropped.
ReadoutDestroy ==
    /\ Free({mInFlightQueue[i].frameNumber : i \in 1..Len(mInFlightQueue)})
    /\ mInFlightQueue' = <<>>
    /\ mCurrentRequest' = NoRequest
    /\ UNCHANGED <<mThreadActive, listenerVars, readoutPc, jpegOutcome, takenBuffers,
                   readoutExit, receivedVars>>

-----------------------------------------------------------------------------
(* The steps of threadLoop.                                                *)

Moves(from, to) == readoutPc = from /\ readoutPc' = to

\* A request is waited for, taken off the queue and made the current one. The
\* timeout of the wait only repeats it.
ReadoutDequeue ==
    /\ ~readoutExit
    /\ mCurrentRequest = NoRequest
    /\ mInFlightQueue # <<>>
    /\ Moves("loop", "frame")
    /\ mCurrentRequest' = Head(mInFlightQueue)
    /\ mInFlightQueue' = Tail(mInFlightQueue)
    /\ mThreadActive' = TRUE
    /\ UNCHANGED <<sensorVars, jpegVars, listenerVars, jpegOutcome, takenBuffers,
                   readoutExit, receivedVars>>

\* There is a current request already: its frame had not come in time.
ReadoutResume ==
    /\ ~readoutExit
    /\ mCurrentRequest # NoRequest
    /\ Moves("loop", "frame")
    /\ UNCHANGED <<sensorVars, jpegVars, queueVars, listenerVars, mCurrentRequest,
                   jpegOutcome, takenBuffers, readoutExit, receivedVars>>

ReadoutWaitForFrame ==
    /\ readoutPc = "frame"
    /\ NewFrameBlock
    /\ UNCHANGED <<jpegVars, readoutVars>>

ReadoutNoFrame ==
    /\ Moves("frame", "loop")
    /\ NewFrameTimeout
    /\ UNCHANGED <<jpegVars, queueVars, listenerVars, mCurrentRequest, jpegOutcome,
                   takenBuffers, readoutExit, receivedVars>>

ReadoutGotFrame ==
    /\ Moves("frame", "process")
    /\ NewFrameAtOnce \/ NewFrameWoken
    /\ takenBuffers' = mCapturedBuffers
    /\ jpegOutcome' = "none"
    /\ UNCHANGED <<jpegVars, queueVars, listenerVars, mCurrentRequest, readoutExit,
                   receivedVars>>

JpegSlotTaken == mJpegWaiting

\* No JPEG buffer, or one that goes back with an error in this result: another
\* is being compressed, or the compressor is busy, or it fails to start.
ReadoutProcessPlain ==
    /\ ~mCurrentRequest.jpeg
    /\ Moves("process", "checkIdle")
    /\ UNCHANGED <<sensorVars, jpegVars, queueVars, listenerVars, mCurrentRequest,
                   jpegOutcome, takenBuffers, readoutExit, receivedVars>>

ReadoutJpegRefused ==
    /\ mCurrentRequest.jpeg
    /\ Moves("process", "checkIdle")
    /\ \/ JpegSlotTaken /\ UNCHANGED jpegVars
       \/ ~JpegSlotTaken /\ StartRefused
       \/ ~JpegSlotTaken /\ StartFailed(mCurrentRequest.frameNumber)
    /\ jpegOutcome' = "error"
    /\ UNCHANGED <<sensorVars, queueVars, listenerVars, mCurrentRequest, takenBuffers,
                   readoutExit, receivedVars>>

\* The compressor takes the buffers; the JPEG buffer will be a result of its own.
ReadoutJpegStarted ==
    /\ mCurrentRequest.jpeg
    /\ Moves("process", "checkIdle")
    /\ ~JpegSlotTaken
    /\ Started(mCurrentRequest.frameNumber)
    /\ mJpegWaiting' = TRUE
    /\ mJpegFrameNumber' = mCurrentRequest.frameNumber
    /\ jpegOutcome' = "taken"
    /\ UNCHANGED <<sensorVars, queueVars, mCurrentRequest, takenBuffers, readoutExit,
                   receivedVars>>

\* With nothing queued the thread goes idle, before the result is sent.
ReadoutCheckIdle ==
    /\ \/ mInFlightQueue = <<>> /\ mThreadActive' = FALSE /\ Moves("checkIdle", "signalIdle")
       \/ mInFlightQueue # <<>> /\ UNCHANGED mThreadActive /\ Moves("checkIdle", "send")
    /\ UNCHANGED <<sensorVars, jpegVars, mInFlightQueue, listenerVars, mCurrentRequest,
                   jpegOutcome, takenBuffers, readoutExit, receivedVars>>

\* The result goes to the framework; then the request's objects are deleted.
AllBuffersToDelete == {mCurrentRequest.frameNumber}
BuffersToDelete    == IF jpegOutcome = "taken" THEN {} ELSE {mCurrentRequest.frameNumber}

ReadoutSend ==
    /\ Moves("send", "loop")
    /\ results' = Append(results, mCurrentRequest.frameNumber)
    /\ jpegReturned' = IF jpegOutcome = "error"
                       THEN jpegReturned \cup {mCurrentRequest.frameNumber} ELSE jpegReturned
    /\ Free(BuffersToDelete)
    /\ mCurrentRequest' = NoRequest
    /\ UNCHANGED <<sensorVars, mIsBusy, mBuffers, jpegDone, jpegPc, queueVars,
                   listenerVars, jpegOutcome, takenBuffers, readoutExit>>

\* Thread::_threadLoop leaves between two rounds.
ReadoutThreadExit ==
    /\ readoutExit
    /\ Moves("loop", "off")
    /\ UNCHANGED <<sensorVars, jpegVars, queueVars, listenerVars, mCurrentRequest,
                   jpegOutcome, takenBuffers, readoutExit, receivedVars>>

-----------------------------------------------------------------------------
\* onJpegDone, called by the compression thread with the compressed buffer.
CurrentResultFrame == mCurrentRequest.frameNumber
JpegResultFrame    == mJpegFrameNumber

OnJpegDone ==
    /\ Compress
    /\ mJpegWaiting' = FALSE
    /\ jpegReturned' = jpegReturned \cup {JpegResultFrame}
    /\ UNCHANGED <<sensorVars, queueVars, mJpegFrameNumber, threadVars, results>>

JpegThreadStep ==
    /\ JpegCleanUp \/ JpegThreadExit
    /\ UNCHANGED <<sensorVars, readoutVars>>

-----------------------------------------------------------------------------
\* Frames whose requests are in flight: queued, or current with no result sent.
CurrentInFlight == IF mCurrentRequest = NoRequest THEN <<>>
                                                  ELSE <<mCurrentRequest.frameNumber>>
InFlight == CurrentInFlight \o [i \in 1..Len(mInFlightQueue) |-> mInFlightQueue[i].frameNumber]
=============================================================================
