------------------------------- MODULE Sensor -------------------------------
(***************************************************************************)
(* The simulated image sensor of the emulated camera:                      *)
(* camera/fake-pipeline2/Sensor.cpp.                                       *)
(*                                                                         *)
(* One thread loops over the frame periods.  In a period it latches the    *)
(* control parameters (under mControlMutex), hands the frame captured in   *)
(* the period before to the reader (under mReadoutMutex), and exposes the  *)
(* latched buffers.  The camera object writes the control parameters and   *)
(* waits for the vertical sync; the readout thread waits for new frames.   *)
(*                                                                         *)
(* A Buffers pointer is the number of the frame it was made for, and       *)
(* NoBuffers is the null pointer.  One critical section of the code is one *)
(* action.  A condition variable with a waiting thread is a variable that  *)
(* says whether its waiter is absent, blocked, or signalled and about to   *)
(* take the mutex again.                                                   *)
(***************************************************************************)
EXTENDS Naturals

CONSTANT Prompt   \* TRUE: a thread that can run does so well within a frame
                  \* period (33 ms): a signalled reader runs before the next readout.

ASSUME PromptAssumption == Prompt \in BOOLEAN

VARIABLES
    \* the control parameters, guarded by mControlMutex
    mGotVSync, mExposureTime, mNextBuffers, mFrameNumber,
    \* the readout variables, guarded by mReadoutMutex
    mCapturedBuffers,
    readoutAvailable,        \* the waiter on mReadoutAvailable
    \* the sensor thread
    sensorPc,
    latched,                 \* its locals: what stage 1 read
    mNextCapturedBuffers,
    sensorExit               \* Thread::mExitPending

controlVars == <<mGotVSync, mExposureTime, mNextBuffers, mFrameNumber>>
sensorVars  == <<controlVars, mCapturedBuffers, readoutAvailable, sensorPc,
                 latched, mNextCapturedBuffers, sensorExit>>

NoBuffers == 0

NoLatch   == [buffers |-> NoBuffers, frameNumber |-> 0, exposureTime |-> 0]

SensorPcs == {"off", "latch", "readout", "readoutWait", "readoutWoken", "capture"}

SensorTypeOK ==
    /\ mGotVSync \in BOOLEAN
    /\ mExposureTime \in Nat
    /\ mNextBuffers \in Nat
    /\ mFrameNumber \in Nat
    /\ mCapturedBuffers \in Nat
    /\ readoutAvailable \in {"none", "waiting", "signalled"}
    /\ sensorPc \in SensorPcs
    /\ latched \in [buffers : Nat, frameNumber : Nat, exposureTime : Nat]
    /\ mNextCapturedBuffers \in Nat
    /\ sensorExit \in BOOLEAN

SensorInit ==
    /\ mGotVSync = FALSE
    /\ mExposureTime = 0
    /\ mNextBuffers = NoBuffers
    /\ mFrameNumber = 0
    /\ mCapturedBuffers = NoBuffers
    /\ readoutAvailable = "none"
    /\ sensorPc = "off"
    /\ latched = NoLatch
    /\ mNextCapturedBuffers = NoBuffers
    /\ sensorExit = FALSE

-----------------------------------------------------------------------------
(* Operations called by the camera object, on the caller's thread.          *)

\* A new Sensor object with its thread started: the constructor, then startUp.
SensorStartUp ==
    /\ mGotVSync' = FALSE
    /\ mExposureTime' = 0
    /\ mNextBuffers' = NoBuffers
    /\ mFrameNumber' = 0
    /\ mCapturedBuffers' = NoBuffers
    /\ readoutAvailable' = "none"
    /\ sensorPc' = "latch"
    /\ latched' = NoLatch
    /\ mNextCapturedBuffers' = NoBuffers
    /\ sensorExit' = FALSE

\* The first half of shutDown: Thread::requestExit. The second half waits for
\* sensorPc = "off".
SensorRequestExit ==
    /\ sensorExit' = TRUE
    /\ UNCHANGED <<controlVars, mCapturedBuffers, readoutAvailable, sensorPc,
                   latched, mNextCapturedBuffers>>

SetControl(got, exposure, buffers, number) ==
    /\ mGotVSync' = got
    /\ mExposureTime' = exposure
    /\ mNextBuffers' = buffers
    /\ mFrameNumber' = number
    /\ UNCHANGED <<mCapturedBuffers, readoutAvailable, sensorPc, latched,
                   mNextCapturedBuffers, sensorExit>>

\* setExposureTime, setFrameDuration and setSensitivity, which the caller
\* always calls in a row: the three values stand for one.
SetExposure(n)           == SetControl(mGotVSync, n, mNextBuffers, mFrameNumber)
SetDestinationBuffers(n) == SetControl(mGotVSync, mExposureTime, n, mFrameNumber)
SetFrameNumber(n)        == SetControl(mGotVSync, mExposureTime, mNextBuffers, n)

\* waitForVSync: the flag is cleared as the wait begins ...
KeepStaleVSync == UNCHANGED sensorVars
BeginVSyncWait == SetControl(FALSE, mExposureTime, mNextBuffers, mFrameNumber)
\* ... and is the result when the wait ends, signalled or timed out.
VSyncResult == mGotVSync

-----------------------------------------------------------------------------
(* waitForNewFrame, called by the readout thread.                          *)

\* Wakes a sensor thread that waits for the readout to catch up.
NoSignal == sensorPc' = sensorPc
SignalReadoutComplete ==
    sensorPc' = IF sensorPc = "readoutWait" THEN "readoutWoken" ELSE sensorPc

\* A frame is there: it is taken at once, and the sensor is told.
NewFrameAtOnce ==
    /\ readoutAvailable = "none"
    /\ mCapturedBuffers # NoBuffers
    /\ SignalReadoutComplete
    /\ mCapturedBuffers' = NoBuffers
    /\ UNCHANGED <<controlVars, readoutAvailable, latched,
                   mNextCapturedBuffers, sensorExit>>

\* No frame yet: the reader blocks on mReadoutAvailable.
NewFrameBlock ==
    /\ readoutAvailable = "none"
    /\ mCapturedBuffers = NoBuffers
    /\ readoutAvailable' = "waiting"
    /\ UNCHANGED <<controlVars, mCapturedBuffers, sensorPc, latched,
                   mNextCapturedBuffers, sensorExit>>

\* The wait of 10 ms ends with no signal: no frame is returned.
NewFrameTimeout ==
    /\ readoutAvailable = "waiting"
    /\ readoutAvailable' = "none"
    /\ UNCHANGED <<controlVars, mCapturedBuffers, sensorPc, latched,
                   mNextCapturedBuffers, sensorExit>>

\* Signalled: the frame is taken, and nothing tells the sensor.
NewFrameWoken ==
    /\ readoutAvailable = "signalled"
    /\ mCapturedBuffers # NoBuffers
    /\ readoutAvailable' = "none"
    /\ mCapturedBuffers' = NoBuffers
    /\ UNCHANGED <<controlVars, sensorPc, latched, mNextCapturedBuffers,
                   sensorExit>>

-----------------------------------------------------------------------------
(* The steps of threadLoop.                                                *)

\* Stage 1: latch the controls, give up the buffer set, announce the VSync.
NextBuffersAfterLatch == NoBuffers

SensorLatch ==
    /\ sensorPc = "latch" /\ ~sensorExit
    /\ latched' = [buffers |-> mNextBuffers, frameNumber |-> mFrameNumber,
                   exposureTime |-> mExposureTime]
    /\ mNextBuffers' = NextBuffersAfterLatch
    /\ mGotVSync' = TRUE
    /\ sensorPc' = IF mNextCapturedBuffers # NoBuffers THEN "readout" ELSE "capture"
    /\ UNCHANGED <<mExposureTime, mFrameNumber, mCapturedBuffers, readoutAvailable,
                   mNextCapturedBuffers, sensorExit>>

\* Hand the captured frame over and wake the reader.
Deliver ==
    /\ mCapturedBuffers' = mNextCapturedBuffers
    /\ readoutAvailable' = IF readoutAvailable = "waiting" THEN "signalled"
                                                           ELSE readoutAvailable
    /\ sensorPc' = "capture"
    /\ UNCHANGED <<controlVars, latched, mNextCapturedBuffers, sensorExit>>

\* The sensor must wait for the reader while the last frame is still there.
ReadoutNeverBusy == FALSE
ReadoutBusy      == mCapturedBuffers # NoBuffers

\* Stage 3: read out the frame captured in the period before.
SensorReadout ==
    /\ sensorPc = "readout" /\ ~ReadoutBusy
    /\ Prompt => readoutAvailable # "signalled"
    /\ Deliver

SensorReadoutBlock ==
    /\ sensorPc = "readout" /\ ReadoutBusy
    /\ Prompt => readoutAvailable # "signalled"
    /\ sensorPc' = "readoutWait"
    /\ UNCHANGED <<controlVars, mCapturedBuffers, readoutAvailable, latched,
                   mNextCapturedBuffers, sensorExit>>

\* The wait on mReadoutComplete has no loop: the frame goes out as it ends.
SensorReadoutWoken == sensorPc = "readoutWoken" /\ Deliver

\* Stage 2: expose the latched buffers. What the listener is told is left out.
SensorCapture ==
    /\ sensorPc = "capture"
    /\ mNextCapturedBuffers' = latched.buffers
    /\ sensorPc' = "latch"
    /\ UNCHANGED <<controlVars, mCapturedBuffers, readoutAvailable, latched, sensorExit>>

\* Thread::_threadLoop leaves between two frame periods.
SensorExit ==
    /\ sensorPc = "latch" /\ sensorExit
    /\ sensorPc' = "off"
    /\ UNCHANGED <<controlVars, mCapturedBuffers, readoutAvailable, latched,
                   mNextCapturedBuffers, sensorExit>>

SensorStep ==
    \/ SensorLatch \/ SensorReadout \/ SensorReadoutBlock
    \/ SensorReadoutWoken \/ SensorCapture \/ SensorExit

-----------------------------------------------------------------------------
(* What of the frames the sensor holds is still on its way to the reader.  *)

\* the frame being captured or waiting to be read out
CapturedFrame == IF sensorPc = "capture" THEN NoBuffers ELSE mNextCapturedBuffers
\* the frame latched and not yet captured
LatchedFrame  == IF sensorPc \in {"off", "latch"} THEN NoBuffers ELSE latched.buffers
=============================================================================
