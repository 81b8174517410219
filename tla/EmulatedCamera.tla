---------------------------- MODULE EmulatedCamera ----------------------------
(***************************************************************************)
(* The version 1 emulated camera: camera/EmulatedCamera.cpp with its       *)
(* device (EmulatedCameraDevice.cpp and its two kinds, the fake one and    *)
(* the one behind the camera service of the emulator), its preview window  *)
(* and its callback notifier.                                              *)
(*                                                                         *)
(* The framework calls the camera on one thread.  Frames are made and      *)
(* delivered by the worker thread of the device, which the calls start and *)
(* stop: a stop writes to a pipe that the worker listens to and waits for  *)
(* the thread to end.  A call is a row of steps, each with no lock that it *)
(* shares with the next: todo is what is left of it.                       *)
(*                                                                         *)
(* A frame buffer is the number of its allocation.  Recording, parameters, *)
(* the message mask and pixels are left out: all messages are enabled.     *)
(***************************************************************************)
EXTENDS Naturals, Sequences

CONSTANTS
    Kinds,        \* kinds of devices: "fake", "qemu"
    MaxCalls,     \* bound: calls of the framework
    MaxFailures   \* bound: queries that the camera service of the emulator fails

ASSUME EmulatedCameraAssumption ==
    /\ Kinds \subseteq {"fake", "qemu"}
    /\ MaxCalls \in Nat /\ MaxFailures \in Nat

VARIABLES
    kind,
    mState,                                  \* EmulatedCameraDevice
    mCurrentFrame, allocations,              \* 0 is NULL
    mRunning, mExitPending, mOneBurst,       \* the worker, an android::Thread
    pipeOpen, stops,                         \* mThreadControl and mControlFD; THREAD_STOPs in it
    workerPc, workerFrame,
    missed,       \* history: a stop has failed to reach the thread that runs now
    mPreviewEnabled,                         \* PreviewWindow
    mTakingPicture, mDataCB,                 \* CallbackNotifier: its flag, its callbacks
    todo, previewOn,                         \* the framework's call; preview_on of takePicture
    opened, calls, failures,
    picture,      \* what became of the picture of the last call, if it was takePicture
    died          \* the framework has been told that the camera service is gone

deviceVars   == <<mState, mCurrentFrame, allocations>>
threadVars   == <<mRunning, mExitPending, mOneBurst>>
pipeVars     == <<pipeOpen, stops>>
workerVars   == <<workerPc, workerFrame, missed>>
notifierVars == <<mTakingPicture, mDataCB>>
callVars     == <<todo, previewOn, opened, calls, picture>>
vars == <<kind, deviceVars, threadVars, pipeVars, workerVars, mPreviewEnabled, notifierVars,
          callVars, failures, died>>

Steps == {"stop", "stopThread", "join", "stopDevice", "previewOn", "previewOff",
          "previewOffIfStopped", "connect", "startForPreview", "deliver", "startForPicture",
          "takePicture", "deliverOne", "disconnect", "cleanup"}
MaxAllocations == 2 * MaxCalls

TypeOK ==
    /\ kind \in Kinds
    /\ mState \in {"INITIALIZED", "CONNECTED", "STARTED"}
    /\ mCurrentFrame \in 0..allocations /\ allocations \in 0..MaxAllocations
    /\ mRunning \in BOOLEAN /\ mExitPending \in BOOLEAN /\ mOneBurst \in BOOLEAN
    /\ pipeOpen \in BOOLEAN /\ stops \in 0..1
    /\ workerPc \in {"off", "created", "select", "draw", "preview", "notify", "round", "end"}
    /\ workerFrame \in 0..allocations /\ missed \in BOOLEAN
    /\ mPreviewEnabled \in BOOLEAN /\ mTakingPicture \in BOOLEAN /\ mDataCB \in BOOLEAN
    /\ todo \in Seq(Steps) /\ previewOn \in BOOLEAN /\ opened \in BOOLEAN
    /\ calls \in 0..MaxCalls /\ failures \in 0..MaxFailures
    /\ picture \in {"none", "asked", "taken", "refused"} /\ died \in BOOLEAN

Init ==
    /\ kind \in Kinds
    /\ mState = "INITIALIZED" /\ mCurrentFrame = 0 /\ allocations = 0
    /\ mRunning = FALSE /\ mExitPending = FALSE /\ mOneBurst = FALSE
    /\ pipeOpen = FALSE /\ stops = 0 /\ workerPc = "off" /\ workerFrame = 0
    /\ missed = FALSE
    /\ mPreviewEnabled = FALSE /\ mTakingPicture = FALSE /\ mDataCB = FALSE
    /\ todo = <<>> /\ previewOn = FALSE /\ opened = FALSE /\ calls = 0 /\ failures = 0
    /\ picture = "none" /\ died = FALSE

\* A query of the camera service fails.
Fails == kind = "qemu" /\ failures < MaxFailures /\ failures' = failures + 1

-----------------------------------------------------------------------------
(* The calls.                                                              *)

NoDevice == UNCHANGED <<kind, deviceVars, threadVars, pipeVars, workerVars, mPreviewEnabled,
                        mTakingPicture, failures, died>>

Begin(steps) ==
    /\ todo = <<>> /\ calls < MaxCalls /\ calls' = calls + 1
    /\ todo' = steps

\* connectCamera, and what the framework does next: setCallbacks.
ConnectCamera ==
    /\ ~opened /\ opened' = TRUE
    /\ Begin(<<"connect">>)
    /\ mDataCB' = TRUE /\ picture' = "none"
    /\ UNCHANGED previewOn
    /\ NoDevice

doStartPreview == <<"stop", "previewOn", "connect", "startForPreview", "deliver">>
doStopPreview  == IF mPreviewEnabled THEN <<"stop", "previewOffIfStopped">> ELSE <<>>

StartPreview ==
    /\ opened /\ Begin(doStartPreview)
    /\ picture' = "none"
    /\ UNCHANGED <<previewOn, opened, mDataCB>>
    /\ NoDevice

StopPreview ==
    /\ opened /\ Begin(doStopPreview)
    /\ picture' = "none"
    /\ UNCHANGED <<previewOn, opened, mDataCB>>
    /\ NoDevice

DeliverFirst == <<"stop", "startForPicture", "deliverOne", "takePicture">>
PictureSteps == <<"stop", "startForPicture", "takePicture", "deliverOne">>

TakePicture ==
    /\ opened /\ Begin(doStopPreview \o PictureSteps)
    /\ previewOn' = mPreviewEnabled /\ picture' = "asked"
    /\ UNCHANGED <<opened, mDataCB>>
    /\ NoDevice

\* closeCamera and releaseCamera: cleanupCamera.
CloseCamera ==
    /\ opened /\ opened' = FALSE
    /\ Begin(doStopPreview \o <<"stop", "disconnect", "cleanup">>)
    /\ picture' = "none"
    /\ UNCHANGED <<previewOn, mDataCB>>
    /\ NoDevice

-----------------------------------------------------------------------------
(* The steps of the calls.                                                 *)

Step(s) == todo # <<>> /\ Head(todo) = s
Then(steps) ==
    /\ todo' = steps \o Tail(todo)
    /\ UNCHANGED <<previewOn, opened, calls, picture>>
Done == Then(<<>>)
\* An error: other steps instead of the rest of the call.
Instead(steps) ==
    /\ todo' = steps /\ picture' = (IF picture = "asked" THEN "refused" ELSE picture)
    /\ UNCHANGED <<previewOn, opened, calls>>

NoThread == UNCHANGED <<kind, threadVars, pipeVars, workerVars, died>>

\* isStarted, then stopDeliveringFrames and stopDevice.
Stop ==
    /\ Step("stop")
    /\ Then(IF mState = "STARTED" THEN <<"stopThread", "stopDevice">> ELSE <<>>)
    /\ UNCHANGED <<deviceVars, mPreviewEnabled, notifierVars, failures>>
    /\ NoThread

\* WorkerThread::stopThread: THREAD_STOP and requestExitAndWait. Without a pipe, which a
\* thread opens in readyToRun, it fails, and nobody looks at that.
StopMessage == stops + 1

StopThread ==
    /\ Step("stopThread")
    /\ IF pipeOpen
       THEN /\ stops' = StopMessage /\ mExitPending' = TRUE
            /\ Then(<<"join">>)
            /\ UNCHANGED missed
       ELSE /\ Done /\ UNCHANGED <<stops, mExitPending>>
            /\ missed' = mRunning
    /\ UNCHANGED <<kind, deviceVars, mRunning, mOneBurst, pipeOpen, workerPc, workerFrame,
                   mPreviewEnabled, notifierVars, failures, died>>

JoinAtOnce == TRUE
ThreadEnded == ~mRunning

PipeKept == UNCHANGED pipeVars
ClosePipe == pipeOpen' = FALSE /\ stops' = 0

JoinThread ==
    /\ Step("join") /\ ThreadEnded
    /\ mExitPending' = FALSE /\ ClosePipe
    /\ Done
    /\ UNCHANGED <<kind, deviceVars, mRunning, mOneBurst, workerVars, mPreviewEnabled,
                   notifierVars, failures, died>>

\* stopDevice: the camera service may refuse to stop.
StopDevice ==
    /\ Step("stopDevice")
    /\ \/ mState = "STARTED" /\ Fails /\ UNCHANGED <<mState, mCurrentFrame>>
       \/ mState = "STARTED" /\ mCurrentFrame' = 0 /\ mState' = "CONNECTED" /\ UNCHANGED failures
       \/ mState # "STARTED" /\ UNCHANGED <<mState, mCurrentFrame, failures>>
    /\ Done
    /\ UNCHANGED <<allocations, mPreviewEnabled, notifierVars>>
    /\ NoThread

\* PreviewWindow::startPreview and stopPreview.
SetPreview ==
    /\ \/ Step("previewOn") /\ mPreviewEnabled' = TRUE
       \/ Step("previewOff") /\ mPreviewEnabled' = FALSE
       \/ Step("previewOffIfStopped") /\ mPreviewEnabled' = (mPreviewEnabled /\ mState = "STARTED")
    /\ Done
    /\ UNCHANGED <<deviceVars, notifierVars, failures>>
    /\ NoThread

ConnectDevice ==
    /\ Step("connect")
    /\ \/ /\ mState = "INITIALIZED" /\ Fails
          /\ Instead(<<"previewOff">>) /\ UNCHANGED mState
       \/ /\ mState' = IF mState = "INITIALIZED" THEN "CONNECTED" ELSE mState
          /\ Done /\ UNCHANGED failures
    /\ UNCHANGED <<mCurrentFrame, allocations, mPreviewEnabled, notifierVars>>
    /\ NoThread

\* startDevice. One that could not be stopped stays as it is: an error for the fake device,
\* none for the other. commonStartDevice refuses RGB32, before it allocates the frame. When
\* the camera service fails to start, the frame stays allocated.
Allocate == mCurrentFrame' = allocations + 1 /\ allocations' = allocations + 1

StartDevice(s, recovery) ==
    /\ Step(s)
    /\ \/ /\ mState = "CONNECTED" /\ Allocate /\ mState' = "STARTED"
          /\ Done /\ UNCHANGED failures
       \/ /\ mState = "CONNECTED" /\ Allocate /\ UNCHANGED mState
          /\ Fails /\ Instead(recovery)
       \/ /\ mState = "STARTED" /\ kind = "qemu" /\ Done
          /\ UNCHANGED <<deviceVars, failures>>
       \/ /\ mState # "STARTED" \/ kind = "fake"
          /\ Instead(recovery) /\ UNCHANGED <<deviceVars, failures>>
    /\ UNCHANGED <<mPreviewEnabled, notifierVars>>
    /\ NoThread

AfterPicture == IF previewOn THEN doStartPreview ELSE <<>>

SetTakingPicture ==
    /\ Step("takePicture") /\ mTakingPicture' = TRUE
    /\ Done
    /\ UNCHANGED <<deviceVars, mPreviewEnabled, mDataCB, failures>>
    /\ NoThread

\* WorkerThread::startThread: run() fails when the thread runs.
StartThread(s, oneBurst, recovery) ==
    /\ Step(s)
    /\ mOneBurst' = oneBurst
    /\ IF mRunning
       THEN /\ Instead(recovery)
            /\ mTakingPicture' = (mTakingPicture /\ ~oneBurst)
            /\ UNCHANGED <<mRunning, mExitPending, workerPc>>
       ELSE /\ Done
            /\ mRunning' = TRUE /\ mExitPending' = FALSE /\ workerPc' = "created"
            /\ UNCHANGED mTakingPicture
    /\ UNCHANGED <<kind, deviceVars, pipeVars, workerFrame, missed, mPreviewEnabled, mDataCB,
                   failures, died>>

\* The rest of cleanupCamera. An error of the device ends it.
DisconnectDevice ==
    /\ Step("disconnect")
    /\ \/ mState = "STARTED" /\ Instead(<<>>) /\ UNCHANGED <<mState, failures>>
       \/ mState = "CONNECTED" /\ Fails /\ Instead(<<>>) /\ UNCHANGED mState
       \/ mState # "STARTED" /\ mState' = "INITIALIZED" /\ Done /\ UNCHANGED failures
    /\ UNCHANGED <<mCurrentFrame, allocations, mPreviewEnabled, notifierVars>>
    /\ NoThread

CleanupNotifier ==
    /\ Step("cleanup")
    /\ mDataCB' = FALSE /\ mTakingPicture' = FALSE
    /\ Done
    /\ UNCHANGED <<deviceVars, mPreviewEnabled, failures>>
    /\ NoThread

CallStep ==
    \/ Stop \/ StopThread \/ JoinThread \/ StopDevice \/ SetPreview \/ ConnectDevice
    \/ StartDevice("startForPreview", <<"previewOff">>)
    \/ StartDevice("startForPicture", AfterPicture)
    \/ SetTakingPicture
    \/ StartThread("deliver", FALSE, <<"stopDevice", "previewOff">>)
    \/ StartThread("deliverOne", TRUE, AfterPicture)
    \/ DisconnectDevice \/ CleanupNotifier

-----------------------------------------------------------------------------
(* The worker thread.                                                      *)

WorkerMoves(from, to) ==
    /\ workerPc = from /\ workerPc' = to
    /\ missed' = (missed /\ to # "off")
OnlyWorker == UNCHANGED <<kind, deviceVars, mOneBurst, mPreviewEnabled, mDataCB, todo,
                          previewOn, opened, calls>>

\* readyToRun. Thread::_threadLoop then looks whether it is to exit.
ReadyToRun ==
    /\ WorkerMoves("created", IF mExitPending THEN "end" ELSE "select")
    /\ pipeOpen' = TRUE /\ stops' = 0
    /\ UNCHANGED <<mRunning, mExitPending, workerFrame, mTakingPicture, picture, failures, died>>
    /\ OnlyWorker

\* Select: a THREAD_STOP, or the time of a frame.
Select ==
    /\ \/ WorkerMoves("select", "end") /\ stops > 0 /\ stops' = stops - 1
       \/ WorkerMoves("select", "draw") /\ stops = 0 /\ UNCHANGED stops
    /\ UNCHANGED <<mRunning, mExitPending, pipeOpen, workerFrame, mTakingPicture, picture,
                   failures, died>>
    /\ OnlyWorker

\* A frame is drawn, or asked of the camera service: if that fails the framework is told
\* and the thread ends.
DrawFrame ==
    /\ \/ /\ WorkerMoves("draw", "preview")
          /\ workerFrame' = mCurrentFrame /\ UNCHANGED <<failures, died>>
       \/ WorkerMoves("draw", "end") /\ Fails /\ died' = TRUE /\ UNCHANGED workerFrame
    /\ UNCHANGED <<mRunning, mExitPending, pipeVars, mTakingPicture, picture>>
    /\ OnlyWorker

\* PreviewWindow::onNextFrameAvailable, which changes nothing that is modelled.
PreviewFrame ==
    /\ WorkerMoves("preview", "notify")
    /\ UNCHANGED <<mRunning, mExitPending, pipeVars, workerFrame, mTakingPicture, picture,
                   failures, died>>
    /\ OnlyWorker

\* CallbackNotifier::onNextFrameAvailable.
NotifyFrame ==
    /\ WorkerMoves("notify", "round")
    /\ mTakingPicture' = FALSE
    /\ picture' = IF mTakingPicture /\ picture = "asked" THEN "taken" ELSE picture
    /\ UNCHANGED <<mRunning, mExitPending, pipeVars, workerFrame, failures, died>>
    /\ OnlyWorker

\* The end of a round of threadLoop.
EndRound ==
    /\ WorkerMoves("round", IF mOneBurst \/ mExitPending THEN "end" ELSE "select")
    /\ workerFrame' = 0
    /\ UNCHANGED <<mRunning, mExitPending, pipeVars, mTakingPicture, picture, failures, died>>
    /\ OnlyWorker

EndThread ==
    /\ WorkerMoves("end", "off")
    /\ mRunning' = FALSE /\ mExitPending' = TRUE
    /\ UNCHANGED <<pipeVars, workerFrame, mTakingPicture, picture, failures, died>>
    /\ OnlyWorker

Worker == ReadyToRun \/ Select \/ DrawFrame \/ PreviewFrame \/ NotifyFrame \/ EndRound \/ EndThread

Next ==
    \/ ConnectCamera \/ StartPreview \/ StopPreview \/ TakePicture \/ CloseCamera
    \/ CallStep
    \/ Worker

\* Threads that can run do. Nothing makes the framework call.
Fairness == WF_vars(CallStep) /\ WF_vars(Worker)

Spec == Init /\ [][Next]_vars /\ Fairness

-----------------------------------------------------------------------------
(* Properties.                                                             *)

\* The worker draws and delivers frames only in a frame buffer that is there, and calls
\* back only while there are callbacks: no call frees them under it, whatever it does next to
\* a thread that is about to start or to end. The one way for a call to do so is a stop that
\* finds no pipe, because the thread has not got to readyToRun: it misses the thread.
Delivering == workerPc \in {"preview", "notify"}
FrameAlive == Delivering /\ ~missed => workerFrame # 0 /\ workerFrame = mCurrentFrame /\ mDataCB

\* takePicture comes to an end: with no other call after it the picture comes, unless the
\* call has been refused or the camera service is gone.
PictureTaken == picture = "asked" ~> picture # "asked" \/ died

\* The comment on stopWorkerThread: "Note that this method will always wait for the worker
\* thread to terminate."
StopWaits == Step("stopDevice") => ~mRunning
=============================================================================
