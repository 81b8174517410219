# Goldfish HALs and daemons: TLA+ specifications and proofs

This directory holds a formal model of the concurrent core of the repository: the device
side of the Android emulator ("goldfish") under `src/generic/goldfish/`. Five parts are
modelled:

- the **version 3 emulated camera** (`camera/EmulatedFakeCamera3.cpp` with
  `camera/fake-pipeline2/Sensor.cpp` and `JpegCompressor.cpp`): four threads, four mutexes,
  five condition variables, and buffers that change owner;
- the **version 2 emulated camera** (`camera/EmulatedFakeCamera2.cpp`): the pipeline of a
  configure and a readout thread on the same sensor and compressor, and the control thread
  with auto focus and auto exposure;
- the **version 1 emulated camera** (`camera/EmulatedCamera.cpp` with its devices): calls
  of the framework against the worker thread that makes and delivers the frames;
- the **qemud daemon** (`qemud/qemud.c`): a single-threaded event loop over epoll that
  multiplexes many clients over one serial line to the emulator;
- the **framing of that line** (`serial_send`, `serial_fd_receive`), byte by byte.

Paths below are relative to `src/generic/goldfish/` unless they begin with `src/`.

## 1. Inventory of the repository

`src/common`, `src/sample`, `src/mediatek`, `src/vanzo`, `src/google` and most of
`src/generic` are product configuration, overlays, vendored headers and board designs. The
program logic is in `src/generic/goldfish`.

| Component | State | Operations | Interacts with | Hard behaviour | Correct when |
|---|---|---|---|---|---|
| Camera HAL 3 sensor (`fake-pipeline2/Sensor`) | control parameters, captured buffers, two mutexes, three conditions | setters, `waitForVSync`, `waitForNewFrame`, `threadLoop` | caller thread (setters), readout thread (frames) | setters are separate critical sections; condition waits without a loop; signals on one path only | each buffer set is exposed with its own settings and handed over once |
| Camera HAL 3 JPEG compressor (`fake-pipeline2/JpegCompressor`) | `mIsBusy`, `mBuffers`, thread | `start`, `waitForDone`, `threadLoop`, `cleanUp` | readout thread, listener `onJpegDone` | the thread outlives "not busy"; ownership of buffers moves | a buffer set is deleted once, a JPEG returned once |
| Camera HAL 3 readout thread (`EmulatedFakeCamera3::ReadoutThread`) | in-flight queue, `mThreadActive`, current request, JPEG slot | `queueCaptureRequest`, `isIdle`, `waitForReadout`, `threadLoop`, `onJpegDone` | device, sensor, compressor, framework callbacks | retried timeouts; idle decided before the result is sent; frames and requests paired by position only | every request gets its own frame's result, in order |
| Camera HAL 3 device (`EmulatedFakeCamera3`, `EmulatedCamera3`) | `mStatus`, cached settings, streams | open, configure, `processCaptureRequest`, `signalReadoutIdle`, close | all of the above, framework | failures half way, closing with work in flight, locks held across waits | READY only when idle; close returns |
| Fake 3A algorithms (`process3A`, `doFakeAE/AF/AWB`, `update3A`) | AE, AF, AWB states and triggers | one call per request | device | state machine with triggers | follows the state tables of the camera API |
| Camera HAL 2 pipeline (`EmulatedFakeCamera2`, its `ConfigureThread` and `ReadoutThread`) | request and in-flight queues, request counts, streams, five mutexes | request notification, `threadLoop`s, `releaseStream`, `getInProgressCount`, close | sensor, compressor, framework | locks taken in several orders; requests move between threads while they are counted; reprocessing overtakes the sensor | frames match requests, none is lost, what the framework is told is true |
| Camera HAL 2 control thread (`ControlThread`) | AF and AE states, triggers, scan times | `processRequest`, `triggerAction`, `threadLoop` | configure thread, framework | a pass works on copies while modes and triggers change | tables apply, triggers are answered |
| Camera HAL 1 (`EmulatedCamera`, `EmulatedCameraDevice`, the fake and qemu cameras) | device state, worker thread, control pipe | start/stop preview, recording, take picture, auto focus | callback notifier, preview window | worker thread against API calls | no callback after stop |
| HAL 1 callbacks and preview (`CallbackNotifier`, `PreviewWindow`) | message mask, recording and picture flags | frame and error callbacks | device worker thread, framework | flags read outside the lock | one picture per request |
| Camera factory and hot-plug (`EmulatedCameraFactory`, `EmulatedCameraHotplugThread`) | table of cameras, subscribed files | constructor, `getCamera`, status changes | inotify thread, framework | status change during an open | unplugged cameras are closed |
| Camera service client (`QemuClient`) | a socket | query and response | qemud | none | text protocol only |
| qemud event loop (`Looper`) | array of hooks, epoll's pointers into it | add, del, enable, disable, loop | FD handlers | array moves under pointers, deletion inside callbacks, reuse of descriptors | events reach the handler of their descriptor |
| qemud multiplexer, clients, FD handlers | list of clients, channels, output queues | accept, register, relay, disconnect | clients, emulator | reuse of channels, hang-ups with data queued | no cross-talk, answers arrive, order is kept |
| qemud serial framing (`serial_fd_receive`) | partial header or payload | receive, send | serial line | packets split at any byte | packets come out as they went in |
| Sensors HAL | enabled sensors, pending mask | poll, activate, set delay | qemud | control against data channel | an event is delivered once |
| GPS HAL | reader thread, control socket pair | init, start, stop, cleanup | qemud | start/stop races | no callback after stop |
| gralloc | buffer handles, post and lock counts | alloc, register, lock, post | renderer process | processes share buffers | a buffer is freed once |
| EGL and GL encoders | host handles, cached GL state | GL calls | host renderer | generated code | marshalling only |
| audio, lights, vibrator, power; qemu-props; qemud tests | little | one message each | qemud | none | – |
| vanzo fingerprint HAL, product configuration, accessory kit | – | – | vendor libraries | outside the repository | – |

`PROJECT.json` lists the same components with their status and, under `hazards`, the places
in the source where something can go wrong that a test would hardly reach, with the
properties that look at them or the reason why none does yet.

## 2. Modules

| Module | Models |
|---|---|
| `Sensor` | the sensor thread, its control parameters and both condition protocols |
| `JpegCompressor` | start, `waitForDone`, the compression thread, deletion of buffer sets |
| `ReadoutThread` (extends both) | in-flight queue, the steps of `threadLoop`, the JPEG listener |
| `FakeCamera3` (extends `ReadoutThread`) | the device, the caller's thread, composition, properties |
| `CaptureService` | abstract: requests complete in the order accepted |
| `FakeCamera3Proofs` | theorems about `FakeCamera3` |
| `Looper` | hooks and epoll as a record, operations as functions of it |
| `Qemud` (extends `Looper`) | daemon, serial line, clients, emulator, properties |
| `ConnectionService` | abstract: told before data, data in order without a gap |
| `MCQemud` | symmetry for the runs without liveness |
| `QemudProofs` | theorems about `Looper` and the channels of `Qemud` |
| `QemudLinkProofs` (extends `QemudProofs`) | theorems about what the channels connect |
| `Serial` | packets, their pool, header and payload on a line of bytes, both directions |
| `PacketPipe` | abstract: messages come out as they went in, all of them at last |
| `MCSerial` | payloads and noise for the run of `Serial` |
| `SerialProofs` | theorems about `Serial` |
| `FakeCamera2` (extends `Sensor`, `JpegCompressor`) | the HAL 2 pipeline, the framework's calls, the mutexes |
| `FakeCamera2Proofs` | theorems about `FakeCamera2` |
| `ControlThread` | the HAL 2 control thread with requests and triggers |
| `ControlThreadProofs` | theorems about `ControlThread` |
| `EmulatedCamera` | the HAL 1 camera: calls as rows of steps, device, worker thread |
| `EmulatedCameraProofs` | theorems about `EmulatedCamera` |
| `SequenceFacts` | lemmas about sequences that the proofs share: order, distinct elements, ranges, concatenation |

### 2.1 The camera

Four threads: the *caller* (the framework in one of the HAL's entry points), the *sensor*,
the *readout* thread and the *JPEG* thread. `sensorPc`, `readoutPc`, `jpegPc` and `callerPc`
say where each is. **One critical section of the code is one action**; a wait on a
condition is split into the action that blocks and those that end it (signalled, timed out),
so that everything can happen in between. A waiter on a condition variable is a variable
with the values none, waiting and signalled: a signal moves a waiter to "signalled", and it
takes the mutex again at some later step.

| Action | Code |
|---|---|
| `SensorLatch`, `SensorReadout`, `SensorReadoutBlock`, `SensorReadoutWoken`, `SensorCapture`, `SensorExit` | stages 1 to 3 of `Sensor::threadLoop`, and the end of the thread |
| `NewFrameAtOnce`, `NewFrameBlock`, `NewFrameWoken`, `NewFrameTimeout` | `Sensor::waitForNewFrame`; only the first of them signals `mReadoutComplete` |
| `BeginVSyncWait`, `VSyncResult` | `Sensor::waitForVSync` |
| `StartRefused`, `Started`, `StartFailed` | the three outcomes of `JpegCompressor::start` |
| `WaitForDoneAtOnce/Block/Ends` | `JpegCompressor::waitForDone` |
| `Compress` with `OnJpegDone`, `JpegCleanUp`, `JpegThreadExit` | the compression thread |
| `ReadoutDequeue`, `ReadoutResume`, `ReadoutWaitForFrame`, `ReadoutNoFrame`, `ReadoutGotFrame`, `ReadoutProcessPlain`, `ReadoutJpegRefused`, `ReadoutJpegStarted`, `ReadoutCheckIdle`, `SignalReadoutIdle`, `ReadoutSend`, `ReadoutThreadExit` | `ReadoutThread::threadLoop` in its order |
| `ConnectCamera`, `InitializeDevice`, `ConfigureStreams` | `connectCamera`, `EmulatedCamera3::initialize`, `configureStreams` |
| `ProcessCaptureRequest`, `RejectRequest`, `AwaitJpeg`, `AwaitReadout`, `AwaitVSync`, `GotVSync`, `ConfigureSensor` (three steps), `QueueRequest`, and the timeouts | `processCaptureRequest`, in order |
| `CloseCamera`, `CloseSensorDown`, `CloseJoined` | `closeCamera` |

Abstractions. A frame is its number; the buffer set made for a request has the number of the
request, so that "the frame belongs to the request" can be said at all: nothing in the code
compares the two. Exposure time, frame duration and sensitivity are one value, as the caller
always sets them in a row and any interleaving that distinguishes them is one of theirs with
the buffers. `freed` and `jpegReturned` and `results` record what was deleted
and what the framework got. Pixel contents, metadata, streams and gralloc locks are left
out. The 3A algorithms appear only as a way in which a request can fail. The only wait of
the model with no timeout action is the sensor's wait for the reader, which has none in the
code; the idle wait of the readout thread for a request repeats itself when it times out,
and so is a guard. `waitForReadout` looks at the queue
again after each wait of at most `kWaitPerLoop`, whether signalled or not: `QueueHasRoom` is
the guard of its success, and giving up while the queue is full that of its timeout. The
timeout matters: the caller keeps `mLock` while it waits, and a readout thread that has to
report itself idle wants `mLock` before it takes from the full queue, so that nothing but the
timeout gets the two apart. Spurious wake-ups of condition variables are left out. `mThreadActive` is
uninitialised in the constructor: a nondeterministic value.

`JpegFrames` names the requests that ask for a JPEG, as `MaxFrame` bounds their number. Two
constants are **assumptions**, both FALSE in `FakeCamera3Free`:

- `Prompt`: a thread that can run does run well within a frame period of 33 ms, so a reader
  that has been signalled takes its frame before the sensor's next readout, and no VSync
  falls between two waits of the VSync loop.
- `Drained`: the framework closes the camera only when everything has come back.

One more is fixed: the camera is opened again only when the compression left over from the
last session has ended (the guard `jpegPc = "off"` of `ConnectCamera`). In the code the
compressor is a member that `connectCamera` replaces, and a session that closes with a
compression under way is a hazard of its own.

### 2.2 qemud

The daemon is one thread, so one callback is one action. `EpollWait` begins a round and marks
hooks; `SerialReceive` is the serial port's callback (one packet per step; a round may handle
several, since one read may hold several), `Accept` the control socket's; `CallHangUp`,
`CallReadWrite`, `CallWild` and `CallKilled` are the outcomes of `fdhandler_event` for a
client; `SweepHooks` is the removal at the end of the round, one hook per step. The serial and
control sockets are the first two hooks of the array, never removed, and called before the
clients' in the order of the array: they are two flags here.

A `looper` is a record of the hook array and of what epoll knows: a mask and, as in the code,
a *pointer into the array* for each descriptor. Deleting, moving and reusing hooks are
modelled with those pointers, because they are where the code is delicate: `looper_find`
returns the first hook with a descriptor even when it is closing, and the sweep moves the
last hook over the deleted one.

A connection has a state: *live* (a Client and its FDHandler), *closing* (the FDHandler shut
down with packets queued), *freed*. Undefined behaviour is not explored further: `fate`
becomes "wild" when a callback runs on freed memory, and "killed" when the daemon writes to
a socket whose other end is closed (SIGPIPE is not ignored). The daemon then stops.

Clients and emulator are environment, taken from the comments at the head of `qemud.c` and
the multiplexer. A client asks for a service, waits for OK or KO, writes data once granted,
and hangs up whenever it likes; with `Hasty` it may also write before it has its answer, or
send too long a name. The emulator grants, refuses, sends and disconnects at will, and
handles its line in order.

Abstractions. A message on the line is one packet with its header; a read of a client's
socket returns one message; writes to a client are complete and never block. `Channels`
stands for 256 and channel `Channels` for -1. The fields `client` and `number` of messages
are for properties only. When every channel is taken `multiplexer_open_channel` never
returns: the action is disabled.

### 2.3 The serial line

`Serial` is what `Qemud` abstracts from: a packet of the pool is filled by `serial_send`
(the header) or by its caller (the payload), queued, written in parts of any size
(`WriteOut`), read in parts of any size (`ReadIn`) and taken apart by `serial_fd_receive`,
whose loop is `ReadHeader` and `ReadPayload` and whose end is `FreeRead`. The two ends of a line
have the same format, so the receiving half reads what the sending half of the same code wrote.
The receiver frees a packet that it gets at once, or later (`ReceiverFrees`): the client's
handler does so when the client has taken it. A byte is the value of a hexadecimal digit or
`NotHex`; `hex2int` and `int2hex` are modelled digit by digit, because a length that is not a
number and a channel that is none are cases of the code. Packets are numbered, so that it can
be said who owns one. Frames the code ignores (`Noise`) are whole frames within `MAX_PAYLOAD`:
the code does not compare a header's length with it.

### 2.4 The version 2 camera: pipeline

Three threads on top of `Sensor` and `JpegCompressor`: the configure thread (`Configure...`
actions, in the order of `ConfigureThread::threadLoop`), the readout thread (`Readout...`),
and the framework with its calls. A mutex that a thread keeps across steps is a variable that
names the holder (`mMutex`, `configureInternals`, `readoutInternals`, `readoutInput`); one that
is taken and given back in a step is a guard. So the orders in which they are taken, and the
waits this brings, are in the model. `isStreamInUse` and `getInProgressCount` are as many steps
as they take locks.

A request is a preview, a still, a reprocessing, or a bad one; its number is also its
`Buffers` pointer. The framework's queue is external, and modelled from how
`ConfigureThread::threadLoop` and `requestQueueNotify` use it: the HAL is notified when a
request comes into an empty queue. `compress` declares a
local `mFoundAux` (`JpegCompressor.cpp:121`) that hides the member, and nothing assigns the
member: every `cleanUp` reads the value the constructor left there, which is nondeterministic
and stays. The model is of one session.

The error returns of the readout thread, after which it ends with a request in its hands, are
`ReadoutFails`; an error that is only reported by `signalError` changes no state of the model.

### 2.5 The version 2 camera: control thread

A pass of `ControlThread::threadLoop` is a row of steps, each one critical section:
`ReadInputs` (copies into `pass`), `ResetAf`, `UpdateAf`, `UpdateAe`, `Sleep`, and a step for
each notification of the framework, which is made with `mInputMutex` held and needs the
camera's `mMutex`. `ProcessRequest` is the configure thread's call, `BeginTrigger` and
`EndTrigger` are the framework's. Times are whole units; scans take a time of a small set.
`lastAf`, `precaptureDue` and `afSeen` record what the framework asked and heard. AE modes
other than OFF are one. `mAeLock` and `mLockAfterPassiveScan` are uninitialised at the start:
nondeterministic. `CallsApart` is an **assumption**: no trigger comes while a state is being
written, for then the two wait for each other's mutex (hazard at line 1961).

### 2.6 The version 1 camera

The framework's calls run on one thread and share no lock between one step and the next: a
call is `todo`, the row of steps left (`doStartPreview`, `PictureSteps`, ...); an error
replaces the rest of the row by that of the error path. The worker thread goes through
`readyToRun`, `Select`, the frame, the preview window, the notifier and the end of a round. A
frame buffer is the number of its allocation, which is how a delivery from a freed one could
be told. `kind` is the fake device or the one behind the emulator's camera service, whose
queries may fail; start and stop differ. The end of a thread is libutils' and external:
`mRunning` falls and `mExitPending` is set in one step, after the last of `threadLoop`.
A stop that finds no pipe, because the worker has not run `readyToRun` yet, does not reach it:
`missed` remembers this until that worker ends. The fake device refuses a pixel format it does
not know (`commonStartDevice`), which is one of the failures. Recording, the message mask, parameters and pixels are left out.

## 3. Runs

| Run | Shows | Bounds |
|---|---|---|
| `FakeCamera3Free` | `TypeOK`, `FramesMatchRequests`, `OwnExposure`, `QueueBounded`, `ReadyMeansIdle`, `JpegReturnedOnce`, `NoUseAfterFree`, `NoBufferSetLost`, `CapturesInOrder`, with no assumption | 4 requests, any of them with a JPEG, queue of 2 |
| `FakeCamera3Live` | `RequestsComplete`, `JpegsReturn`, `CloseReturns`, and no deadlock, with the two assumptions | 4 requests, JPEGs with the first two, queue of 2 |
| `FakeCamera3LostWakeup` | *violation* of `SensorNotStuck` | 3 requests, queue of 2 |
| `QemudFree` | `NoCrossTalk`, `EmulatorAgrees`, `DeliveredInOrder` | 2 clients, 2 descriptors, 5 channels, 2 requests, 1 write, 2 sends, `Hasty` |
| `QemudWrap` | `TypeOK`, `UniqueChannels` as the channel counter wraps | 3 channels, 4 requests, no data |
| `QemudLive` | `RequestsAnswered`, `DataArrives`, `HangUpNoticed` | 5 channels, 2 requests, 1 send |
| `SerialLine` | `TypeOK`, `OwnedOnce`, `InputFits`, `IsPipe` | 2 packets of 2 contents, 1 ignored frame of 2, a line of 6 bytes, payloads up to 7 |
| `FakeCamera2` | `TypeOK`, `FramesMatchRequests`, `CapturesKept`, `CountNotShort`, `ReleasedUnused` | 3 operations of the framework, in-flight queue of 2 slots |
| `FakeCamera2LockOrder` | *violation* of `SameLockOrder` | same |
| `ControlThread` | `TypeOK`, `TablesCover`, `LockedByTrigger`, `AutoFocusAnswered`, `PrecaptureAnswered` | 3 requests or triggers, 3 AF modes, 2 AE modes, cycles of 2, scans of 2 or 3 |
| `EmulatedCamera` | `TypeOK`, `FrameAlive`, `PictureTaken` | 7 calls, 2 failures, both devices |
| `EmulatedCameraStop` | *violation* of `StopWaits` | 4 calls, fake device |

What the properties say, and where they bite:

- `FramesMatchRequests`: the frame the readout thread holds was captured into the buffers of
  the request it completes. Frames and requests travel by different ways (the sensor's three
  stages, the queue) and are paired by position. `CapturesInOrder` is the refinement of
  `CaptureService` by queue and results.
- `NoBufferSetLost`: two calls of `setDestinationBuffers` always have a latch between them.
- `OwnExposure`: the setters are separate critical sections, and a frame period may begin
  between any two; the order exposure, buffers is what makes this safe.
- `QueueBounded`, `ReadyMeansIdle`: decisions made under one lock and acted on later under
  another.
- `JpegReturnedOnce`, `NoUseAfterFree`: ownership of buffers between readout thread,
  compressor and listener. `NoUseAfterFree` excuses one set, that of a `start` that could not
  run its thread: `start` and the readout thread both delete it, whatever the framework does
  (hazard at `JpegCompressor.cpp:66`).
- `RequestsComplete`: the results catch up with the requests accepted. The readout thread that
  waits for `mLock` with the queue full, and the caller that waits with `mLock` for room in it,
  must not hold each other for ever: the timeout has to come.
- `NoCrossTalk`, `EmulatorAgrees`: channels come back into use while messages of their
  last user are still on the line; the two ends agree but for what is on the line.
- `DeliveredInOrder`: refinement of `ConnectionService`.
- `IsPipe`: refinement of `PacketPipe`, its liveness included: whatever the splits and the
  ignored frames between, packets come out as they went in, and all of them. `OwnedOnce`: no
  packet of the pool is freed twice, lost, or filled while another part still holds it.
  `InputFits`: what is copied stays in the packet, and the loop always has something to copy.
- `CapturesKept`: requests keep their order and none is lost, except a reprocessing that finds
  the in-flight queue full: only captures wait for room. `CountNotShort`: an answer of 0 means
  that everything under way as the call began has ended. `ReleasedUnused`: a stream released
  is in no request under way. Both rest on asking the threads in the order in which requests
  pass through them.
- `TablesCover`: no request, in the middle of a pass, can bring the focus tables to a state
  they call unexpected. `LockedByTrigger`: no passive scan, mode change or cancel leaves a lock
  nobody asked for. `AutoFocusAnswered`, `PrecaptureAnswered`: a trigger at any moment is
  answered with its number, unless a later trigger, a cancel or a change of mode took its place.
- `FrameAlive`: the worker delivers only from a frame buffer that is there to callbacks that
  are there, though calls free both. `PictureTaken`: the picture comes.

`FakeCamera3Live` needs its two assumptions. Without `Prompt` the lost wake-up of section 5
leaves requests without results. `Drained` is there because `closeCamera` drops what is left, and
because it joins the readout thread with `mLock` held while that thread may want `mLock`:
what closing does to a camera that has not drained is a hazard that no property here covers.

`PrecaptureAnswered` is lenient in one case: a precapture that an unlock of AE in the middle of
its scan makes the thread forget counts as answered by a later ordinary scan.

### Why the bounds are enough

*Camera.* The queue holds two requests in the code (`kMaxQueueSize`, `EmulatedFakeCamera3.h:228`)
and in the runs. Four requests are the fewest that bring every wait about: with three, the
caller is never in `waitForReadout` with the queue full while the readout thread, done with the
first request, is on its way to report itself idle. The lost wake-up needs only
three. The theorems of section 6 hold for every size and number. Opening and closing are not bounded: sessions
repeat, with frame numbers running on.

*qemud.* Two clients and two descriptors make every reuse of a hook, a descriptor and a
channel possible: a descriptor freed by one client is the next one's in the same round. In
`QemudFree` there are more channels than requests, so a channel is not reused while messages of
its last user are in flight: at 256 channels it takes 255 requests between two uses, in the
time a message spends on the line. `QemudWrap` is about the reuse itself, and its channels wrap
with clients still connected. A third client adds no further relation between hooks than first
and last.

*Serial line.* A line of 6 bytes splits header and payload at every byte, and its writes and
reads too; two packets make one wait behind another and the pool reuse what was freed; the
contents are one that reads like a header, and one that is no number.

*Version 2.* Three operations, for instance a capture, a reprocessing and a release or a
count, put a request in each thread while the third is being done; with two slots the queue is
full with one request in it, the smallest size of the code's kind (the code has 4). A
scan of three units spans two passes, so a trigger comes before, in, between and after passes.

*Version 1.* Seven calls let a picture, a preview and a close follow each other with errors of
the service at any two of their queries; the theorem of section 6 has no such bound.

`CHECK_DEADLOCK FALSE` is given where the system may stop: after `MaxFrame` requests with a
framework that gave up half way or a sensor that is stuck; in qemud when every client has hung
up, or the daemon is dead; in the others when the bounds on inputs, calls and operations are
reached, and in `FakeCamera2` where mutexes are waited for in a circle (section 5).
`FakeCamera3Live` checks deadlock.

## 4. Fairness

*Camera.* Threads that can run do: weak fairness of the readout and JPEG threads and of the
caller's steps inside a call. Strong fairness of the sensor thread, which with `Prompt` is held
up for moments at a time by the caller in the VSync loop, and of `SignalReadoutIdle`, which
needs `mLock` while the caller takes and releases it: the mutexes of the platform are not
fair, but the caller leaves the lock between calls, and a call takes at least a frame
period. The caller's waits are `waitRelative` in loops of a bounded number: weak fairness of
`CallerTimeout` says that one that goes on ends by its timeout. The readout thread's
timeouts are part of `ReadoutStep`. Nothing makes the framework call.

*qemud.* Weak fairness of the daemon as a whole (it is one loop) and of the emulator's reading
of its line. Clients need do nothing. Liveness properties excuse clients that hung up, were
thrown out for haste, whose hook has no IN, or whose daemon is dead: the two defects of
`looper_find` and of deleted hooks in section 5.

*Serial line.* Weak fairness of writing, of reading and of the handler, which runs to its end.

*Control thread.* Weak fairness of the thread and of a call under way. Strong fairness of the
start of an AE scan: `maybeStartAeScan` starts one at each pass with a fixed probability, so
in a run in which it could start again and again it does.

*Version 1.* Weak fairness of the worker and of the steps of a call under way; nothing makes
the framework call.

`FakeCamera2` states safety only: its deadlocks (section 5) leave nothing that must happen.

## 5. Where code and comments disagree

Three are counterexamples of runs; `PROJECT.json` quotes the lines.

- **Lost wake-up** (`Sensor.cpp:204-206, 291-294`). `waitForNewFrame` signals
  `mReadoutComplete` only when the frame was there at once. A reader that was blocked, is
  signalled, and runs only after the sensor began to wait for it takes the frame and tells
  nobody: the sensor waits for ever, and with it every later request and `closeCamera`.
- **Lock order** (`EmulatedFakeCamera2.cpp:1183-1185, 1219, 1239`). `isStreamInUse` "acquires
  in same order as threadLoop" the readout thread's mutexes, and takes them in the opposite
  one: `releaseStream` and the thread wait for each other.
- **Stopping too early** (`EmulatedCameraDevice.cpp:286-316`, `EmulatedCameraDevice.h:336`).
  A stop that comes before the worker has run `readyToRun` fails at once instead of waiting
  for the thread, and the frame buffer is freed under it.

Others that the models contain, or exclude by a named assumption, without a run of their own:

- `EmulatedFakeCamera2`: the configure thread (holding its `mInternalsMutex`, asking for
  `mMutex` in `getStreamInfo`) against `releaseStream`; `closeCamera` waiting with `mMutex`
  for the compressor, whose listener asks for it; `updateAfState` against `triggerAction`
  (the assumption `CallsApart`).
- `EmulatedFakeCamera3.cpp:1931`: "This shouldn't happen", but a second JPEG does reach the
  readout thread with the first under way: the stall looks at the compressor two frames earlier.
- `EmulatedFakeCamera3.cpp:989-990`: a frame period that begins between the two setters gives
  the shutter notification the number of the frame before.
- `qemud.c:849-851, 926-943`: `fdhandler_shutdown` promises to free the handler after the last
  packet; nothing does.
- `qemud.c:533-538`: a handler freed by the serial port's callback is called in the same round
  if it was marked (`CallWild`).
- `qemud.c:368-379, 962`: a descriptor freed and accepted again in one round gets its events
  enabled on the old, closing hook: the client is not listened to.
- `qemud.c:1551`: the counter's mask yields channel 0, the control channel.

## 6. Theorems

All theorems are about `Spec`, for every value of the constants that satisfies the `ASSUME`s
of the modules; in particular for any number of requests, clients, descriptors and channels.

`FakeCamera3Proofs`:

- `TypeCorrect`: `TypeOK`, in two parts. `VarTypes` is inductive. `NothingNull`, that what a
  step is about to follow is not a null pointer, is not: it comes out of the invariants below,
  and of `FreeInv` for the compressor.
- `ExposureCorrect`, `BuffersLatched`: `OwnExposure` says nothing of the time before the
  latch; `ExposureInv` adds that from the VSync to `setDestinationBuffers` the next
  set is empty (a VSync empties it, nothing else fills it), and that while it is not, the
  exposure is that of its frame. `NoBufferSetLost` follows from the same invariant.
- `QueueCorrect`: the room found by `waitForReadout` stays until the request is appended,
  because only the caller appends: `QueueInv`.
- `IdleCorrect`: in OPEN and READY the queue is empty and the readout thread has nothing in
  hand: `IdleInv`, where a caller within `processCaptureRequest` implies ACTIVE.
- `FramesCorrect`: `PipeInv`. Counted from the reader, each occupied place of the sensor
  (`mCapturedBuffers`, the captured frame, the latched one, `mNextBuffers`) holds the
  number after that of the place before it (`SensorPipe`); the requests, current and
  queued, are numbered from the same point (`RequestPipe`). Both end at `nextFrame`. So the
  frame taken next is that of the request that waits for it, and `FramesMatchRequests` follows. It
  needs `ExposureInv`, without which a set could be overwritten and the count be off by one.
- `JpegCorrect`: `JpegInv`. The buffers of a frame belong to the readout thread from when it
  takes the frame until the compressor takes them, and to the compressor until it is done;
  while either has them their number is not among the returned, and a number comes once because
  frames are taken in their order.
- `CapturesCorrect`: the refinement of `CaptureService`. `OrderInv` says of the results what
  `PipeInv` says of the queue: those sent are below the current request, whose number is below
  those queued. Each action is shown to accept, complete, close or stutter.
- `FreedUnused`: with no hypothesis. `FreeInv`: a deleted set is one that nobody will look at
  again. Its parts say who has a set: the sensor those not yet read, the compressor the one it
  works on, the readout thread the one in its hands, and nothing numbered later than what the
  readout thread has taken is deleted while the camera is open.
  The set of a `start` that failed is the exception that `NoUseAfterFree` names.

`QemudProofs`:

- `TypeCorrect`: with `TypeInv`, which adds that a marked serial port or control socket has
  something to read. Lemmas give the type of what every operation of the looper returns; that
  an index chosen as the least of its kind is in range comes from the well-foundedness of <.
- `ChannelsUnique`: `multiplexer_open_channel` yields a channel that no live client has, and no
  other step gives a client a channel.

`QemudLinkProofs`: `CrossTalkFree` and `SidesAgree`, as long as the channel counter has not
wrapped, which each theorem says as `last_channel < Channels`: after a wrap a channel may be used
again with messages of its last user on the line, and both are false. In the runs this follows
from `MaxOpens < Channels`; in the code it is an assumption about 255 requests against the time
a message spends on the line. `ConnsInv` ties the connections to the looper's hooks. The
heart is `Link`, a relation between the channels of the clients, who is registered, the
messages on the line in each direction and the emulator's table: a channel belongs for ever to
the client it was given to (`Owned`), and a connect, an OK, a KO, a disconnection on the line
each mean something of both ends (`RequestsNew`, `ClientsKnown`, `FarewellsTrue`). It is
stated with parameters, so that each event (relay, open, drop, leave, register, take, grant,
refuse, send) is one lemma without the rest of the state, and an action is one event or two.

`ServiceCorrect` is the refinement of `ConnectionService`, under the same condition at every moment
of the behaviour. What a client has been written must go on, without a gap, through its handler's
queue and then the line from the emulator. `OrderInv` says that for every client: the data
queued is numbered on from what was written, and nothing but data follows data (`Numbered`);
until the client is gone the numbers on the line are exactly those from the end of the queue
to the last sent (`Served`), in order (`DataInOrder`). That a grant comes before all data
takes `Flow`: while a client has neither been registered nor gone, data on its channel has the OK
before it on the line (`AnswersFirst`). A client that is gone may lose the end of its data but gets
nothing out of order. `Link` is needed for a channel to mean one client only.

`ControlThreadProofs`: for any modes, durations and numbers of inputs. The invariant adds to
`TypeOK` that the mode a pass works on is the current one or a change is noted (`ModeKnown`);
that the state of focus fits the mode at each step of the pass, with a reset between for
a mode that changed (`Covered`); and that a locked or locking state, and
`mLockAfterPassiveScan`, come with an ask of the framework, or a cancel or change not yet seen
(`Locks`). `FocusTablesCover` and `FocusLockedByTrigger` follow.

`SerialProofs`: for any size of packets and of the line, any payloads and noise.

- `TypeCorrect`: a length read from four hexadecimal digits is at most `MaxDatalen`.
- `PacketsOwned`: `OwnerInv`, stated over the pool, the queue, the packet being read, the one
  being filled and those with the receiver; the operations of the pool are lemmas.
- `ReceiveAdvances`: an action property that no run lists: each pass of the loop of
  `serial_fd_receive` takes at least one byte and stays within what was read.
- `InputCorrect` and `PipeCorrect` (what is posted is what was sent: the safety half of
  `IsPipe`) rest on `PipeInv`. Nothing in it is defined by recursion; it says that there is a
  *stream* of bytes, a function of places, in which everything the daemon has lies somewhere:
  - `Writer`: the packets of the queue, one after the other, end it, and what has been written
    of the first comes before (`out_pos`);
  - `Coming`: up to there go, without a gap, what is in the input packet, what is left of the
    packet being read, and the line (`Unread`);
  - `Framed`: places cut the stream into frames, header and payload of the next packet sent or
    a frame to be ignored; a count for each place says how many packets lie before;
  - `Reader`: the input packet begins at a cut, or just after a header, in a frame whose
    header said what `in_datalen` and `in_channel` say; what has been posted are the packets
    before that frame.

  Sending continues the stream by a header and its payload (`PipeSend`); writing and reading
  move bytes along it, the two ends of `Unread` apart (`PipeWrite`, `ReadPiped`, `RestRead`);
  a whole header says what was written into it, since `hex2int` undoes `int2hex`
  (`HexInverse2`, `HexInverse4`, `HeaderSays`), and a whole payload is that of the next
  packet (`FrameRead`). `SerialInv` supplies that no part writes over another's packet
  (`Kept`, what an action leaves of the packets it does not own). TLC cannot evaluate
  `PipeInv`, which is about functions on all numbers; it checks what follows from it.
  The frames to be ignored are whole ones (`NoiseAssumption`), and no payload on the line is
  longer than `MAX_PAYLOAD`: of an emulator that breaks the format nothing is said.

`FakeCamera2Proofs`: for any number of operations and slots, with no assumption on timing.

- `TypeCorrect`: `TypeInv` adds to the types which mutex is held at which step.
- `RequestsKept`: `LineInv`. The results, the readout thread's request, the in-flight queue, the
  configure thread's request and the framework's queue, read in this order, are one increasing
  line of numbers; a number missing from it is a reprocessing that was dropped. A capture finds
  room because the configure thread waited for it and nobody else fills the queue (`HasRoom`).
- `FramesCorrect`: `FrameInv`. The sets of buffers in the sensor, in the order of its stages, are
  increasing (`FrameOrder`) and, with the one the configure thread has queued but not yet set, are
  exactly those of the captures that the readout thread has, or has queued, and has no frame for
  (`InSensor = Awaited`): so the first to come out is that of the first capture that waits,
  whatever reprocessing is between.
- `StreamsReleased`, `CountComplete`: `StreamInv` and `CountInv` say, for each step of the
  question, that what was found clear of the stream (or of the requests counted) stays clear,
  because requests only move towards the threads that are asked later (`RequestsFlow`).

`EmulatedCameraProofs`: `FramesAlive`, for any number of calls and failures, with no
assumption. The invariant speaks of the row of steps left of a call: a row that starts the
device or the worker first stops what runs (`RowOK`), the device is STARTED with a frame
while the worker runs (`DeviceOK`), and the worker has the device's frame where it delivers
(`WorkerOK`); each of a worker that runs and that no stop has missed (`Live`). A stop that
finds the pipe always reaches its thread, and the excuse lasts only as long as the thread that
was missed: `EmulatedCameraStop` shows that there are such threads. For `TypeCorrect`: what bounds the allocations is what the row of the call still owes (`Owed`), since a
picture that fails starts the preview again; what bounds the messages in the pipe is that a
THREAD_STOP there means a caller at `join`, which closes the pipe.

`SequenceFacts` proves by the well-foundedness of < (`LeastNatural`) and by pointwise reasoning
what the proofs above need of `Append`, `Tail`, concatenation and ranges.

Only model-checked:

- all liveness: `RequestsComplete`, `JpegsReturn`, `CloseReturns`, `RequestsAnswered`,
  `DataArrives`, `HangUpNoticed`, `AutoFocusAnswered`, `PrecaptureAnswered`, `PictureTaken`, and
  that part of `IsPipe`: fairness is outside what the proof system can do;
- that `MaxOpens < Channels` keeps the counter from wrapping: this needs a count of the names in
  the inboxes of all clients, a sum over a function.

## 7. Plan, and what is not modelled

Modelled, in this order: the version 3 camera (the most concurrent code of the repository),
qemud (everything else talks to the emulator through it), the framing of its line, the version 2
pipeline and control thread, the version 1 camera.

Worth proving next: that `MaxOpens < Channels` keeps the channel counter from wrapping, which
would free the theorems of `QemudLinkProofs` from their hypothesis for that case.

Not modelled:

- **GL encoders, EGL, renderer protocol** (`opengl/`): most of the repository's lines of code,
  generated from tables of GL calls, each of which marshals its arguments into a stream, so
  that only a small share of all lines is in any model here. `GLClientState` caches values
  that the encoders read, on one thread for each context.
- **gralloc**: the life of a buffer is decided by handles shared with a renderer process and
  by mappings of the kernel, neither of which is in the repository.
- **Fake 3A of HAL 3** (`process3A`): runs to its end on the caller's thread for each
  request. In `FakeCamera3` it is a failure that may occur.
- **Recording, parameters, auto focus and the message mask of HAL 1; streams' allocation,
  metadata of frames, buffer locks of HAL 2 and 3**: data, or operations of the framework's
  thread alone. The exception is `releaseRecordingFrame`, listed under hazards.
- **Factory and hot-plug**: a debugging feature; one flag per camera.
- **Sensors and GPS HALs**: sequential loops over text; their defects are visible by reading.
- **Camera service client, pixel conversion, libjpeg; audio, lights, vibrator, power;
  qemu-props and tests**: text, data, or one message each.
- **mediatek, vanzo, sample, google**: configuration, overlays, headers, board designs, and
  code whose other half is a vendor library outside the repository.

## 8. How to run

    tlc -config FakeCamera3Free.cfg FakeCamera3      # 1.9 million states, a minute
    tlc -config FakeCamera3Live.cfg FakeCamera3      # 238 000 states, over two minutes
    tlc -config FakeCamera3LostWakeup.cfg FakeCamera3
    tlc -config QemudFree.cfg MCQemud                # 2.7 million states, two minutes
    tlc -config QemudWrap.cfg MCQemud
    tlc -config QemudLive.cfg Qemud
    tlc -config SerialLine.cfg MCSerial              # 1.7 million states, two minutes
    tlc -config FakeCamera2.cfg FakeCamera2          # 3.3 million states, a minute and a half
    tlc -config FakeCamera2LockOrder.cfg FakeCamera2
    tlc -config ControlThread.cfg ControlThread      # two minutes
    tlc -config EmulatedCamera.cfg EmulatedCamera    # 595 000 states, half a minute
    tlc -config EmulatedCameraStop.cfg EmulatedCamera
    tlapm SequenceFacts.tla
    tlapm FakeCamera3Proofs.tla
    tlapm FakeCamera2Proofs.tla
    tlapm ControlThreadProofs.tla
    tlapm EmulatedCameraProofs.tla
    tlapm QemudProofs.tla
    tlapm QemudLinkProofs.tla
    tlapm SerialProofs.tla
