------------------------- MODULE EmulatedCameraProofs -------------------------
(***************************************************************************)
(* Proof that the version 1 camera never frees a frame buffer, nor drops   *)
(* the callbacks, under its worker thread (FrameAlive): a thread that no   *)
(* stop has missed.                                                        *)
(*                                                                         *)
(* A call is a row of steps.  While such a thread runs the device is       *)
(* started, and every step of the row that needs a quiet worker comes      *)
(* after one that stops it; a step that starts the worker is the last of   *)
(* its row and comes after one that starts the device.                     *)
(*                                                                         *)
(* And proof of the type invariant (TypeCorrect), whose bound on the       *)
(* allocations is counted against what is left of the row.                 *)
(***************************************************************************)
EXTENDS EmulatedCamera, TLAPS

Stopping     == {"stop", "stopThread", "join"}
StartSteps   == {"startForPreview", "startForPicture"}
DeliverSteps == {"deliver", "deliverOne"}
EndSteps     == {"takePicture", "deliver", "deliverOne"}
NeedsQuiet   == {"startForPreview", "startForPicture", "deliver", "deliverOne", "stopDevice",
                 "disconnect", "cleanup"}

\* Of a row: steps of kind s come after one of kind t.
After(row, s, t) ==
    \A i \in 1..Len(row) : row[i] \in s => \E j \in 1..Len(row) : j < i /\ row[j] \in t

Has(row, s) == \E i \in 1..Len(row) : row[i] \in s

\* A step that starts the device is followed by those that start the worker, at the end.
GoodRow(row) ==
    /\ row \in Seq(Steps)
    /\ \A i \in 1..Len(row) : row[i] \in DeliverSteps => i = Len(row)
    /\ \A i, k \in 1..Len(row) : i < k /\ row[i] \in StartSteps => row[k] \in EndSteps

\* ... and the device has been started.
AboutToDeliver(row) == \A i \in 1..Len(row) : row[i] \in EndSteps

\* The worker runs, and no stop has missed it.
Live == mRunning /\ ~missed

RowOK ==
    /\ GoodRow(todo)
    /\ Live => After(todo, NeedsQuiet, Stopping)
    /\ \/ After(todo, DeliverSteps, StartSteps)
       \/ mState = "STARTED" /\ AboutToDeliver(todo)
    /\ Has(todo, StartSteps \cup DeliverSteps) => opened
    /\ Has(todo, {"cleanup"}) => ~opened

DeviceOK ==
    /\ mState \in {"INITIALIZED", "CONNECTED", "STARTED"}
    /\ mCurrentFrame \in Nat /\ allocations \in Nat
    /\ mState = "STARTED" => mCurrentFrame # 0
    /\ opened => mDataCB

WorkerOK ==
    /\ mRunning <=> workerPc # "off"
    /\ missed => mRunning
    /\ Live => mState = "STARTED" /\ mDataCB
    /\ workerPc \notin {"off", "created"} => pipeOpen
    /\ Delivering /\ Live => workerFrame = mCurrentFrame

IInv == RowOK /\ DeviceOK /\ WorkerOK

-----------------------------------------------------------------------------
(* Rows.                                                                   *)

\* The row of a call that begins.
Fresh(row) ==
    GoodRow(row) /\ After(row, NeedsQuiet, Stopping) /\ After(row, DeliverSteps, StartSteps)

LEMMA EmptyRow == Fresh(<<>>) /\ \A s : ~Has(<<>>, s)
BY DEF Fresh, GoodRow, After, Has

LEMMA StartRow == Fresh(doStartPreview) /\ ~Has(doStartPreview, {"cleanup"})
BY DEF Fresh, GoodRow, After, Has, doStartPreview, Steps, NeedsQuiet, Stopping, DeliverSteps,
       StartSteps, EndSteps

\* One step that needs nothing.
LEMMA OneStep ==
    ASSUME NEW s \in {"connect", "previewOff"}
    PROVE  Fresh(<<s>>) /\ ~Has(<<s>>, StartSteps \cup DeliverSteps \cup {"cleanup"})
BY DEF Fresh, GoodRow, After, Has, Steps, NeedsQuiet, Stopping, DeliverSteps, StartSteps

LEMMA StopRow == Fresh(doStopPreview) /\ ~Has(doStopPreview, StartSteps \cup DeliverSteps \cup {"cleanup"})
<1>1. CASE mPreviewEnabled
    <2>1. doStopPreview = <<"stop", "previewOffIfStopped">>
        BY <1>1 DEF doStopPreview
    <2> QED BY <2>1 DEF Fresh, GoodRow, After, Has, Steps, NeedsQuiet, Stopping, DeliverSteps,
                        StartSteps
<1>2. CASE ~mPreviewEnabled
    <2>1. doStopPreview = <<>>
        BY <1>2 DEF doStopPreview
    <2> QED BY <2>1, EmptyRow
<1> QED BY <1>1, <1>2

\* The two rows of takePicture, step by step.
LEMMA PictureRow ==
    LET row == doStopPreview \o PictureSteps
    IN  Fresh(row) /\ ~Has(row, {"cleanup"})
<1> DEFINE row == doStopPreview \o PictureSteps
<1> USE DEF Fresh, GoodRow, After, Has, NeedsQuiet, Stopping, DeliverSteps, StartSteps, EndSteps
<1>1. CASE mPreviewEnabled
    <2>1. /\ row \in Seq(Steps) /\ Len(row) = 6
          /\ row[1] = "stop" /\ row[2] = "previewOffIfStopped" /\ row[3] = "stop"
          /\ row[4] = "startForPicture" /\ row[5] = "takePicture" /\ row[6] = "deliverOne"
        BY <1>1 DEF doStopPreview, PictureSteps, Steps
    <2> HIDE DEF row
    <2>2. Fresh(row) /\ ~Has(row, {"cleanup"})
        BY <2>1
    <2> QED BY <2>2 DEF row
<1>2. CASE ~mPreviewEnabled
    <2>1. /\ row \in Seq(Steps) /\ Len(row) = 4
          /\ row[1] = "stop" /\ row[2] = "startForPicture" /\ row[3] = "takePicture"
          /\ row[4] = "deliverOne"
        BY <1>2 DEF doStopPreview, PictureSteps, Steps
    <2> HIDE DEF row
    <2>2. Fresh(row) /\ ~Has(row, {"cleanup"})
        BY <2>1
    <2> QED BY <2>2 DEF row
<1> QED BY <1>1, <1>2

\* The two rows of closeCamera.
LEMMA CloseRow ==
    LET row == doStopPreview \o <<"stop", "disconnect", "cleanup">>
    IN  Fresh(row) /\ ~Has(row, StartSteps \cup DeliverSteps)
<1> DEFINE row == doStopPreview \o <<"stop", "disconnect", "cleanup">>
<1> USE DEF Fresh, GoodRow, After, Has, NeedsQuiet, Stopping, DeliverSteps, StartSteps
<1>1. CASE mPreviewEnabled
    <2>1. /\ row \in Seq(Steps) /\ Len(row) = 5
          /\ row[1] = "stop" /\ row[2] = "previewOffIfStopped" /\ row[3] = "stop"
          /\ row[4] = "disconnect" /\ row[5] = "cleanup"
        BY <1>1 DEF doStopPreview, Steps
    <2> HIDE DEF row
    <2>2. Fresh(row) /\ ~Has(row, StartSteps \cup DeliverSteps)
        BY <2>1
    <2> QED BY <2>2 DEF row
<1>2. CASE ~mPreviewEnabled
    <2>1. /\ row \in Seq(Steps) /\ Len(row) = 3
          /\ row[1] = "stop" /\ row[2] = "disconnect" /\ row[3] = "cleanup"
        BY <1>2 DEF doStopPreview, Steps
    <2> HIDE DEF row
    <2>2. Fresh(row) /\ ~Has(row, StartSteps \cup DeliverSteps)
        BY <2>1
    <2> QED BY <2>2 DEF row
<1> QED BY <1>1, <1>2

\* What is left of a row when its first step is done.
LEMMA TailRow ==
    ASSUME NEW row, GoodRow(row), row # <<>>
    PROVE  /\ GoodRow(Tail(row))
           /\ \A s : Has(Tail(row), s) => Has(row, s)
           /\ \A s, t : After(row, s, t) /\ row[1] \notin t => After(Tail(row), s, t)
           /\ AboutToDeliver(row) => AboutToDeliver(Tail(row))
           /\ row[1] \in StartSteps => AboutToDeliver(Tail(row))
<1>1. row \in Seq(Steps) /\ Tail(row) \in Seq(Steps) /\ Len(row) \in Nat \ {0}
      /\ Len(Tail(row)) = Len(row) - 1 /\ \A i \in 1..Len(Tail(row)) : Tail(row)[i] = row[i + 1]
    BY DEF GoodRow
<1>2. \A i \in 1..Len(Tail(row)) : i + 1 \in 1..Len(row)
    BY <1>1
<1>3. GoodRow(Tail(row))
    <2>1. ASSUME NEW i \in 1..Len(Tail(row)), Tail(row)[i] \in DeliverSteps
          PROVE  i = Len(Tail(row))
        <3>1. PICK m \in 1..Len(row) : m = i + 1
            BY <1>2
        <3>2. row[m] \in DeliverSteps
            BY <1>1, <2>1, <3>1
        <3>3. m = Len(row)
            BY <3>2 DEF GoodRow
        <3>4. i \in Nat /\ Len(row) \in Nat \ {0} /\ Len(Tail(row)) = Len(row) - 1
            BY <1>1
        <3> QED BY <3>1, <3>3, <3>4
    <2>2. ASSUME NEW i \in 1..Len(Tail(row)), NEW k \in 1..Len(Tail(row)), i < k,
                 Tail(row)[i] \in StartSteps
          PROVE  Tail(row)[k] \in EndSteps
        <3>1. i + 1 \in 1..Len(row) /\ k + 1 \in 1..Len(row) /\ i + 1 < k + 1
            BY <1>2, <2>2
        <3> QED BY <1>1, <2>2, <3>1 DEF GoodRow
    <2> QED BY <1>1, <2>1, <2>2 DEF GoodRow
<1>4. \A s : Has(Tail(row), s) => Has(row, s)
    BY <1>1, <1>2 DEF Has
<1>5. ASSUME NEW s, NEW t, After(row, s, t), row[1] \notin t
      PROVE  After(Tail(row), s, t)
    <2>1. SUFFICES ASSUME NEW i \in 1..Len(Tail(row)), Tail(row)[i] \in s
                   PROVE  \E j \in 1..Len(Tail(row)) : j < i /\ Tail(row)[j] \in t
        BY DEF After
    <2>2. PICK j \in 1..Len(row) : j < i + 1 /\ row[j] \in t
        BY <1>1, <1>2, <1>5, <2>1 DEF After
    <2>3. j - 1 \in 1..Len(Tail(row)) /\ j - 1 < i /\ Tail(row)[j - 1] = row[j]
        BY <1>1, <1>5, <2>1, <2>2
    <2> QED BY <2>2, <2>3
<1>6. /\ AboutToDeliver(row) => AboutToDeliver(Tail(row))
      /\ row[1] \in StartSteps => AboutToDeliver(Tail(row))
    <2>1. AboutToDeliver(row) => AboutToDeliver(Tail(row))
        BY <1>1, <1>2 DEF AboutToDeliver
    <2>2. ASSUME row[1] \in StartSteps, NEW i \in 1..Len(Tail(row))
          PROVE  Tail(row)[i] \in EndSteps
        <3>1. 1 \in 1..Len(row) /\ i + 1 \in 1..Len(row) /\ 1 < i + 1
            BY <1>1, <1>2
        <3> QED BY <1>1, <2>2, <3>1 DEF GoodRow
    <2> QED BY <2>1, <2>2 DEF AboutToDeliver
<1> QED BY <1>3, <1>4, <1>5, <1>6

\* Steps that nothing puts before the rest of a row.
Rising == StartSteps \cup DeliverSteps \cup {"cleanup"}

\* A step that is the first of those that stop the worker.
LEMMA StoppingRow ==
    ASSUME NEW row, GoodRow(row), row # <<>>, row[1] \in Stopping,
           NEW steps \in {<<"join">>, <<"stopThread", "stopDevice">>}
    PROVE  LET new == steps \o Tail(row)
           IN  /\ GoodRow(new) /\ After(new, NeedsQuiet, Stopping)
               /\ \A s \in SUBSET Rising : Has(new, s) => Has(row, s)
               /\ After(row, DeliverSteps, StartSteps) => After(new, DeliverSteps, StartSteps)
<1> DEFINE new == steps \o Tail(row)
           n == Len(steps)
<1>1. row \in Seq(Steps) /\ Tail(row) \in Seq(Steps) /\ Len(row) \in Nat \ {0}
      /\ Len(Tail(row)) = Len(row) - 1 /\ \A i \in 1..Len(Tail(row)) : Tail(row)[i] = row[i + 1]
    BY DEF GoodRow
<1>2. steps \in Seq(Steps) /\ n \in {1, 2} /\ steps[1] \in Stopping
      /\ \A i \in 1..n : steps[i] \in {"join", "stopThread", "stopDevice"}
    <2>1. CASE steps = <<"join">>
        BY <2>1 DEF Steps, Stopping
    <2>2. CASE steps = <<"stopThread", "stopDevice">>
        BY <2>2 DEF Steps, Stopping
    <2> QED BY <2>1, <2>2
<1>3. new \in Seq(Steps) /\ Len(new) = n + Len(row) - 1
      /\ (\A i \in 1..n : new[i] = steps[i])
      /\ (\A i \in 2..Len(row) : new[i + n - 1] = row[i])
    BY <1>1, <1>2
<1> HIDE DEF new, n
<1>4. \A i \in 1..Len(new) : i > n => i - n + 1 \in 2..Len(row) /\ new[i] = row[i - n + 1]
    BY <1>1, <1>2, <1>3
<1>5. \A i \in 1..Len(new) :
          new[i] \in StartSteps \cup DeliverSteps \cup {"cleanup"} => i > n
    BY SMTT(30), <1>2, <1>3 DEF StartSteps, DeliverSteps
<1>6. GoodRow(new)
    <2>1. ASSUME NEW i \in 1..Len(new), new[i] \in DeliverSteps
          PROVE  i = Len(new)
        <3>1. PICK m \in 1..Len(row) : m = i - n + 1 /\ new[i] = row[m]
            BY <1>1, <1>4, <1>5, <2>1
        <3>2. m = Len(row)
            BY <2>1, <3>1 DEF GoodRow
        <3> QED BY <1>1, <1>2, <1>3, <3>1, <3>2
    <2>2. ASSUME NEW i \in 1..Len(new), NEW k \in 1..Len(new), i < k, new[i] \in StartSteps
          PROVE  new[k] \in EndSteps
        <3>1. i > n /\ k > n
            BY <1>2, <1>5, <2>2
        <3>2. /\ i - n + 1 \in 1..Len(row) /\ k - n + 1 \in 1..Len(row)
              /\ i - n + 1 < k - n + 1 /\ row[i - n + 1] \in StartSteps
              /\ new[k] = row[k - n + 1]
            BY <1>1, <1>2, <1>3, <1>4, <2>2, <3>1
        <3> QED BY <3>2 DEF GoodRow
    <2> QED BY <1>3, <2>1, <2>2 DEF GoodRow
<1>7. After(new, NeedsQuiet, Stopping)
    BY <1>1, <1>2, <1>3 DEF After, NeedsQuiet, Stopping
<1>8. \A s \in SUBSET Rising : Has(new, s) => Has(row, s)
    <2> SUFFICES ASSUME NEW s \in SUBSET Rising,
                        NEW i \in 1..Len(new), new[i] \in s
                 PROVE  \E j \in 1..Len(row) : row[j] \in s
        BY DEF Has
    <2>1. i > n
        BY <1>5 DEF Rising
    <2>2. i - n + 1 \in 1..Len(row) /\ new[i] = row[i - n + 1]
        BY <1>1, <1>4, <2>1
    <2> QED BY <2>2
<1>9. ASSUME After(row, DeliverSteps, StartSteps)
      PROVE  After(new, DeliverSteps, StartSteps)
    <2>1. SUFFICES ASSUME NEW i \in 1..Len(new), new[i] \in DeliverSteps
                   PROVE  \E j \in 1..Len(new) : j < i /\ new[j] \in StartSteps
        BY DEF After
    <2>2. PICK j \in 1..Len(row) : j < i - n + 1 /\ row[j] \in StartSteps
        BY <1>2, <1>4, <1>5, <1>9, <2>1 DEF After
    <2>3. j # 1
        BY <2>2 DEF Stopping, StartSteps
    <2>4. j + n - 1 \in 1..Len(new) /\ j + n - 1 < i /\ new[j + n - 1] = row[j]
        BY <1>1, <1>2, <1>3, <2>1, <2>2, <2>3
    <2> QED BY <2>2, <2>4
<1> QED BY <1>6, <1>7, <1>8, <1>9 DEF new

-----------------------------------------------------------------------------
(* The steps of the calls.                                                 *)

\* A first step that needs a quiet worker finds one.
LEMMA QuietHead ==
    ASSUME RowOK, todo # <<>>, todo[1] \in NeedsQuiet
    PROVE  ~Live
<1>1. 1 \in 1..Len(todo)
    BY DEF RowOK, GoodRow
<1>2. ~ \E j \in 1..Len(todo) : j < 1 /\ todo[j] \in Stopping
    BY DEF RowOK, GoodRow
<1> QED BY <1>1, <1>2 DEF RowOK, After

LEMMA FirstOfRow ==
    ASSUME RowOK, NEW s, Step(s)
    PROVE  todo # <<>> /\ todo[1] = s /\ 1 \in 1..Len(todo) /\ GoodRow(todo)
BY DEF Step, RowOK, GoodRow

\* A call begins.
LEMMA FreshOK ==
    ASSUME Fresh(todo'), Has(todo', StartSteps \cup DeliverSteps) => opened',
           Has(todo', {"cleanup"}) => ~opened'
    PROVE  RowOK'
BY DEF Fresh, RowOK

\* A first step is done that neither stops the worker nor starts anything.
LEMMA DoneOK ==
    ASSUME RowOK, todo # <<>>, todo' = Tail(todo), opened' = opened,
           Live' => Live, Live' => todo[1] \notin Stopping,
           \/ mState' = mState /\ todo[1] \notin StartSteps
           \/ todo[1] \notin EndSteps \cup StartSteps
           \/ mState' = "STARTED" /\ todo[1] \in StartSteps
    PROVE  RowOK'
<1>1. GoodRow(todo)
    BY DEF RowOK
<1>2. /\ GoodRow(todo')
      /\ \A s : Has(todo', s) => Has(todo, s)
      /\ \A s, t : After(todo, s, t) /\ todo[1] \notin t => After(todo', s, t)
      /\ AboutToDeliver(todo) => AboutToDeliver(todo')
      /\ todo[1] \in StartSteps => AboutToDeliver(todo')
    BY <1>1, TailRow
<1>3. AboutToDeliver(todo) => todo[1] \in EndSteps
    BY <1>1 DEF AboutToDeliver, GoodRow
<1>4. Live' => After(todo', NeedsQuiet, Stopping)
    BY <1>2 DEF RowOK
<1>5. After(todo', DeliverSteps, StartSteps) \/ (mState' = "STARTED" /\ AboutToDeliver(todo'))
    BY <1>2, <1>3 DEF RowOK
<1> QED BY <1>2, <1>4, <1>5 DEF RowOK

-----------------------------------------------------------------------------
(* The invariant.                                                          *)

LEMMA InitInv == Init => IInv
<1> SUFFICES ASSUME Init PROVE IInv
    OBVIOUS
<1>1. RowOK
    BY EmptyRow DEF Init, RowOK, Fresh, Live
<1> QED BY <1>1 DEF Init, IInv, DeviceOK, WorkerOK, Delivering, Live

LEMMA BeginInv ==
    ASSUME IInv, ConnectCamera \/ StartPreview \/ StopPreview \/ TakePicture \/ CloseCamera
    PROVE  IInv'
<1> USE DEF Begin
<1>1. RowOK'
    <2>1. CASE ConnectCamera
        BY <2>1, OneStep, FreshOK DEF ConnectCamera, Has
    <2>2. CASE StartPreview
        BY <2>2, StartRow, FreshOK DEF StartPreview
    <2>3. CASE StopPreview
        BY <2>3, StopRow, FreshOK DEF StopPreview, Has
    <2>4. CASE TakePicture
        BY <2>4, PictureRow, FreshOK DEF TakePicture
    <2>5. CASE CloseCamera
        BY <2>5, CloseRow, FreshOK DEF CloseCamera
    <2> QED BY <2>1, <2>2, <2>3, <2>4, <2>5
<1>2. DeviceOK'
    BY DEF IInv, DeviceOK, ConnectCamera, StartPreview, StopPreview, TakePicture, CloseCamera,
           NoDevice, deviceVars
<1>3. WorkerOK'
    BY DEF IInv, WorkerOK, Delivering, ConnectCamera, StartPreview, StopPreview, TakePicture,
           CloseCamera, NoDevice, deviceVars, threadVars, pipeVars, workerVars, Live
<1> QED BY <1>1, <1>2, <1>3 DEF IInv

LEMMA StopInv == ASSUME IInv, Stop PROVE IInv'
<1>1. todo # <<>> /\ todo[1] = "stop" /\ 1 \in 1..Len(todo) /\ GoodRow(todo)
    BY FirstOfRow DEF Stop, IInv
<1>2. RowOK'
    <2>1. CASE mState = "STARTED"
        <3>1. todo' = <<"stopThread", "stopDevice">> \o Tail(todo) /\ opened' = opened
            BY <2>1 DEF Stop, Then
        <3>2. After(todo, DeliverSteps, StartSteps)
            BY <1>1 DEF IInv, RowOK, AboutToDeliver, EndSteps
        <3>3. /\ GoodRow(todo') /\ After(todo', NeedsQuiet, Stopping)
              /\ \A s \in {StartSteps \cup DeliverSteps, {"cleanup"}} : Has(todo', s) => Has(todo, s)
              /\ After(todo', DeliverSteps, StartSteps)
            BY <1>1, <3>1, <3>2, StoppingRow DEF Stopping, Rising
        <3> QED BY <3>1, <3>3 DEF IInv, RowOK
    <2>2. CASE mState # "STARTED"
        <3>1. todo' = Tail(todo) /\ opened' = opened
            BY <1>1, <2>2 DEF Stop, Then, GoodRow
        <3>2. ~Live' /\ mState' = mState
            BY <2>2 DEF Stop, NoThread, threadVars, workerVars, deviceVars, IInv, WorkerOK, Live
        <3> QED BY <1>1, <3>1, <3>2, DoneOK DEF IInv, StartSteps
    <2> QED BY <2>1, <2>2
<1>3. DeviceOK' /\ WorkerOK'
    BY DEF Stop, Then, NoThread, threadVars, deviceVars, pipeVars, workerVars, notifierVars, IInv,
           DeviceOK, WorkerOK, Delivering, Live
<1> QED BY <1>2, <1>3 DEF IInv

LEMMA StopThreadInv == ASSUME IInv, StopThread PROVE IInv'
<1>1. todo # <<>> /\ todo[1] = "stopThread" /\ 1 \in 1..Len(todo) /\ GoodRow(todo)
    BY FirstOfRow DEF StopThread, IInv
<1>2. RowOK'
    <2>1. CASE pipeOpen
        <3>1. todo' = <<"join">> \o Tail(todo) /\ opened' = opened
            BY <2>1 DEF StopThread, Then
        <3>2. After(todo, DeliverSteps, StartSteps)
            BY <1>1 DEF IInv, RowOK, AboutToDeliver, EndSteps
        <3>3. /\ GoodRow(todo') /\ After(todo', NeedsQuiet, Stopping)
              /\ \A s \in {StartSteps \cup DeliverSteps, {"cleanup"}} : Has(todo', s) => Has(todo, s)
              /\ After(todo', DeliverSteps, StartSteps)
            BY <1>1, <3>1, <3>2, StoppingRow DEF Stopping, Rising
        <3> QED BY <3>1, <3>3 DEF IInv, RowOK
    <2>2. CASE ~pipeOpen
        <3>1. todo' = Tail(todo) /\ opened' = opened
            BY <1>1, <2>2 DEF StopThread, Done, Then, GoodRow
        <3>2. ~Live' /\ mState' = mState
            BY <2>2 DEF StopThread, deviceVars, Live
        <3> QED BY <1>1, <3>1, <3>2, DoneOK DEF IInv, StartSteps
    <2> QED BY <2>1, <2>2
<1>3. DeviceOK' /\ WorkerOK'
    BY DEF StopThread, Then, Done, deviceVars, notifierVars, IInv,
           DeviceOK, WorkerOK, Delivering, Live
<1> QED BY <1>2, <1>3 DEF IInv

LEMMA JoinInv == ASSUME IInv, JoinThread PROVE IInv'
<1>1. todo # <<>> /\ todo[1] = "join" /\ 1 \in 1..Len(todo) /\ GoodRow(todo)
    BY FirstOfRow DEF JoinThread, IInv
<1>2. todo' = Tail(todo) /\ opened' = opened /\ ~Live' /\ ~mRunning' /\ mState' = mState
    BY <1>1 DEF JoinThread, Done, Then, GoodRow, ThreadEnded, deviceVars, Live
<1>3. RowOK'
    BY <1>1, <1>2, DoneOK DEF IInv, StartSteps
<1>4. DeviceOK' /\ WorkerOK'
    BY <1>2 DEF JoinThread, Done, Then, deviceVars, workerVars, notifierVars, IInv, DeviceOK,
           WorkerOK, Delivering, Live
<1> QED BY <1>3, <1>4 DEF IInv

\* stopDevice, the preview window, connectDevice, the flag of takePicture.
LEMMA PlainStepInv ==
    ASSUME IInv, StopDevice \/ SetPreview \/ SetTakingPicture
    PROVE  IInv'
<1> DEFINE Plain == {"stopDevice", "previewOn", "previewOff", "previewOffIfStopped", "takePicture"}
<1>1. todo # <<>> /\ todo[1] \in Plain /\ 1 \in 1..Len(todo) /\ GoodRow(todo)
    BY FirstOfRow DEF StopDevice, SetPreview, SetTakingPicture, IInv
<1>2. /\ todo' = Tail(todo) /\ opened' = opened /\ UNCHANGED <<mRunning, missed>>
      /\ todo[1] \notin Stopping \cup StartSteps
    BY <1>1 DEF StopDevice, SetPreview, SetTakingPicture, Done, Then, GoodRow, NoThread,
                threadVars, workerVars, Stopping, StartSteps
<1>3. CASE StopDevice
    <2>1. todo[1] = "stopDevice" /\ ~Live /\ ~Live'
        BY <1>2, <1>3, FirstOfRow, QuietHead DEF StopDevice, IInv, NeedsQuiet, Live
    <2>2. RowOK'
        BY <1>1, <1>2, <2>1, DoneOK DEF IInv, EndSteps, StartSteps
    <2>3. DeviceOK'
        BY <1>3 DEF StopDevice, Done, Then, notifierVars, IInv, DeviceOK
    <2>4. WorkerOK'
        BY <1>3, <2>1 DEF StopDevice, NoThread, threadVars, pipeVars, workerVars, IInv, WorkerOK,
                          Delivering
    <2> QED BY <2>2, <2>3, <2>4 DEF IInv
<1>4. CASE SetPreview \/ SetTakingPicture
    <2>1. mState' = mState /\ mCurrentFrame' = mCurrentFrame /\ allocations' = allocations
          /\ mDataCB' = mDataCB
        BY <1>4 DEF SetPreview, SetTakingPicture, deviceVars, notifierVars
    <2>2. RowOK'
        BY <1>1, <1>2, <2>1, DoneOK DEF IInv, Live
    <2>3. DeviceOK' /\ WorkerOK'
        BY <1>2, <1>4, <2>1 DEF Live, SetPreview, SetTakingPicture, NoThread, threadVars, pipeVars,
                                workerVars, IInv, DeviceOK, WorkerOK, Delivering
    <2> QED BY <2>2, <2>3 DEF IInv
<1> QED BY <1>3, <1>4

LEMMA ConnectInv == ASSUME IInv, ConnectDevice PROVE IInv'
<1>1. todo # <<>> /\ todo[1] = "connect" /\ 1 \in 1..Len(todo) /\ GoodRow(todo)
    BY FirstOfRow DEF ConnectDevice, IInv
<1>2. opened' = opened /\ UNCHANGED <<mRunning, missed>>
    BY DEF ConnectDevice, Instead, Done, Then, NoThread, threadVars, workerVars
<1>3. RowOK'
    <2>1. CASE todo' = <<"previewOff">>
        BY <1>2, <2>1, OneStep, FreshOK DEF Has
    <2>2. CASE todo' = Tail(todo)
        BY <1>1, <1>2, <2>2, DoneOK DEF IInv, Stopping, EndSteps, StartSteps, Live
    <2> QED BY <1>1, <2>1, <2>2 DEF ConnectDevice, Instead, Done, Then, GoodRow
<1>4. DeviceOK' /\ WorkerOK'
    BY <1>2 DEF ConnectDevice, NoThread, threadVars, pipeVars, workerVars, notifierVars, IInv,
                DeviceOK, WorkerOK, Delivering, Live
<1> QED BY <1>3, <1>4 DEF IInv

\* What takePicture ends with when it cannot take the picture.
LEMMA AfterPictureRow == Fresh(AfterPicture) /\ ~Has(AfterPicture, {"cleanup"})
<1>1. CASE previewOn
    BY <1>1, StartRow DEF AfterPicture
<1>2. CASE ~previewOn
    BY <1>2, EmptyRow DEF AfterPicture
<1> QED BY <1>1, <1>2

\* What startPreview ends with when the thread cannot be started.
LEMMA NotStarted ==
    LET row == <<"stopDevice", "previewOff">>
    IN  GoodRow(row) /\ After(row, DeliverSteps, StartSteps) /\ ~Has(row, {"cleanup"})
BY DEF GoodRow, After, Has, Steps, DeliverSteps, StartSteps

LEMMA StartDeviceInv ==
    ASSUME IInv, NEW s \in StartSteps, NEW recovery, StartDevice(s, recovery),
           Fresh(recovery), ~Has(recovery, {"cleanup"})
    PROVE  IInv'
<1>1. todo # <<>> /\ todo[1] = s /\ 1 \in 1..Len(todo) /\ GoodRow(todo)
    BY FirstOfRow DEF StartDevice, IInv
<1>2. ~Live
    BY <1>1, QuietHead DEF IInv, NeedsQuiet, StartSteps
<1>3. opened' = opened /\ UNCHANGED <<mRunning, missed>> /\ opened
    BY <1>1 DEF StartDevice, Instead, Done, Then, NoThread, threadVars, workerVars, IInv, RowOK,
                Has
<1>4. RowOK'
    <2>1. CASE todo' = recovery
        BY <1>3, <2>1, FreshOK
    <2>2. CASE todo' = Tail(todo) /\ mState' = "STARTED"
        BY <1>1, <1>2, <1>3, <2>2, DoneOK DEF IInv, Live
    <2> QED BY <1>1, <2>1, <2>2 DEF StartDevice, Instead, Done, Then, GoodRow, deviceVars
<1>5. DeviceOK'
    BY <1>3 DEF StartDevice, Allocate, deviceVars, notifierVars, IInv, DeviceOK
<1>6. WorkerOK'
    BY <1>2, <1>3 DEF Live, StartDevice, NoThread, threadVars, pipeVars, workerVars, IInv, WorkerOK,
                      Delivering
<1> QED BY <1>4, <1>5, <1>6 DEF IInv

LEMMA StartThreadInv ==
    ASSUME IInv, NEW s \in DeliverSteps, NEW oneBurst, NEW recovery,
           StartThread(s, oneBurst, recovery), GoodRow(recovery),
           After(recovery, DeliverSteps, StartSteps), ~Has(recovery, {"cleanup"})
    PROVE  IInv'
<1>1. todo # <<>> /\ todo[1] = s /\ 1 \in 1..Len(todo) /\ GoodRow(todo)
    BY FirstOfRow DEF StartThread, IInv
<1>2. ~Live
    BY <1>1, QuietHead DEF IInv, NeedsQuiet, DeliverSteps
<1>3. opened /\ opened' = opened /\ UNCHANGED <<mState, mCurrentFrame, allocations, mDataCB>>
    BY <1>1 DEF StartThread, Instead, Done, Then, deviceVars, IInv, RowOK, Has
<1>4. UNCHANGED <<missed, workerFrame, pipeOpen>>
    BY DEF StartThread, pipeVars
<1>5. DeviceOK'
    BY <1>3 DEF IInv, DeviceOK
<1>6. CASE mRunning
    <2>2. todo' = recovery /\ UNCHANGED <<mRunning, workerPc>>
        BY <1>6 DEF StartThread, Instead
    <2>3. ~Live'
        BY <1>2, <1>4, <2>2 DEF Live
    <2>4. RowOK'
        BY <1>3, <2>2, <2>3 DEF RowOK
    <2>5. WorkerOK'
        BY <1>4, <2>2, <2>3 DEF IInv, WorkerOK
    <2> QED BY <1>5, <2>4, <2>5 DEF IInv
<1>7. CASE ~mRunning
    <2>1. Len(todo) = 1 /\ todo \in Seq(Steps)
        BY <1>1 DEF GoodRow
    <2>2. todo' = <<>>
        BY SMTT(30), <1>7, <2>1 DEF StartThread, Done, Then
    <2>3. mState = "STARTED"
        <3>1. ~After(todo, DeliverSteps, StartSteps)
            BY <1>1, <2>1 DEF After, DeliverSteps, StartSteps
        <3> QED BY <3>1 DEF IInv, RowOK
    <2>4. RowOK'
        BY <2>2, EmptyRow, FreshOK
    <2>5. mRunning' = TRUE /\ workerPc' = "created"
        BY <1>7 DEF StartThread
    <2>6. mDataCB
        BY <1>3 DEF IInv, DeviceOK
    <2>7. WorkerOK'
        BY <1>3, <1>4, <2>3, <2>5, <2>6 DEF WorkerOK, Delivering
    <2> QED BY <1>5, <2>4, <2>7 DEF IInv
<1> QED BY <1>6, <1>7

LEMMA CloseStepInv == ASSUME IInv, DisconnectDevice \/ CleanupNotifier PROVE IInv'
<1>1. todo # <<>> /\ todo[1] \in {"disconnect", "cleanup"} /\ 1 \in 1..Len(todo) /\ GoodRow(todo)
    BY FirstOfRow DEF DisconnectDevice, CleanupNotifier, IInv
<1>2. ~Live
    BY <1>1, QuietHead DEF IInv, NeedsQuiet
<1>3. opened' = opened /\ UNCHANGED <<mRunning, missed>>
    BY DEF DisconnectDevice, CleanupNotifier, Instead, Done, Then, NoThread, threadVars,
           workerVars
<1>4. RowOK'
    <2>1. CASE todo' = <<>>
        BY <2>1, EmptyRow, FreshOK
    <2>2. CASE todo' = Tail(todo)
        BY <1>1, <1>2, <1>3, <2>2, DoneOK DEF IInv, EndSteps, StartSteps, Live
    <2> QED BY <1>1, <2>1, <2>2 DEF DisconnectDevice, CleanupNotifier, Instead, Done, Then, GoodRow
<1>5. CleanupNotifier => ~opened
    BY <1>1, FirstOfRow DEF CleanupNotifier, IInv, RowOK, Has
<1>6. DeviceOK'
    BY <1>3, <1>5 DEF DisconnectDevice, CleanupNotifier, deviceVars, notifierVars, IInv, DeviceOK
<1>7. WorkerOK'
    BY <1>2, <1>3 DEF Live, DisconnectDevice, CleanupNotifier, NoThread, threadVars, pipeVars,
                      workerVars, IInv, WorkerOK, Delivering
<1> QED BY <1>4, <1>6, <1>7 DEF IInv

-----------------------------------------------------------------------------
(* The worker, and the whole.                                              *)

LEMMA WorkerInv == ASSUME IInv, Worker PROVE IInv'
<1>1. UNCHANGED <<todo, opened, mState, mCurrentFrame, allocations, mDataCB>>
    BY DEF Worker, ReadyToRun, Select, DrawFrame, PreviewFrame, NotifyFrame, EndRound, EndThread,
           OnlyWorker, deviceVars
<1>2. CASE EndThread
    <2>1. ~mRunning' /\ workerPc' = "off"
        BY <1>2 DEF EndThread, WorkerMoves
    <2>2. ~missed'
        BY <1>2 DEF EndThread, WorkerMoves
    <2>3. RowOK' /\ DeviceOK'
        BY <1>1, <2>1 DEF IInv, RowOK, DeviceOK, Live
    <2>4. WorkerOK'
        BY <2>1, <2>2 DEF WorkerOK, Live
    <2> QED BY <2>3, <2>4 DEF IInv
<1>3. CASE ReadyToRun \/ Select \/ DrawFrame \/ PreviewFrame \/ NotifyFrame \/ EndRound
    <2>1. \A from, to : WorkerMoves(from, to) /\ to # "off" => (missed' <=> missed)
        BY Zenon DEF WorkerMoves
    <2>2. missed' <=> missed
        <3>1. \E from, to : WorkerMoves(from, to) /\ to # "off"
            BY <1>3 DEF ReadyToRun, Select, DrawFrame, PreviewFrame, NotifyFrame, EndRound
        <3> QED BY <2>1, <3>1, Zenon
    <2>3. mRunning' = mRunning /\ workerPc' # "off" /\ workerPc # "off"
        BY <1>3 DEF ReadyToRun, Select, DrawFrame, PreviewFrame, NotifyFrame, EndRound,
                    WorkerMoves
    <2>4. Live' <=> Live
        BY <2>2, <2>3, Zenon DEF Live
    <2>5. RowOK' /\ DeviceOK'
        BY <1>1, <2>4 DEF IInv, RowOK, DeviceOK
    <2>6. workerPc' \notin {"off", "created"} => pipeOpen'
        BY <1>3 DEF ReadyToRun, Select, DrawFrame, PreviewFrame, NotifyFrame, EndRound,
                    WorkerMoves, pipeVars, IInv, WorkerOK
    <2>7. Delivering' /\ Live' => workerFrame' = mCurrentFrame'
        BY <1>1, <1>3, <2>4 DEF ReadyToRun, Select, DrawFrame, PreviewFrame, NotifyFrame, EndRound,
                    WorkerMoves, IInv, WorkerOK, Delivering
    <2> QED BY <1>1, <2>2, <2>3, <2>4, <2>5, <2>6, <2>7 DEF IInv, WorkerOK
<1> QED BY <1>2, <1>3 DEF Worker

LEMMA StepInv == IInv /\ [Next]_vars => IInv'
<1> SUFFICES ASSUME IInv, [Next]_vars PROVE IInv'
    OBVIOUS
<1>1. CASE ConnectCamera \/ StartPreview \/ StopPreview \/ TakePicture \/ CloseCamera
    BY <1>1, BeginInv
<1>2. CASE CallStep
    <2>1. CASE Stop \/ StopThread \/ JoinThread
        BY <2>1, StopInv, StopThreadInv, JoinInv
    <2>2. CASE StopDevice \/ SetPreview \/ SetTakingPicture
        BY <2>2, PlainStepInv
    <2>3. CASE ConnectDevice \/ DisconnectDevice \/ CleanupNotifier
        BY <2>3, ConnectInv, CloseStepInv
    <2>4. CASE StartDevice("startForPreview", <<"previewOff">>)
        BY <2>4, OneStep, StartDeviceInv DEF StartSteps, Has
    <2>5. CASE StartDevice("startForPicture", AfterPicture)
        BY <2>5, AfterPictureRow, StartDeviceInv DEF StartSteps
    <2>6. CASE StartThread("deliver", FALSE, <<"stopDevice", "previewOff">>)
        BY <2>6, NotStarted, StartThreadInv DEF DeliverSteps
    <2>7. CASE StartThread("deliverOne", TRUE, AfterPicture)
        BY <2>7, AfterPictureRow, StartThreadInv DEF DeliverSteps, Fresh
    <2> QED BY <1>2, <2>1, <2>2, <2>3, <2>4, <2>5, <2>6, <2>7 DEF CallStep
<1>3. CASE Worker
    BY <1>3, WorkerInv
<1>4. CASE UNCHANGED vars
    BY <1>4 DEF vars, callVars, deviceVars, threadVars, pipeVars, workerVars, notifierVars, IInv,
                RowOK, DeviceOK, WorkerOK, Delivering, Live
<1> QED BY <1>1, <1>2, <1>3, <1>4 DEF Next

\* The worker draws and delivers frames only in a frame buffer that has been allocated and
\* not freed, and only while the framework's callbacks are set, whatever calls stop, start
\* and close the camera, whichever of them fail, and whenever a thread gets through
\* readyToRun (EmulatedCameraDevice.cpp:306-344). A thread that a stop has missed is excused
\* until it ends, and no other: the next thread is not.
THEOREM FramesAlive == Spec => []FrameAlive
<1>1. IInv => FrameAlive
    BY DEF IInv, DeviceOK, WorkerOK, Delivering, FrameAlive, Live
<1>2. IInv /\ [Next]_vars => IInv'
    BY StepInv
<1> QED BY <1>1, <1>2, InitInv, PTL DEF Spec

-----------------------------------------------------------------------------
(* The type invariant.  It needs nothing of the threads: what bounds the   *)
(* allocations is the row of the call, and what bounds the messages in the *)
(* pipe is that the call that sends one waits, and closes the pipe.        *)

\* The frames that the rest of a call may still allocate: a picture that cannot be taken
\* starts the preview again.
Owed(row) == IF Has(row, {"startForPicture"}) THEN 2
             ELSE IF Has(row, {"startForPreview"}) \/ Has(row, {"deliverOne"}) THEN 1
             ELSE 0

OwedSteps == {"startForPicture", "startForPreview", "deliverOne"}

\* A row that takes a picture starts the preview only when it fails, in place of the rest.
OneKind(row) == ~(Has(row, {"startForPreview"}) /\ Has(row, {"deliverOne"}))

Flags ==
    /\ mRunning \in BOOLEAN /\ mExitPending \in BOOLEAN /\ mOneBurst \in BOOLEAN
    /\ pipeOpen \in BOOLEAN /\ mPreviewEnabled \in BOOLEAN
    /\ mTakingPicture \in BOOLEAN /\ mDataCB \in BOOLEAN
    /\ previewOn \in BOOLEAN /\ opened \in BOOLEAN /\ died \in BOOLEAN /\ missed \in BOOLEAN

Words ==
    /\ kind \in Kinds
    /\ mState \in {"INITIALIZED", "CONNECTED", "STARTED"}
    /\ workerPc \in {"off", "created", "select", "draw", "preview", "notify", "round", "end"}
    /\ picture \in {"none", "asked", "taken", "refused"}

Frames ==
    /\ allocations \in Nat /\ calls \in 0..MaxCalls /\ failures \in 0..MaxFailures
    /\ mCurrentFrame \in 0..allocations /\ workerFrame \in 0..allocations
    /\ allocations + Owed(todo) <= 2 * calls

Rows == GoodRow(todo) /\ OneKind(todo)

Pipe == stops \in 0..1 /\ (stops = 1 => Step("join"))

TypeInv == Flags /\ Words /\ Frames /\ Rows /\ Pipe

LEMMA TypeInvImplies == TypeInv => TypeOK
<1> SUFFICES ASSUME TypeInv PROVE TypeOK
    OBVIOUS
<1>1. Owed(todo) \in Nat
    BY DEF Owed
<1>2. allocations \in 0..MaxAllocations
    BY <1>1, EmulatedCameraAssumption DEF TypeInv, Frames, MaxAllocations
<1>3. Flags /\ Words
    BY DEF TypeInv
<1>4. todo \in Seq(Steps) /\ stops \in 0..1
    BY DEF TypeInv, Rows, GoodRow, Pipe
<1>5. /\ mCurrentFrame \in 0..allocations /\ workerFrame \in 0..allocations
      /\ calls \in 0..MaxCalls /\ failures \in 0..MaxFailures
    BY DEF TypeInv, Frames
<1> QED BY <1>2, <1>3, <1>4, <1>5, Zenon DEF Flags, Words, TypeOK

\* What a row without new steps of these kinds may allocate.
LEMMA OwedLess ==
    ASSUME NEW row, NEW new, \A s \in OwedSteps : Has(new, {s}) => Has(row, {s})
    PROVE  Owed(new) <= Owed(row) /\ (OneKind(row) => OneKind(new))
BY DEF Owed, OneKind, OwedSteps

LEMMA OwedType == \A row : Owed(row) \in {0, 1, 2}
BY DEF Owed

\* The rows of the calls.
LEMMA CallRows ==
    /\ Owed(<<>>) = 0 /\ OneKind(<<>>) /\ GoodRow(<<>>)
    /\ Owed(<<"connect">>) = 0 /\ OneKind(<<"connect">>) /\ GoodRow(<<"connect">>)
    /\ Owed(<<"previewOff">>) = 0 /\ OneKind(<<"previewOff">>) /\ GoodRow(<<"previewOff">>)
    /\ LET row == <<"stopDevice", "previewOff">>
       IN  Owed(row) = 0 /\ OneKind(row) /\ GoodRow(row)
    /\ Owed(doStartPreview) = 1 /\ OneKind(doStartPreview) /\ GoodRow(doStartPreview)
    /\ Owed(doStopPreview) = 0 /\ OneKind(doStopPreview) /\ GoodRow(doStopPreview)
<1> USE DEF Owed, OneKind, Has, GoodRow, DeliverSteps, StartSteps, EndSteps, Steps
<1>1. Owed(<<>>) = 0 /\ OneKind(<<>>) /\ GoodRow(<<>>)
    OBVIOUS
<1>2. \A s \in {"connect", "previewOff"} :
          Owed(<<s>>) = 0 /\ OneKind(<<s>>) /\ GoodRow(<<s>>)
    OBVIOUS
<1>3. LET row == <<"stopDevice", "previewOff">>
      IN  Owed(row) = 0 /\ OneKind(row) /\ GoodRow(row)
    OBVIOUS
<1>4. Owed(doStartPreview) = 1 /\ OneKind(doStartPreview) /\ GoodRow(doStartPreview)
    <2> DEFINE row == doStartPreview
    <2>1. /\ row \in Seq(Steps) /\ Len(row) = 5
          /\ row[1] = "stop" /\ row[2] = "previewOn" /\ row[3] = "connect"
          /\ row[4] = "startForPreview" /\ row[5] = "deliver"
        BY DEF doStartPreview
    <2> HIDE DEF row
    <2>2. Owed(row) = 1 /\ OneKind(row) /\ GoodRow(row)
        BY <2>1
    <2> QED BY <2>2 DEF row
<1>5. Owed(doStopPreview) = 0 /\ OneKind(doStopPreview) /\ GoodRow(doStopPreview)
    BY StopRow DEF Fresh
<1> QED BY <1>1, <1>2, <1>3, <1>4, <1>5

LEMMA CallRowsLong ==
    /\ LET row == doStopPreview \o PictureSteps
       IN  Owed(row) = 2 /\ OneKind(row) /\ GoodRow(row)
    /\ LET row == doStopPreview \o <<"stop", "disconnect", "cleanup">>
       IN  Owed(row) = 0 /\ OneKind(row) /\ GoodRow(row)
<1> USE DEF Owed, OneKind, Has
<1>1. LET row == doStopPreview \o PictureSteps IN Owed(row) = 2 /\ OneKind(row)
    <2> DEFINE row == doStopPreview \o PictureSteps
    <2>1. CASE mPreviewEnabled
        <3>1. /\ Len(row) = 6
              /\ row[1] = "stop" /\ row[2] = "previewOffIfStopped" /\ row[3] = "stop"
              /\ row[4] = "startForPicture" /\ row[5] = "takePicture" /\ row[6] = "deliverOne"
            BY <2>1 DEF doStopPreview, PictureSteps
        <3> HIDE DEF row
        <3>2. Owed(row) = 2 /\ OneKind(row)
            BY <3>1
        <3> QED BY <3>2 DEF row
    <2>2. CASE ~mPreviewEnabled
        <3>1. /\ Len(row) = 4
              /\ row[1] = "stop" /\ row[2] = "startForPicture" /\ row[3] = "takePicture"
              /\ row[4] = "deliverOne"
            BY <2>2 DEF doStopPreview, PictureSteps
        <3> HIDE DEF row
        <3>2. Owed(row) = 2 /\ OneKind(row)
            BY <3>1
        <3> QED BY <3>2 DEF row
    <2> QED BY <2>1, <2>2
<1>2. LET row == doStopPreview \o <<"stop", "disconnect", "cleanup">>
      IN  Owed(row) = 0 /\ OneKind(row)
    BY CloseRow DEF StartSteps, DeliverSteps
<1> QED BY <1>1, <1>2, PictureRow, CloseRow DEF Fresh

\* The row of a call as its steps are done, and as it stops the worker.
LEMMA RowDone ==
    ASSUME Rows, todo # <<>>
    PROVE  /\ GoodRow(Tail(todo)) /\ OneKind(Tail(todo)) /\ Owed(Tail(todo)) <= Owed(todo)
           /\ todo[1] = "startForPicture" => Owed(Tail(todo)) <= 1
           /\ todo[1] = "startForPreview" => Owed(todo) >= 1 /\ Owed(Tail(todo)) = 0
           /\ todo[1] = "startForPicture" => Owed(todo) = 2
           /\ todo[1] = "deliverOne" => Owed(todo) >= 1
<1>1. GoodRow(todo) /\ OneKind(todo) /\ 1 \in 1..Len(todo)
    BY DEF Rows, GoodRow
<1>2. /\ GoodRow(Tail(todo))
      /\ \A s : Has(Tail(todo), s) => Has(todo, s)
      /\ todo[1] \in StartSteps => AboutToDeliver(Tail(todo))
    BY <1>1, TailRow
<1>3. OneKind(Tail(todo)) /\ Owed(Tail(todo)) <= Owed(todo)
    BY <1>1, <1>2, OwedLess
<1>4. \A s : todo[1] = s => Has(todo, {s})
    BY <1>1 DEF Has
<1>5. AboutToDeliver(Tail(todo)) =>
          ~Has(Tail(todo), {"startForPicture"}) /\ ~Has(Tail(todo), {"startForPreview"})
    BY DEF AboutToDeliver, Has, EndSteps
<1>6. ASSUME todo[1] = "startForPicture"
      PROVE  Owed(Tail(todo)) <= 1 /\ Owed(todo) = 2
    <2>1. AboutToDeliver(Tail(todo)) /\ Has(todo, {"startForPicture"})
        BY <1>2, <1>4, <1>6 DEF StartSteps
    <2> QED BY <1>5, <2>1 DEF Owed
<1>7. ASSUME todo[1] = "startForPreview"
      PROVE  Owed(todo) >= 1 /\ Owed(Tail(todo)) = 0
    <2>1. AboutToDeliver(Tail(todo)) /\ Has(todo, {"startForPreview"})
        BY <1>2, <1>4, <1>7 DEF StartSteps
    <2>2. ~Has(Tail(todo), {"deliverOne"})
        BY <1>1, <1>2, <2>1 DEF OneKind
    <2> QED BY <1>5, <2>1, <2>2 DEF Owed
<1>8. todo[1] = "deliverOne" => Owed(todo) >= 1
    BY <1>4 DEF Owed
<1> QED BY <1>2, <1>3, <1>6, <1>7, <1>8

LEMMA RowStops ==
    ASSUME Rows, todo # <<>>, todo[1] \in Stopping,
           NEW steps \in {<<"join">>, <<"stopThread", "stopDevice">>}
    PROVE  LET new == steps \o Tail(todo)
           IN  GoodRow(new) /\ OneKind(new) /\ Owed(new) <= Owed(todo)
<1> DEFINE new == steps \o Tail(todo)
<1>1. GoodRow(new) /\ \A s \in SUBSET Rising : Has(new, s) => Has(todo, s)
    BY StoppingRow DEF Rows
<1> HIDE DEF new
<1>2. \A s \in OwedSteps : {s} \in SUBSET Rising
    BY DEF OwedSteps, Rising, StartSteps, DeliverSteps
<1>3. \A s \in OwedSteps : Has(new, {s}) => Has(todo, {s})
    BY <1>1, <1>2
<1>4. OneKind(new) /\ Owed(new) <= Owed(todo)
    BY <1>3, OwedLess DEF Rows
<1> QED BY <1>1, <1>4 DEF new

\* takePicture that fails starts the preview again if it was on.
LEMMA RowAfterPicture ==
    GoodRow(AfterPicture) /\ OneKind(AfterPicture) /\ Owed(AfterPicture) \in {0, 1}
<1>1. CASE previewOn
    BY <1>1, CallRows DEF AfterPicture
<1>2. CASE ~previewOn
    BY <1>2, CallRows DEF AfterPicture
<1> QED BY <1>1, <1>2

-----------------------------------------------------------------------------
(* The flags and the words, whatever step is taken.                        *)

LEMMA FlagsStep == ASSUME Flags, Next PROVE Flags'
<1> USE DEF Flags
<1>0. NoThread => UNCHANGED <<mRunning, mExitPending, mOneBurst, pipeOpen, missed, died>>
    BY Zenon DEF NoThread, threadVars, workerVars, pipeVars
<1>1. CASE ConnectCamera \/ StartPreview \/ StopPreview \/ TakePicture \/ CloseCamera
    <2>1. NoDevice
        BY <1>1 DEF ConnectCamera, StartPreview, StopPreview, TakePicture, CloseCamera
    <2>2. UNCHANGED <<mRunning, mExitPending, mOneBurst, pipeOpen, missed, mPreviewEnabled,
                      mTakingPicture, died>>
        BY <2>1 DEF NoDevice, threadVars, workerVars, pipeVars
    <2>3. opened' \in BOOLEAN /\ mDataCB' \in BOOLEAN /\ previewOn' \in BOOLEAN
        BY <1>1, Zenon DEF ConnectCamera, StartPreview, StopPreview, TakePicture, CloseCamera
    <2> QED BY <2>2, <2>3, Zenon
<1>2. CASE Stop \/ StopThread \/ JoinThread \/ StopDevice
    <2>1. CASE Stop \/ StopDevice
        BY <1>0, <2>1, ZenonT(30) DEF Stop, StopDevice, Done, Then, notifierVars
    <2>2. CASE StopThread \/ JoinThread
        BY <2>2, ZenonT(30) DEF StopThread, JoinThread, ClosePipe, Done, Then, workerVars,
                                notifierVars
    <2> QED BY <1>2, <2>1, <2>2
<1>3. CASE SetPreview \/ SetTakingPicture \/ CleanupNotifier
    <2>1. UNCHANGED <<previewOn, opened>> /\ NoThread
        BY <1>3 DEF SetPreview, SetTakingPicture, CleanupNotifier, Done, Then
    <2>2. mPreviewEnabled' \in BOOLEAN
        BY <1>3, Zenon DEF SetPreview, SetTakingPicture, CleanupNotifier
    <2>3. mTakingPicture' \in BOOLEAN /\ mDataCB' \in BOOLEAN
        BY <1>3, Zenon DEF SetPreview, SetTakingPicture, CleanupNotifier, notifierVars
    <2> QED BY <1>0, <2>1, <2>2, <2>3, Zenon
<1>4. CASE ConnectDevice \/ DisconnectDevice
    <2>1. UNCHANGED <<previewOn, opened, mPreviewEnabled, mTakingPicture, mDataCB>> /\ NoThread
        BY <1>4 DEF ConnectDevice, DisconnectDevice, Instead, Done, Then, notifierVars
    <2> QED BY <1>0, <2>1, Zenon
<1>5. ASSUME NEW s, NEW recovery, StartDevice(s, recovery)
      PROVE  Flags'
    <2>1. UNCHANGED <<previewOn, opened, mPreviewEnabled, mTakingPicture, mDataCB>> /\ NoThread
        BY <1>5 DEF StartDevice, Instead, Done, Then, notifierVars
    <2> QED BY <1>0, <2>1, Zenon
<1>6. ASSUME NEW s, NEW oneBurst \in BOOLEAN, NEW recovery, StartThread(s, oneBurst, recovery)
      PROVE  Flags'
    BY <1>6, Zenon DEF StartThread, Instead, Done, Then, pipeVars
<1>7. CASE Worker
    <2>1. UNCHANGED <<mOneBurst, mPreviewEnabled, mDataCB, previewOn, opened>>
        BY <1>7, Zenon DEF Worker, ReadyToRun, Select, DrawFrame, PreviewFrame, NotifyFrame,
                           EndRound, EndThread, OnlyWorker
    <2>2. CASE ReadyToRun \/ Select \/ DrawFrame
        <3>1. CASE ReadyToRun
            BY <2>1, <3>1, Zenon DEF WorkerMoves, ReadyToRun
        <3>2. CASE Select
            BY <2>1, <3>2, Zenon DEF WorkerMoves, Select
        <3>3. CASE DrawFrame
            BY <2>1, <3>3, Zenon DEF WorkerMoves, DrawFrame, pipeVars
        <3> QED BY <2>2, <3>1, <3>2, <3>3
    <2>3. CASE PreviewFrame \/ NotifyFrame
        BY <2>1, <2>3, Zenon DEF WorkerMoves, PreviewFrame, NotifyFrame, pipeVars
    <2>4. CASE EndRound \/ EndThread
        BY <2>1, <2>4, Zenon DEF WorkerMoves, EndRound, EndThread, pipeVars
    <2> QED BY <1>7, <2>2, <2>3, <2>4, Zenon DEF Worker
<1> QED BY <1>1, <1>2, <1>3, <1>4, <1>5, <1>6, <1>7, Zenon DEF Next, CallStep

LEMMA WordsStep == ASSUME Words, Next PROVE Words'
<1> USE DEF Words
<1>1. CASE ConnectCamera \/ StartPreview \/ StopPreview \/ TakePicture \/ CloseCamera
    BY <1>1 DEF ConnectCamera, StartPreview, StopPreview, TakePicture, CloseCamera,
                NoDevice, deviceVars, workerVars
<1>2. CASE Stop \/ StopThread \/ JoinThread \/ StopDevice
    BY <1>2 DEF Stop, StopThread, JoinThread, StopDevice, Done, Then, NoThread, deviceVars,
                workerVars
<1>3. CASE SetPreview \/ SetTakingPicture \/ CleanupNotifier
    BY <1>3 DEF SetPreview, SetTakingPicture, CleanupNotifier, Done, Then, NoThread, deviceVars,
                workerVars
<1>4. CASE ConnectDevice \/ DisconnectDevice
    BY <1>4 DEF ConnectDevice, DisconnectDevice, Instead, Done, Then, NoThread, workerVars
<1>5. ASSUME NEW s, NEW recovery, StartDevice(s, recovery)
      PROVE  Words'
    BY <1>5 DEF StartDevice, Instead, Done, Then, NoThread, deviceVars, workerVars
<1>6. ASSUME NEW s, NEW oneBurst, NEW recovery, StartThread(s, oneBurst, recovery)
      PROVE  Words'
    BY <1>6 DEF StartThread, Instead, Done, Then, deviceVars
<1>7. CASE Worker
    BY <1>7 DEF Worker, ReadyToRun, Select, DrawFrame, PreviewFrame, NotifyFrame, EndRound,
                EndThread, WorkerMoves, OnlyWorker, deviceVars
<1> QED BY <1>1, <1>2, <1>3, <1>4, <1>5, <1>6, <1>7, Zenon DEF Next, CallStep


-----------------------------------------------------------------------------
(* The row, the frames and the pipe, step by step.                         *)

RestInv == Rows /\ Frames /\ Pipe

\* A step that allocates nothing, of a row or of a call that begins.
LEMMA RestKept ==
    ASSUME RestInv, GoodRow(todo'), OneKind(todo'), Pipe',
           allocations' = allocations, mCurrentFrame' \in {0, mCurrentFrame},
           workerFrame' \in {0, workerFrame, mCurrentFrame},
           failures' \in 0..MaxFailures,
           \/ calls' = calls /\ Owed(todo') <= Owed(todo)
           \/ calls' = calls + 1 /\ calls < MaxCalls /\ todo = <<>>
    PROVE  RestInv'
<1>1. Owed(todo) \in {0, 1, 2} /\ Owed(todo') \in {0, 1, 2}
    BY OwedType
<1>2. todo = <<>> => Owed(todo) = 0
    BY CallRows
<1>3. calls' \in 0..MaxCalls
    BY EmulatedCameraAssumption DEF RestInv, Frames
<1>4. allocations' + Owed(todo') <= 2 * calls'
    BY <1>1, <1>2 DEF RestInv, Frames
<1>5. /\ allocations' \in Nat /\ mCurrentFrame' \in 0..allocations'
      /\ workerFrame' \in 0..allocations'
    BY DEF RestInv, Frames
<1> QED BY <1>3, <1>4, <1>5 DEF RestInv, Rows, Frames

LEMMA RestBegin ==
    ASSUME RestInv, ConnectCamera \/ StartPreview \/ StopPreview \/ TakePicture \/ CloseCamera
    PROVE  RestInv'
<1>1. /\ todo = <<>> /\ calls' = calls + 1 /\ calls < MaxCalls /\ stops' = stops
      /\ allocations' = allocations /\ mCurrentFrame' = mCurrentFrame
      /\ workerFrame' = workerFrame /\ failures' = failures
    BY DEF ConnectCamera, StartPreview, StopPreview, TakePicture, CloseCamera, Begin, NoDevice,
           deviceVars, pipeVars, workerVars
<1>2. GoodRow(todo') /\ OneKind(todo')
    BY CallRows, CallRowsLong
       DEF ConnectCamera, StartPreview, StopPreview, TakePicture, CloseCamera, Begin
<1>3. stops' = 0 /\ failures' \in 0..MaxFailures
    BY <1>1 DEF RestInv, Pipe, Step, Frames
<1>4. Pipe'
    BY <1>3 DEF Pipe
<1> QED BY <1>1, <1>2, <1>3, <1>4, RestKept

\* The row has a first step.
LEMMA RestFirst ==
    ASSUME RestInv, NEW s, Step(s)
    PROVE  /\ todo # <<>> /\ todo[1] = s /\ todo \in Seq(Steps) /\ <<>> \o Tail(todo) = Tail(todo)
           /\ s # "join" => stops = 0
BY DEF RestInv, Rows, GoodRow, Pipe, Step

\* A step that is done leaves the rest of its row.
LEMMA RestDone ==
    ASSUME RestInv, todo # <<>>, todo' = Tail(todo), calls' = calls, stops' = 0,
           allocations' = allocations, mCurrentFrame' \in {0, mCurrentFrame},
           workerFrame' = workerFrame, failures' \in 0..MaxFailures
    PROVE  RestInv'
<1>1. GoodRow(todo') /\ OneKind(todo') /\ Owed(todo') <= Owed(todo)
    BY RowDone DEF RestInv
<1>2. Pipe'
    BY DEF Pipe
<1> QED BY <1>1, <1>2, RestKept

\* A query of the camera service fails within the bound.
LEMMA FailsBound ==
    ASSUME Frames, Fails \/ UNCHANGED failures
    PROVE  failures' \in 0..MaxFailures
BY EmulatedCameraAssumption DEF Frames, Fails

LEMMA RestStop == ASSUME RestInv, Stop PROVE RestInv'
<1>1. /\ todo # <<>> /\ todo[1] = "stop" /\ stops = 0 /\ <<>> \o Tail(todo) = Tail(todo)
    BY RestFirst DEF Stop
<1>2. /\ calls' = calls /\ stops' = stops /\ allocations' = allocations
      /\ mCurrentFrame' = mCurrentFrame /\ workerFrame' = workerFrame /\ failures' = failures
    BY DEF Stop, Then, NoThread, deviceVars, pipeVars, workerVars
<1>3. failures' \in 0..MaxFailures
    BY <1>2 DEF RestInv, Frames
<1>4. CASE mState = "STARTED"
    <2>1. todo' = <<"stopThread", "stopDevice">> \o Tail(todo)
        BY <1>4 DEF Stop, Then
    <2>2. GoodRow(todo') /\ OneKind(todo') /\ Owed(todo') <= Owed(todo)
        BY <1>1, <2>1, RowStops DEF RestInv, Stopping
    <2>3. Pipe'
        BY <1>1, <1>2 DEF Pipe
    <2> QED BY <1>2, <1>3, <2>2, <2>3, RestKept
<1>5. CASE mState # "STARTED"
    <2>1. todo' = Tail(todo)
        BY <1>1, <1>5 DEF Stop, Then
    <2> QED BY <1>1, <1>2, <1>3, <2>1, RestDone
<1> QED BY <1>4, <1>5

LEMMA RestStopThread == ASSUME RestInv, StopThread PROVE RestInv'
<1>1. /\ todo # <<>> /\ todo[1] = "stopThread" /\ stops = 0 /\ <<>> \o Tail(todo) = Tail(todo)
      /\ todo \in Seq(Steps)
    BY RestFirst DEF StopThread
<1>2. /\ calls' = calls /\ allocations' = allocations
      /\ mCurrentFrame' = mCurrentFrame /\ workerFrame' = workerFrame /\ failures' = failures
    BY DEF StopThread, Done, Then, deviceVars
<1>3. failures' \in 0..MaxFailures
    BY <1>2 DEF RestInv, Frames
<1>4. CASE pipeOpen
    <2>1. todo' = <<"join">> \o Tail(todo) /\ stops' = 1
        BY <1>1, <1>4 DEF StopThread, Then, StopMessage
    <2>2. GoodRow(todo') /\ OneKind(todo') /\ Owed(todo') <= Owed(todo)
        BY <1>1, <2>1, RowStops DEF RestInv, Stopping
    <2>3. todo' # <<>> /\ Head(todo') = "join"
        BY <1>1, <2>1
    <2>4. Pipe'
        BY <2>1, <2>3 DEF Pipe, Step
    <2> QED BY <1>2, <1>3, <2>2, <2>4, RestKept
<1>5. CASE ~pipeOpen
    <2>1. todo' = Tail(todo) /\ stops' = 0
        BY <1>1, <1>5 DEF StopThread, Done, Then
    <2> QED BY <1>1, <1>2, <1>3, <2>1, RestDone
<1> QED BY <1>4, <1>5


LEMMA RestPlain ==
    ASSUME RestInv, JoinThread \/ StopDevice \/ SetPreview \/ SetTakingPicture \/ CleanupNotifier
    PROVE  RestInv'
<1>1. /\ todo # <<>> /\ <<>> \o Tail(todo) = Tail(todo)
      /\ ~JoinThread => stops = 0
    BY RestFirst DEF JoinThread, StopDevice, SetPreview, SetTakingPicture, CleanupNotifier
<1>2. todo' = Tail(todo) /\ calls' = calls
    BY <1>1 DEF JoinThread, StopDevice, SetPreview, SetTakingPicture, CleanupNotifier, Done, Then
<1>3. allocations' = allocations /\ workerFrame' = workerFrame
      /\ mCurrentFrame' \in {0, mCurrentFrame}
    BY DEF JoinThread, StopDevice, SetPreview, SetTakingPicture, CleanupNotifier, NoThread,
           deviceVars, workerVars
<1>4. stops' = 0
    <2>1. CASE JoinThread
        BY <2>1 DEF JoinThread, ClosePipe
    <2>2. CASE ~JoinThread
        BY <1>1, <2>2 DEF StopDevice, SetPreview, SetTakingPicture, CleanupNotifier, NoThread,
                          pipeVars
    <2> QED BY <2>1, <2>2
<1>5. failures' \in 0..MaxFailures
    <2>1. Fails \/ UNCHANGED failures
        BY DEF JoinThread, StopDevice, SetPreview, SetTakingPicture, CleanupNotifier
    <2> QED BY <2>1, FailsBound DEF RestInv
<1> QED BY <1>1, <1>2, <1>3, <1>4, <1>5, RestDone

LEMMA RestConnect ==
    ASSUME RestInv, ConnectDevice \/ DisconnectDevice
    PROVE  RestInv'
<1>1. todo # <<>> /\ <<>> \o Tail(todo) = Tail(todo) /\ stops = 0
    BY RestFirst DEF ConnectDevice, DisconnectDevice
<1>2. /\ calls' = calls /\ stops' = 0 /\ allocations' = allocations
      /\ mCurrentFrame' \in {0, mCurrentFrame} /\ workerFrame' = workerFrame
    BY <1>1 DEF ConnectDevice, DisconnectDevice, Instead, Done, Then, NoThread, pipeVars,
                workerVars
<1>3. failures' \in 0..MaxFailures
    <2>1. Fails \/ UNCHANGED failures
        BY DEF ConnectDevice, DisconnectDevice
    <2> QED BY <2>1, FailsBound DEF RestInv
<1>4. CASE todo' = Tail(todo)
    BY <1>1, <1>2, <1>3, <1>4, RestDone
<1>5. CASE todo' \in {<<>>, <<"previewOff">>}
    <2>1. Owed(todo') = 0 /\ GoodRow(todo') /\ OneKind(todo')
        BY <1>5, CallRows
    <2>2. Owed(todo') <= Owed(todo)
        BY <2>1, OwedType
    <2>3. Pipe'
        BY <1>2 DEF Pipe
    <2> QED BY <1>2, <1>3, <2>1, <2>2, <2>3, RestKept
<1> QED BY <1>1, <1>4, <1>5 DEF ConnectDevice, DisconnectDevice, Instead, Done, Then

\* A frame is allocated that the row still owed.
LEMMA RestAllocate ==
    ASSUME RestInv, GoodRow(todo'), OneKind(todo'), Pipe', Allocate, calls' = calls,
           workerFrame' = workerFrame, failures' \in 0..MaxFailures,
           Owed(todo') + 1 <= Owed(todo)
    PROVE  RestInv'
<1>1. Owed(todo) \in {0, 1, 2} /\ Owed(todo') \in {0, 1, 2}
    BY OwedType
<1>2. allocations' + Owed(todo') <= 2 * calls' /\ calls' \in 0..MaxCalls
    BY <1>1, EmulatedCameraAssumption DEF RestInv, Frames, Allocate
<1>3. /\ allocations' \in Nat /\ mCurrentFrame' \in 0..allocations'
      /\ workerFrame' \in 0..allocations'
    BY DEF RestInv, Frames, Allocate
<1> QED BY <1>2, <1>3 DEF RestInv, Rows, Frames

LEMMA RestStartDevice ==
    ASSUME RestInv, NEW s \in StartSteps, NEW recovery, StartDevice(s, recovery),
           GoodRow(recovery), OneKind(recovery), Owed(recovery) + 1 <= Owed(todo),
           Owed(Tail(todo)) + 1 <= Owed(todo)
    PROVE  RestInv'
<1>1. /\ todo # <<>> /\ todo[1] = s /\ <<>> \o Tail(todo) = Tail(todo) /\ stops = 0
    BY RestFirst DEF StartDevice, StartSteps
<1>2. calls' = calls /\ stops' = 0 /\ workerFrame' = workerFrame
    BY <1>1 DEF StartDevice, Instead, Done, Then, NoThread, pipeVars, workerVars
<1>3. failures' \in 0..MaxFailures
    <2>1. Fails \/ UNCHANGED failures
        BY DEF StartDevice
    <2> QED BY <2>1, FailsBound DEF RestInv
<1>4. todo' \in {Tail(todo), recovery}
    BY <1>1 DEF StartDevice, Instead, Done, Then
<1>5. GoodRow(todo') /\ OneKind(todo') /\ Owed(todo') + 1 <= Owed(todo) /\ Pipe'
    <2>1. GoodRow(Tail(todo)) /\ OneKind(Tail(todo))
        BY <1>1, RowDone DEF RestInv
    <2>2. GoodRow(todo') /\ OneKind(todo') /\ Owed(todo') + 1 <= Owed(todo)
        BY <1>4, <2>1
    <2>3. Pipe'
        BY <1>2 DEF Pipe
    <2> QED BY <2>2, <2>3
<1>6. CASE Allocate
    BY <1>2, <1>3, <1>5, <1>6, RestAllocate
<1>7. CASE UNCHANGED deviceVars
    <2>1. allocations' = allocations /\ mCurrentFrame' = mCurrentFrame
        BY <1>7 DEF deviceVars
    <2>2. Owed(todo') <= Owed(todo)
        BY <1>5, OwedType
    <2> QED BY <1>2, <1>3, <1>5, <2>1, <2>2, RestKept
<1> QED BY <1>6, <1>7 DEF StartDevice

LEMMA RestStartThread ==
    ASSUME RestInv, NEW s \in DeliverSteps, NEW oneBurst, NEW recovery,
           StartThread(s, oneBurst, recovery),
           GoodRow(recovery), OneKind(recovery), Owed(recovery) <= Owed(todo)
    PROVE  RestInv'
<1>1. /\ todo # <<>> /\ todo[1] = s /\ <<>> \o Tail(todo) = Tail(todo) /\ stops = 0
    BY RestFirst DEF StartThread, DeliverSteps
<1>2. /\ calls' = calls /\ stops' = 0 /\ workerFrame' = workerFrame /\ failures' = failures
      /\ allocations' = allocations /\ mCurrentFrame' = mCurrentFrame
    BY <1>1 DEF StartThread, Instead, Done, Then, deviceVars, pipeVars
<1>3. todo' \in {Tail(todo), recovery}
    BY <1>1 DEF StartThread, Instead, Done, Then
<1>4. GoodRow(todo') /\ OneKind(todo') /\ Owed(todo') <= Owed(todo) /\ Pipe'
    <2>1. GoodRow(Tail(todo)) /\ OneKind(Tail(todo)) /\ Owed(Tail(todo)) <= Owed(todo)
        BY <1>1, RowDone DEF RestInv
    <2>2. GoodRow(todo') /\ OneKind(todo') /\ Owed(todo') <= Owed(todo)
        BY <1>3, <2>1
    <2>3. Pipe'
        BY <1>2 DEF Pipe
    <2> QED BY <2>2, <2>3
<1>5. failures' \in 0..MaxFailures
    BY <1>2 DEF RestInv, Frames
<1> QED BY <1>2, <1>4, <1>5, RestKept

LEMMA RestCall == ASSUME RestInv, CallStep PROVE RestInv'
<1>1. CASE Stop \/ StopThread
    BY <1>1, RestStop, RestStopThread
<1>2. CASE JoinThread \/ StopDevice \/ SetPreview \/ SetTakingPicture \/ CleanupNotifier
    BY <1>2, RestPlain
<1>3. CASE ConnectDevice \/ DisconnectDevice
    BY <1>3, RestConnect
<1>4. CASE StartDevice("startForPreview", <<"previewOff">>)
    <2>1. Step("startForPreview")
        BY <1>4 DEF StartDevice
    <2>2. todo # <<>> /\ todo[1] = "startForPreview"
        BY <2>1, RestFirst
    <2>3. Owed(todo) >= 1 /\ Owed(Tail(todo)) = 0 /\ Owed(todo) \in {0, 1, 2}
        BY <2>2, RowDone, OwedType DEF RestInv
    <2>4. Owed(<<"previewOff">>) = 0 /\ OneKind(<<"previewOff">>) /\ GoodRow(<<"previewOff">>)
        BY CallRows
    <2> QED BY <1>4, <2>3, <2>4, RestStartDevice DEF StartSteps
<1>5. CASE StartDevice("startForPicture", AfterPicture)
    <2>1. Step("startForPicture")
        BY <1>5 DEF StartDevice
    <2>2. todo # <<>> /\ todo[1] = "startForPicture"
        BY <2>1, RestFirst
    <2>3. Owed(todo) = 2 /\ Owed(Tail(todo)) <= 1 /\ Owed(Tail(todo)) \in {0, 1, 2}
        BY <2>2, RowDone, OwedType DEF RestInv
    <2> QED BY <1>5, <2>3, RowAfterPicture, RestStartDevice DEF StartSteps
<1>6. CASE StartThread("deliver", FALSE, <<"stopDevice", "previewOff">>)
    <2> DEFINE row == <<"stopDevice", "previewOff">>
    <2>1. Owed(row) = 0 /\ OneKind(row) /\ GoodRow(row) /\ Owed(todo) \in {0, 1, 2}
        BY CallRows, OwedType
    <2>2. StartThread("deliver", FALSE, row) /\ "deliver" \in DeliverSteps
        BY <1>6 DEF DeliverSteps
    <2> HIDE DEF row
    <2>3. Owed(row) <= Owed(todo)
        BY <2>1
    <2> QED BY <2>1, <2>2, <2>3, RestStartThread, Zenon
<1>7. CASE StartThread("deliverOne", TRUE, AfterPicture)
    <2>1. Step("deliverOne")
        BY <1>7 DEF StartThread
    <2>2. todo # <<>> /\ todo[1] = "deliverOne"
        BY <2>1, RestFirst
    <2>3. Owed(todo) >= 1 /\ Owed(todo) \in {0, 1, 2}
        BY <2>2, RowDone, OwedType DEF RestInv
    <2>4. GoodRow(AfterPicture) /\ OneKind(AfterPicture) /\ Owed(AfterPicture) <= Owed(todo)
        BY <2>3, RowAfterPicture
    <2>5. "deliverOne" \in DeliverSteps
        BY DEF DeliverSteps
    <2> QED BY <1>7, <2>4, <2>5, RestStartThread, Zenon
<1> QED BY <1>1, <1>2, <1>3, <1>4, <1>5, <1>6, <1>7 DEF CallStep

LEMMA RestWorker == ASSUME RestInv, Worker PROVE RestInv'
<1>1. /\ todo' = todo /\ calls' = calls /\ allocations' = allocations
      /\ mCurrentFrame' = mCurrentFrame
    BY DEF Worker, ReadyToRun, Select, DrawFrame, PreviewFrame, NotifyFrame, EndRound, EndThread,
           OnlyWorker, deviceVars
<1>2. workerFrame' \in {0, workerFrame, mCurrentFrame}
    BY DEF Worker, ReadyToRun, Select, DrawFrame, PreviewFrame, NotifyFrame, EndRound, EndThread
<1>3. failures' \in 0..MaxFailures
    <2>1. Fails \/ UNCHANGED failures
        BY DEF Worker, ReadyToRun, Select, DrawFrame, PreviewFrame, NotifyFrame, EndRound,
               EndThread
    <2> QED BY <2>1, FailsBound DEF RestInv
<1>4. stops' \in {0, stops}
    BY DEF Worker, ReadyToRun, Select, DrawFrame, PreviewFrame, NotifyFrame, EndRound, EndThread,
           pipeVars, RestInv, Pipe
<1>5. Pipe' /\ GoodRow(todo') /\ OneKind(todo') /\ Owed(todo') <= Owed(todo)
    BY <1>1, <1>4, OwedType DEF RestInv, Rows, Pipe, Step
<1> QED BY <1>1, <1>2, <1>3, <1>5, RestKept

LEMMA TypeInit == Init => TypeInv
<1> SUFFICES ASSUME Init PROVE TypeInv
    OBVIOUS
<1>1. Flags /\ Words
    BY DEF Init, Flags, Words
<1>2. Rows /\ Frames /\ Pipe
    BY CallRows, EmulatedCameraAssumption DEF Init, Rows, Frames, Pipe
<1> QED BY <1>1, <1>2 DEF TypeInv

LEMMA TypeStep == TypeInv /\ [Next]_vars => TypeInv'
<1> SUFFICES ASSUME TypeInv, [Next]_vars PROVE TypeInv'
    OBVIOUS
<1>1. CASE Next
    <2>1. Flags' /\ Words'
        BY <1>1, FlagsStep, WordsStep DEF TypeInv
    <2>2. RestInv'
        BY <1>1, RestBegin, RestCall, RestWorker DEF Next, TypeInv, RestInv
    <2> QED BY <2>1, <2>2 DEF TypeInv, RestInv
<1>2. CASE UNCHANGED vars
    <2>1. Flags'
        BY <1>2, Zenon DEF vars, callVars, threadVars, pipeVars, workerVars, notifierVars, TypeInv,
                           Flags
    <2>2. Words'
        BY <1>2 DEF vars, callVars, deviceVars, workerVars, TypeInv, Words
    <2>3. RestInv'
        BY <1>2 DEF vars, callVars, deviceVars, pipeVars, workerVars, TypeInv, RestInv, Rows,
                    Frames, Pipe, Step
    <2> QED BY <2>1, <2>2, <2>3 DEF TypeInv, RestInv
<1> QED BY <1>1, <1>2

\* In every state each variable has its type; in particular a call allocates at most two
\* frames, whichever of its steps fail (takePicture one for the picture and, when that
\* fails, one for the preview it starts again), and the pipe of the worker never holds two
\* THREAD_STOPs (EmulatedCamera.cpp:335-409, EmulatedCameraDevice.cpp:306-344). Nothing is
\* assumed of the threads.
THEOREM TypeCorrect == Spec => []TypeOK
<1>1. TypeInv => TypeOK
    BY TypeInvImplies
<1> QED BY <1>1, TypeInit, TypeStep, PTL DEF Spec

=============================================================================
