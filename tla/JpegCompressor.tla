--------------------------- MODULE JpegCompressor ---------------------------
(***************************************************************************)
(* The JPEG compressor of the emulated camera:                             *)
(* camera/fake-pipeline2/JpegCompressor.cpp, in its asynchronous use.      *)
(*                                                                         *)
(* start() claims the compressor under mBusyMutex and runs a thread that   *)
(* compresses one buffer set, calls its listener, cleans up and ends.      *)
(* Between the end of cleanUp, when the compressor is no longer busy, and  *)
(* the end of the thread, Thread::run refuses to run it again.             *)
(*                                                                         *)
(* A buffer set is the number of the frame it was made for; freed      *)
(* holds the sets deleted so far.  start() takes ownership of the set it   *)
(* is given, and cleanUp deletes it.                                       *)
(***************************************************************************)
EXTENDS Naturals

VARIABLES
    mIsBusy, mBuffers,     \* guarded by mBusyMutex
    jpegDone,              \* the waiter on mDone: the thread in waitForDone
    jpegPc,                \* the compression thread; "off": not running
    freed                  \* the buffer sets deleted so far

jpegVars == <<mIsBusy, mBuffers, jpegDone, jpegPc, freed>>

JpegTypeOK ==
    /\ mIsBusy \in BOOLEAN
    /\ mBuffers \in Nat
    /\ jpegDone \in {"none", "waiting", "signalled"}
    /\ jpegPc \in {"off", "compress", "cleanUp", "exit"}
    /\ freed \subseteq Nat

JpegInit ==
    /\ mIsBusy = FALSE
    /\ mBuffers = 0
    /\ jpegDone = "none"
    /\ jpegPc = "off"
    /\ freed = {}

\* delete of the buffer sets bs.
Free(bs) == freed' = freed \cup bs

-----------------------------------------------------------------------------
(* Operations.                                                             *)

\* A new compressor object.
JpegCreate ==
    /\ mIsBusy' = FALSE
    /\ mBuffers' = 0
    /\ jpegDone' = "none"
    /\ jpegPc' = "off"
    /\ UNCHANGED freed

\* start(b): the compressor is busy, and the caller keeps b ...
StartRefused == mIsBusy /\ UNCHANGED jpegVars
\* ... or b is taken and the thread runs ...
Started(b) ==
    /\ ~mIsBusy /\ jpegPc = "off"
    /\ mIsBusy' = TRUE
    /\ mBuffers' = b
    /\ jpegPc' = "compress"
    /\ UNCHANGED <<jpegDone, freed>>
\* ... or the last thread has not ended: run() fails, b is deleted, and the
\* compressor stays busy.
StartFailed(b) ==
    /\ ~mIsBusy /\ jpegPc # "off"
    /\ mIsBusy' = TRUE
    /\ mBuffers' = b
    /\ Free({b})
    /\ UNCHANGED <<jpegPc, jpegDone>>

\* waitForDone: returns at once unless the compressor is busy ...
WaitForDoneAtOnce == ~mIsBusy /\ UNCHANGED jpegVars
WaitForDoneBlock ==
    /\ mIsBusy /\ jpegDone = "none"
    /\ jpegDone' = "waiting"
    /\ UNCHANGED <<mIsBusy, mBuffers, jpegPc, freed>>
\* ... and blocks for one signal or for its timeout; there is no second look.
WaitForDoneEnds(outcome) ==
    /\ jpegDone = outcome
    /\ jpegDone' = "none"
    /\ UNCHANGED <<mIsBusy, mBuffers, jpegPc, freed>>

-----------------------------------------------------------------------------
(* The compression thread.                                                 *)

\* compress() has ended; the listener's part of the step is the listener's.
Compress ==
    /\ jpegPc = "compress"
    /\ jpegPc' = "cleanUp"
    /\ UNCHANGED <<mIsBusy, mBuffers, jpegDone, freed>>

\* the buffer set is deleted, the compressor freed and one waiter woken.
CleanUpBusy      == FALSE

\* A variant: the pointer is cleared before what it points to is deleted.
JpegCleanUpNullFirst ==
    /\ jpegPc = "cleanUp"
    /\ mBuffers' = 0
    /\ Free({mBuffers'})
    /\ mIsBusy' = CleanUpBusy
    /\ jpegDone' = IF jpegDone = "waiting" THEN "signalled" ELSE jpegDone
    /\ jpegPc' = "exit"

JpegCleanUp ==
    /\ jpegPc = "cleanUp"
    /\ Free({mBuffers})
    /\ mBuffers' = 0
    /\ mIsBusy' = CleanUpBusy
    /\ jpegDone' = IF jpegDone = "waiting" THEN "signalled" ELSE jpegDone
    /\ jpegPc' = "exit"

\* threadLoop returned false: Thread::_threadLoop ends the thread.
JpegThreadExit ==
    /\ jpegPc = "exit"
    /\ jpegPc' = "off"
    /\ UNCHANGED <<mIsBusy, mBuffers, jpegDone, freed>>
=============================================================================
