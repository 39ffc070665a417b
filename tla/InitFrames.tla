----------------------------- MODULE InitFrames -----------------------------
(***************************************************************************)
(* How submitted frames reach sendFrame().                                 *)
(*                                                                         *)
(* Until the pipeline has received mConfigInitFrameCount frames, a frame   *)
(* is queued to the InitFrameHandler, whose thread sends it, because the   *)
(* nodes may still be configuring.  The frame that completes the count     *)
(* drains the handler, destroys it and is sent by its submitter, as is     *)
(* every later frame.                                                      *)
(*                                                                         *)
(* sendFrame() itself is an interval here (SendFrame .. SendFrameReturn);  *)
(* what it does between the two is module PipelineContext.                 *)
(*                                                                         *)
(* Lifetime is part of the model: the handler only holds a weak pointer to *)
(* the context, promoted for the time of one sendFrame(), and whoever      *)
(* drops the last strong reference runs PipelineContextImpl::onLastStrong- *)
(* Ref() on its own thread.                                                *)
(***************************************************************************)
EXTENDS Naturals, Sequences, FiniteSets

CONSTANTS
  NumFrames,             \* bound: frames submitted in a behaviour
  mConfigInitFrameCount, \* setInitFrameCount(), fixed before config()
  Waiters,               \* threads that may call waitUntilInitFrameDrained()
  DrainBeforeDrop        \* TRUE: the owner drains before it drops the context

ASSUME NumFramesAssumption == NumFrames \in Nat
ASSUME InitFrameCountAssumption == mConfigInitFrameCount \in Nat
ASSUME DrainAssumption == DrainBeforeDrop \in BOOLEAN
ASSUME WaitersAssumption ==
  Waiters \cap {"submit", "handler", "owner", "nobody"} = {}

VARIABLES
  pc,                    \* where each thread is
  mFrameCountQueued,     \* frames counted by submitOneFrame()
  mInitFrameHandler,     \* the context still points to its handler
  initFrameHandlerLock,  \* holder of mInitFrameHandlerLock
  mActive,               \* enqueue() is allowed
  mPendingQueue,         \* init frames waiting for the handler thread
  mSendingFrame,         \* the frame the handler thread holds, or NoFrame
  mThreadExitPending,    \* requestExit() was called
  owned,                 \* the owner still holds its strong reference
  started,               \* frames in the order their sendFrame() began
  finished               \* frames in the order their sendFrame() returned

vars == <<pc, mFrameCountQueued, mInitFrameHandler, initFrameHandlerLock,
          mActive, mPendingQueue, mSendingFrame, mThreadExitPending,
          owned, started, finished>>

handlerVars == <<mActive, mPendingQueue, mSendingFrame, mThreadExitPending>>
sendVars    == <<started, finished>>

Frames  == 1 .. NumFrames
NoFrame == 0
Nobody  == "nobody"
Threads == {"submit", "handler", "owner"} \cup Waiters

\* Threads that may run waitUntilInitFrameDrainedAndDestroyInitFrameHandler():
\* the submitter, and whoever drops the last strong reference.
Destroyers == {"submit", "handler", "owner"}

Location ==
  {"idle", "enqueue", "lock", "draining", "send", "sending",  \* callers
   "dequeue", "promote", "release", "finish", "check", "exited", "fatal",
   "wait", "waiting", "gone"}

TypeOK ==
  /\ pc \in [Threads -> Location]
  /\ mFrameCountQueued \in 0 .. NumFrames
  /\ mInitFrameHandler \in BOOLEAN
  /\ initFrameHandlerLock \in Threads \cup {Nobody}
  /\ mActive \in BOOLEAN
  /\ mPendingQueue \in Seq(Frames)
  /\ mSendingFrame \in Frames \cup {NoFrame}
  /\ mThreadExitPending \in BOOLEAN
  /\ owned \in BOOLEAN
  /\ started \in Seq(Frames)
  /\ finished \in Seq(Frames)

\* config() made the handler if there are init frames, and started its thread.
Init ==
  /\ pc = [t \in Threads |->
             IF t # "handler" THEN "idle"
             ELSE IF mConfigInitFrameCount > 0 THEN "dequeue" ELSE "exited"]
  /\ mFrameCountQueued = 0
  /\ mInitFrameHandler \in BOOLEAN
  /\ mInitFrameHandler <=> mConfigInitFrameCount > 0
  /\ initFrameHandlerLock = Nobody
  /\ mActive = TRUE
  /\ mPendingQueue = <<>>
  /\ mSendingFrame = NoFrame
  /\ mThreadExitPending = FALSE
  /\ owned = TRUE
  /\ started = <<>>
  /\ finished = <<>>

Goto(t, l) == pc' = [pc EXCEPT ![t] = l]

\* Wrong variant: the frame that has left the queue is forgotten.
DrainedQueueOnly == mPendingQueue = <<>>

\* The condition both drain loops wait for.
Drained == mPendingQueue = <<>> /\ mSendingFrame = NoFrame

-----------------------------------------------------------------------------
(* submitFrame() and submitOneFrame(), under mSubmitFrameLock: one frame at *)
(* a time, so a single submitting thread.                                  *)

SubmitOneFrame ==
  /\ pc["submit"] = "idle"
  /\ owned
  /\ mFrameCountQueued < NumFrames
  /\ mFrameCountQueued' = mFrameCountQueued + 1
  /\ Goto("submit",
          IF mConfigInitFrameCount = 0 THEN "send"
          ELSE IF mConfigInitFrameCount > mFrameCountQueued' THEN "enqueue"
          ELSE "lock")
  /\ UNCHANGED <<mInitFrameHandler, initFrameHandlerLock, handlerVars,
                 sendVars, owned>>

\* InitFrameHandler::enqueue(): refused (the frame is dropped) once inactive.
Enqueue(f) ==
  mPendingQueue' = IF mActive THEN Append(mPendingQueue, f) ELSE mPendingQueue

EnqueueInitFrame ==
  /\ pc["submit"] = "enqueue"
  /\ initFrameHandlerLock = Nobody
  /\ IF mInitFrameHandler
       THEN Enqueue(mFrameCountQueued) /\ Goto("submit", "idle")
       ELSE mPendingQueue' = mPendingQueue /\ Goto("submit", "lock")
  /\ UNCHANGED <<mFrameCountQueued, mInitFrameHandler, initFrameHandlerLock,
                 mActive, mSendingFrame, mThreadExitPending, sendVars, owned>>

-----------------------------------------------------------------------------
(* waitUntilInitFrameDrainedAndDestroyInitFrameHandler(), which keeps      *)
(* mInitFrameHandlerLock for as long as it waits.                          *)

AfterDestroy(t) ==
  CASE t = "submit"  -> "send"
    [] t = "handler" -> "finish"
    [] t = "owner"   -> "gone"

Deactivate(t) ==
  /\ pc[t] = "lock"
  /\ initFrameHandlerLock = Nobody
  /\ IF mInitFrameHandler
       THEN /\ initFrameHandlerLock' = t
            /\ mActive' = FALSE
            /\ Goto(t, "draining")
       ELSE /\ Goto(t, AfterDestroy(t))
            /\ UNCHANGED <<initFrameHandlerLock, mActive>>
  /\ UNCHANGED <<mFrameCountQueued, mInitFrameHandler, mPendingQueue,
                 mSendingFrame, mThreadExitPending, sendVars, owned>>

\* Wrong variant: the thread is told to exit without waiting.
DestroyHandlerAtOnce(t) ==
  /\ pc[t] = "draining"
  /\ mThreadExitPending' = TRUE
  /\ mInitFrameHandler' = FALSE
  /\ initFrameHandlerLock' = Nobody
  /\ Goto(t, AfterDestroy(t))
  /\ UNCHANGED <<mFrameCountQueued, mActive, mPendingQueue, mSendingFrame,
                 sendVars, owned>>

\* waitUntilDrained(), requestExit() and the reset of the pointer.
DestroyHandler(t) ==
  /\ pc[t] = "draining"
  /\ Drained
  /\ mThreadExitPending' = TRUE
  /\ mInitFrameHandler' = FALSE
  /\ initFrameHandlerLock' = Nobody
  /\ Goto(t, AfterDestroy(t))
  /\ UNCHANGED <<mFrameCountQueued, mActive, mPendingQueue, mSendingFrame,
                 sendVars, owned>>

-----------------------------------------------------------------------------
(* waitUntilInitFrameDrained(), called by flush, drain and reconfiguration *)
(* on other threads.                                                       *)

CallWait(w) ==
  /\ pc[w] = "idle"
  /\ owned
  /\ Goto(w, "wait")
  /\ UNCHANGED <<mFrameCountQueued, mInitFrameHandler, initFrameHandlerLock,
                 handlerVars, sendVars, owned>>

LockWait(w) ==
  /\ pc[w] = "wait"
  /\ initFrameHandlerLock = Nobody
  /\ IF mInitFrameHandler
       THEN initFrameHandlerLock' = w /\ Goto(w, "waiting")
       ELSE initFrameHandlerLock' = Nobody /\ Goto(w, "idle")
  /\ UNCHANGED <<mFrameCountQueued, mInitFrameHandler, handlerVars, sendVars,
                 owned>>

WaitReturns(w) ==
  /\ pc[w] = "waiting"
  /\ Drained
  /\ initFrameHandlerLock' = Nobody
  /\ Goto(w, "idle")
  /\ UNCHANGED <<mFrameCountQueued, mInitFrameHandler, handlerVars, sendVars,
                 owned>>

-----------------------------------------------------------------------------
(* InitFrameHandler::threadLoop() and _threadLoop().                       *)

\* Wrong variant: the dequeued frame is only a local of the thread.
DequeueUnrecorded ==
  /\ pc["handler"] = "dequeue"
  /\ IF mPendingQueue # <<>>
       THEN mPendingQueue' = Tail(mPendingQueue) /\ Goto("handler", "promote")
       ELSE Goto("handler", "check") /\ UNCHANGED mPendingQueue
  /\ UNCHANGED <<mSendingFrame, mFrameCountQueued, mInitFrameHandler,
                 initFrameHandlerLock, mActive, mThreadExitPending, sendVars, owned>>

\* The wait for a frame times out, so an empty queue also ends an iteration.
Dequeue ==
  /\ pc["handler"] = "dequeue"
  /\ IF mPendingQueue # <<>>
       THEN /\ mSendingFrame' = Head(mPendingQueue)
            /\ mPendingQueue' = Tail(mPendingQueue)
            /\ Goto("handler", "promote")
       ELSE Goto("handler", "check") /\ UNCHANGED <<mSendingFrame, mPendingQueue>>
  /\ UNCHANGED <<mFrameCountQueued, mInitFrameHandler, initFrameHandlerLock,
                 mActive, mThreadExitPending, sendVars, owned>>

\* mpPipelineContext.promote(): NULL, a fatal error, once nobody owns it.
Promote ==
  /\ pc["handler"] = "promote"
  /\ Goto("handler", IF owned THEN "send" ELSE "fatal")
  /\ UNCHANGED <<mFrameCountQueued, mInitFrameHandler, initFrameHandlerLock,
                 handlerVars, sendVars, owned>>

\* pPipelineContext.clear(): the thread that drops the last strong reference
\* runs onLastStrongRef(), which destroys the handler.
ReleaseContext ==
  /\ pc["handler"] = "release"
  /\ Goto("handler", IF owned THEN "finish" ELSE "lock")
  /\ UNCHANGED <<mFrameCountQueued, mInitFrameHandler, initFrameHandlerLock,
                 handlerVars, sendVars, owned>>

\* Wrong variant: the frame that was sent stays recorded as being sent.
FinishNoReset ==
  /\ pc["handler"] = "finish"
  /\ Goto("handler", "check")
  /\ UNCHANGED <<mFrameCountQueued, mInitFrameHandler, initFrameHandlerLock,
                 mActive, mPendingQueue, mSendingFrame, mThreadExitPending,
                 sendVars, owned>>

Finish ==
  /\ pc["handler"] = "finish"
  /\ mSendingFrame' = NoFrame
  /\ Goto("handler", "check")
  /\ UNCHANGED <<mFrameCountQueued, mInitFrameHandler, initFrameHandlerLock,
                 mActive, mPendingQueue, mThreadExitPending, sendVars, owned>>

\* _threadLoop() between two iterations.  (The pointer of the context, whose
\* reset would also end the loop, is reset together with the exit request.)
Check ==
  /\ pc["handler"] = "check"
  /\ Goto("handler", IF mThreadExitPending THEN "exited" ELSE "dequeue")
  /\ UNCHANGED <<mFrameCountQueued, mInitFrameHandler, initFrameHandlerLock,
                 handlerVars, sendVars, owned>>

-----------------------------------------------------------------------------
(* sendFrame(), called by the handler thread or by the submitter.          *)

Senders == {"submit", "handler"}

InHand(t) == IF t = "submit" THEN mFrameCountQueued ELSE mSendingFrame

SendFrame(t) ==
  /\ pc[t] = "send"
  /\ started' = Append(started, InHand(t))
  /\ Goto(t, "sending")
  /\ UNCHANGED <<mFrameCountQueued, mInitFrameHandler, initFrameHandlerLock,
                 handlerVars, finished, owned>>

\* The result is only logged by the handler, and returned to the submitter.
SendFrameReturn(t) ==
  /\ pc[t] = "sending"
  /\ finished' = Append(finished, InHand(t))
  /\ Goto(t, IF t = "submit" THEN "idle" ELSE "release")
  /\ UNCHANGED <<mFrameCountQueued, mInitFrameHandler, initFrameHandlerLock,
                 handlerVars, started, owned>>

-----------------------------------------------------------------------------
(* The owner drops its reference when no thread of its own is in a call.   *)

HandlerHoldsContext == pc["handler"] \in {"send", "sending", "release"}

DropContext ==
  /\ pc["owner"] = "idle"
  /\ pc["submit"] = "idle"
  /\ \A w \in Waiters : pc[w] = "idle"
  /\ DrainBeforeDrop => Drained
  /\ owned' = FALSE
  /\ Goto("owner", IF HandlerHoldsContext THEN "gone" ELSE "lock")
  /\ UNCHANGED <<mFrameCountQueued, mInitFrameHandler, initFrameHandlerLock,
                 handlerVars, sendVars>>

-----------------------------------------------------------------------------
SubmitStep  == SubmitOneFrame \/ EnqueueInitFrame
HandlerStep == Dequeue \/ Promote \/ ReleaseContext \/ Finish \/ Check
DestroyStep(t) == Deactivate(t) \/ DestroyHandler(t)
WaitStep(w) == LockWait(w) \/ WaitReturns(w)
SendStep(t) == SendFrame(t) \/ SendFrameReturn(t)

Next ==
  \/ SubmitStep
  \/ HandlerStep
  \/ \E t \in Destroyers : DestroyStep(t)
  \/ \E t \in Senders : SendStep(t)
  \/ \E w \in Waiters : CallWait(w) \/ WaitStep(w)
  \/ DropContext

Spec == Init /\ [][Next]_vars

\* Every thread runs, and a mutex is eventually granted to a thread that keeps
\* asking for it.  Nothing obliges anyone to submit, to wait or to drop.
Fairness ==
  /\ WF_vars(HandlerStep)
  /\ SF_vars(EnqueueInitFrame)
  /\ \A t \in Destroyers : SF_vars(DestroyStep(t))
  /\ \A t \in Senders : WF_vars(SendStep(t))
  /\ \A w \in Waiters : SF_vars(WaitStep(w))

FairSpec == Spec /\ Fairness

-----------------------------------------------------------------------------
(* Correctness.                                                            *)

\* Frames reach sendFrame() in the order in which they were submitted, across
\* the hand-over from the handler thread to the submitting thread.
SentInOrder == \A i \in 1 .. Len(started) : started[i] = i

\* The handler thread and the submitter are never in sendFrame() together,
\* which is what lets sendFrame() set mLastRequestNo without a lock.
OneSender == ~(pc["submit"] = "sending" /\ pc["handler"] = "sending")

RangeOf(s) == {s[i] : i \in 1 .. Len(s)}

\* Every submitted frame has been sent or is in somebody's hands: enqueue()
\* never refuses one, and none falls between the queue and mSendingFrame.
NoFrameLost ==
  \A f \in 1 .. mFrameCountQueued :
    \/ f \in RangeOf(started)
    \/ f \in RangeOf(mPendingQueue)
    \/ f = mSendingFrame
    \/ f = mFrameCountQueued /\ pc["submit"] \in {"enqueue", "lock", "draining", "send"}

\* The handler thread does not wait for itself to let go of mSendingFrame.
HandlerDoesNotAwaitItself == pc["handler"] # "draining"

\* The inductive invariant behind the order: where each thread can be, who
\* holds mInitFrameHandlerLock, and that the frames in flight form one
\* sequence: sent ones, the handler's, the pending ones, the submitter's.
Locations ==
  /\ pc["submit"] \in {"idle", "enqueue", "lock", "draining", "send", "sending"}
  /\ pc["owner"] \in {"idle", "lock", "draining", "gone"}
  /\ pc["handler"] \in {"dequeue", "promote", "send", "sending", "release", "lock",
                       "draining", "finish", "check", "exited", "fatal"}
  /\ \A w \in Waiters : pc[w] \in {"idle", "wait", "waiting"}

LockOwner ==
  \A t \in Threads :
    pc[t] \in {"draining", "waiting"} <=> initFrameHandlerLock = t

\* A handler the context still points to is active until somebody drains it
\* for good; one it no longer points to has nothing left.
HandlerStatus ==
  /\ mConfigInitFrameCount = 0 => ~mInitFrameHandler
  /\ mInitFrameHandler /\ ~mActive =>
        \E t \in Destroyers : pc[t] = "draining"
  /\ ~mInitFrameHandler => Drained
  /\ pc["submit"] \in {"send", "sending"} => ~mInitFrameHandler
  /\ mSendingFrame = NoFrame <=> pc["handler"] \in {"dequeue", "check", "exited"}

\* 1 while the handler thread holds a frame it has not begun to send.
Holding == IF pc["handler"] \in {"promote", "send", "fatal"} THEN 1 ELSE 0

\* 1 while the submitter has counted a frame and neither queued nor begun it.
Submitting ==
  IF pc["submit"] \in {"enqueue", "lock", "draining", "send"} THEN 1 ELSE 0

\* 1 while one of them is inside sendFrame().
Sending == IF "sending" \in {pc["submit"], pc["handler"]} THEN 1 ELSE 0

OneAtATime == Len(finished) + Sending = Len(started)

HandOver ==
  /\ Len(started) + Holding + Len(mPendingQueue) + Submitting = mFrameCountQueued
  /\ mSendingFrame # NoFrame => mSendingFrame = Len(started) + Holding
  /\ \A i \in 1 .. Len(mPendingQueue) :
        mPendingQueue[i] = Len(started) + Holding + i
  /\ pc["submit"] # "idle" => mFrameCountQueued > 0

IInv ==
  /\ TypeOK
  /\ Locations
  /\ LockOwner
  /\ HandlerStatus
  /\ HandOver
  /\ SentInOrder
  /\ OneAtATime

\* The context implements the abstract FIFO of FrameOrder.
Order == INSTANCE FrameOrder WITH submitted <- mFrameCountQueued,
                                  started <- Len(started),
                                  finished <- Len(finished)

ImplementsFrameOrder == Order!Spec

\* waitUntilInitFrameDrained() returns: a waiter is not starved although the
\* handler thread and the submitter compete for the same locks.
WaitTerminates == \A w \in Waiters : pc[w] = "wait" ~> pc[w] = "idle"

\* Every submitted frame is eventually sent, whoever has to send it.
EverySubmittedFrameIsSent ==
  \A f \in Frames : mFrameCountQueued = f ~> f \in RangeOf(finished)
=============================================================================
