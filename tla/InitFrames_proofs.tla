-------------------------- MODULE InitFrames_proofs --------------------------
(***************************************************************************)
(* Proofs about InitFrames, for any number of frames, of init frames and   *)
(* of waiting threads, and whether or not the owner drains the context     *)
(* before it drops it.                                                     *)
(***************************************************************************)
EXTENDS InitFrames, TLAPS

\* Initially nothing is in flight.
LEMMA InitEstablishes == Init => IInv
<1>. SUFFICES ASSUME Init PROVE IInv
  OBVIOUS
<1>. USE NumFramesAssumption, InitFrameCountAssumption, WaitersAssumption
<1>1. TypeOK
  <2>1. pc \in [Threads -> Location]
    BY DEF Init, Threads, Location
  <2>2. /\ mInitFrameHandler \in BOOLEAN
        /\ mActive \in BOOLEAN
        /\ mThreadExitPending \in BOOLEAN
        /\ owned \in BOOLEAN
    BY Zenon DEF Init
  <2>3. /\ mFrameCountQueued \in 0 .. NumFrames
        /\ initFrameHandlerLock \in Threads \cup {Nobody}
        /\ mSendingFrame \in Frames \cup {NoFrame}
    BY DEF Init
  <2>4. /\ mPendingQueue \in Seq(Frames)
        /\ started \in Seq(Frames)
        /\ finished \in Seq(Frames)
    BY DEF Init
  <2>. QED BY Zenon, <2>1, <2>2, <2>3, <2>4 DEF TypeOK
<1>2. Locations
  BY DEF Init, Locations, Threads
<1>3. LockOwner
  BY DEF Init, LockOwner, Threads, Nobody
<1>4. HandlerStatus
  BY DEF Init, HandlerStatus, Threads, Drained, NoFrame
<1>5. HandOver
  BY DEF Init, HandOver, Holding, Submitting, Threads, NoFrame
<1>6. SentInOrder
  BY DEF Init, SentInOrder
<1>7. OneAtATime
  BY DEF Init, OneAtATime, Sending, Threads
<1>. QED BY <1>1, <1>2, <1>3, <1>4, <1>5, <1>6, <1>7 DEF IInv

\* What a sender has in hand is a frame.
LEMMA InHandIsFrame ==
  ASSUME IInv
  PROVE  /\ pc["submit"] # "idle" => mFrameCountQueued \in Frames
         /\ pc["handler"] \in {"promote", "send", "sending"} => mSendingFrame \in Frames
BY NumFramesAssumption
   DEF IInv, TypeOK, HandOver, HandlerStatus, Frames, NoFrame

\* Taking the first element of a sequence of frames.
LEMMA HeadAndTail ==
  ASSUME NEW q \in Seq(Frames), q # <<>>
  PROVE  /\ Head(q) \in Frames /\ Head(q) = q[1]
         /\ Tail(q) \in Seq(Frames) /\ Len(Tail(q)) = Len(q) - 1
         /\ \A i \in 1 .. Len(Tail(q)) : Tail(q)[i] = q[i + 1]
OBVIOUS

\* Every step keeps the types.
LEMMA TypeStep == IInv /\ [Next]_vars => TypeOK'
<1>. SUFFICES ASSUME IInv, [Next]_vars PROVE TypeOK'
  OBVIOUS
<1>. USE NumFramesAssumption, InitFrameCountAssumption DEF IInv, TypeOK
<1>1. CASE SubmitOneFrame
  BY <1>1 DEF SubmitOneFrame, Goto, handlerVars, sendVars, Threads, Location
<1>2. CASE EnqueueInitFrame
  <2>1. mPendingQueue' \in Seq(Frames)
    <3>1. mFrameCountQueued \in Frames
      BY <1>2, InHandIsFrame DEF EnqueueInitFrame
    <3>2. \/ mPendingQueue' = mPendingQueue
          \/ mPendingQueue' = Append(mPendingQueue, mFrameCountQueued)
      BY <1>2, Zenon DEF EnqueueInitFrame, Enqueue
    <3>3. Append(mPendingQueue, mFrameCountQueued) \in Seq(Frames)
      BY <3>1
    <3>. QED BY <3>2, <3>3
  <2>2. pc' \in [Threads -> Location]
    BY <1>2 DEF EnqueueInitFrame, Goto, Threads, Location
  <2>. QED BY <1>2, <2>1, <2>2 DEF EnqueueInitFrame, sendVars
<1>3. ASSUME NEW t \in Destroyers, Deactivate(t) PROVE TypeOK'
  BY <1>3 DEF Deactivate, AfterDestroy, Destroyers, Goto, sendVars, Threads, Location
<1>4. ASSUME NEW t \in Destroyers, DestroyHandler(t) PROVE TypeOK'
  BY <1>4 DEF DestroyHandler, AfterDestroy, Destroyers, Goto, sendVars, Threads, Location
<1>5. ASSUME NEW w \in Waiters, CallWait(w) PROVE TypeOK'
  BY <1>5 DEF CallWait, Goto, handlerVars, sendVars, Threads, Location
<1>6. ASSUME NEW w \in Waiters, LockWait(w) PROVE TypeOK'
  BY <1>6 DEF LockWait, Goto, handlerVars, sendVars, Threads, Location
<1>7. ASSUME NEW w \in Waiters, WaitReturns(w) PROVE TypeOK'
  BY <1>7 DEF WaitReturns, Goto, handlerVars, sendVars, Threads, Location
<1>8. CASE Dequeue
  BY <1>8, HeadAndTail DEF Dequeue, Goto, sendVars, Threads, Location
<1>9. CASE Promote
  BY <1>9 DEF Promote, Goto, handlerVars, sendVars, Threads, Location
<1>10. CASE ReleaseContext
  BY <1>10 DEF ReleaseContext, Goto, handlerVars, sendVars, Threads, Location
<1>11. CASE Finish
  BY <1>11 DEF Finish, Goto, sendVars, Threads, Location
<1>12. CASE Check
  BY <1>12 DEF Check, Goto, handlerVars, sendVars, Threads, Location
<1>13. ASSUME NEW t \in Senders, SendFrame(t) PROVE TypeOK'
  BY <1>13, InHandIsFrame DEF SendFrame, Senders, InHand, Goto, handlerVars, Threads, Location
<1>14. ASSUME NEW t \in Senders, SendFrameReturn(t) PROVE TypeOK'
  BY <1>14, InHandIsFrame DEF SendFrameReturn, Senders, InHand, Goto, handlerVars, Threads, Location
<1>15. CASE DropContext
  BY <1>15 DEF DropContext, Goto, handlerVars, sendVars, Threads, Location
<1>16. CASE UNCHANGED vars
  BY <1>16 DEF vars
<1>. QED BY <1>1, <1>2, <1>3, <1>4, <1>5, <1>6, <1>7, <1>8, <1>9, <1>10, <1>11,
            <1>12, <1>13, <1>14, <1>15, <1>16
         DEF Next, SubmitStep, HandlerStep, DestroyStep, SendStep, WaitStep

\* Every thread stays in its own part of the code.
LEMMA LocationsStep == IInv /\ [Next]_vars => Locations'
<1>. SUFFICES ASSUME IInv, [Next]_vars PROVE Locations'
  OBVIOUS
<1>. USE NumFramesAssumption, InitFrameCountAssumption, WaitersAssumption
<1>1. CASE SubmitOneFrame
  BY <1>1 DEF SubmitOneFrame, Goto, handlerVars, sendVars, IInv, TypeOK, Locations, Threads
<1>2. CASE EnqueueInitFrame
  BY <1>2 DEF EnqueueInitFrame, Goto, Enqueue, sendVars, IInv, TypeOK, Locations, Threads
<1>3. ASSUME NEW t \in Destroyers, Deactivate(t) PROVE Locations'
  BY <1>3 DEF Deactivate, Goto, AfterDestroy, Destroyers, sendVars, IInv, TypeOK, Locations, Threads
<1>4. ASSUME NEW t \in Destroyers, DestroyHandler(t) PROVE Locations'
  BY <1>4 DEF DestroyHandler, Goto, AfterDestroy, Destroyers, sendVars, IInv, TypeOK, Locations, Threads
<1>5. ASSUME NEW w \in Waiters, CallWait(w) PROVE Locations'
  BY <1>5 DEF CallWait, Goto, handlerVars, sendVars, IInv, TypeOK, Locations, Threads
<1>6. ASSUME NEW w \in Waiters, LockWait(w) PROVE Locations'
  BY <1>6 DEF LockWait, Goto, handlerVars, sendVars, IInv, TypeOK, Locations, Threads
<1>7. ASSUME NEW w \in Waiters, WaitReturns(w) PROVE Locations'
  BY <1>7 DEF WaitReturns, Goto, handlerVars, sendVars, IInv, TypeOK, Locations, Threads
<1>8. CASE Dequeue
  BY <1>8 DEF Dequeue, Goto, sendVars, IInv, TypeOK, Locations, Threads
<1>9. CASE Promote
  BY <1>9 DEF Promote, Goto, handlerVars, sendVars, IInv, TypeOK, Locations, Threads
<1>10. CASE ReleaseContext
  BY <1>10 DEF ReleaseContext, Goto, handlerVars, sendVars, IInv, TypeOK, Locations, Threads
<1>11. CASE Finish
  BY <1>11 DEF Finish, Goto, IInv, TypeOK, Locations, Threads
<1>12. CASE Check
  BY <1>12 DEF Check, Goto, handlerVars, sendVars, IInv, TypeOK, Locations, Threads
<1>13. ASSUME NEW t \in Senders, SendFrame(t) PROVE Locations'
  BY <1>13 DEF SendFrame, Goto, Senders, handlerVars, IInv, TypeOK, Locations, Threads
<1>14. ASSUME NEW t \in Senders, SendFrameReturn(t) PROVE Locations'
  BY <1>14 DEF SendFrameReturn, Goto, Senders, handlerVars, IInv, TypeOK, Locations, Threads
<1>15. CASE DropContext
  BY <1>15 DEF DropContext, Goto, handlerVars, sendVars, IInv, TypeOK, Locations, Threads
<1>16. CASE UNCHANGED vars
  BY <1>16 DEF vars, IInv, TypeOK, Locations, Threads
<1>. QED BY <1>1, <1>2, <1>3, <1>4, <1>5, <1>6, <1>7, <1>8, <1>9, <1>10, <1>11,
            <1>12, <1>13, <1>14, <1>15, <1>16
         DEF Next, SubmitStep, HandlerStep, DestroyStep, SendStep, WaitStep

\* mInitFrameHandlerLock is held exactly by the thread that waits under it.
LEMMA LockOwnerStep == IInv /\ [Next]_vars => LockOwner'
<1>. SUFFICES ASSUME IInv, [Next]_vars PROVE LockOwner'
  OBVIOUS
<1>. USE NumFramesAssumption, InitFrameCountAssumption, WaitersAssumption
<1>1. CASE SubmitOneFrame
  BY <1>1 DEF SubmitOneFrame, Goto, handlerVars, sendVars, IInv, TypeOK, Locations, LockOwner, Threads, Nobody
<1>2. CASE EnqueueInitFrame
  BY <1>2 DEF EnqueueInitFrame, Goto, Enqueue, sendVars, IInv, TypeOK, Locations, LockOwner, Threads, Nobody
<1>3. ASSUME NEW t \in Destroyers, Deactivate(t) PROVE LockOwner'
  BY <1>3 DEF Deactivate, Goto, AfterDestroy, Destroyers, sendVars, IInv, TypeOK, Locations, LockOwner, Threads, Nobody
<1>4. ASSUME NEW t \in Destroyers, DestroyHandler(t) PROVE LockOwner'
  BY <1>4 DEF DestroyHandler, Goto, AfterDestroy, Destroyers, sendVars, IInv, TypeOK, Locations, LockOwner, Threads, Nobody
<1>5. ASSUME NEW w \in Waiters, CallWait(w) PROVE LockOwner'
  BY <1>5 DEF CallWait, Goto, handlerVars, sendVars, IInv, TypeOK, Locations, LockOwner, Threads, Nobody
<1>6. ASSUME NEW w \in Waiters, LockWait(w) PROVE LockOwner'
  BY <1>6 DEF LockWait, Goto, handlerVars, sendVars, IInv, TypeOK, Locations, LockOwner, Threads, Nobody
<1>7. ASSUME NEW w \in Waiters, WaitReturns(w) PROVE LockOwner'
  BY <1>7 DEF WaitReturns, Goto, handlerVars, sendVars, IInv, TypeOK, Locations, LockOwner, Threads, Nobody
<1>8. CASE Dequeue
  BY <1>8 DEF Dequeue, Goto, sendVars, IInv, TypeOK, Locations, LockOwner, Threads, Nobody
<1>9. CASE Promote
  BY <1>9 DEF Promote, Goto, handlerVars, sendVars, IInv, TypeOK, Locations, LockOwner, Threads, Nobody
<1>10. CASE ReleaseContext
  BY <1>10 DEF ReleaseContext, Goto, handlerVars, sendVars, IInv, TypeOK, Locations, LockOwner, Threads, Nobody
<1>11. CASE Finish
  BY <1>11 DEF Finish, Goto, IInv, TypeOK, Locations, LockOwner, Threads, Nobody
<1>12. CASE Check
  BY <1>12 DEF Check, Goto, handlerVars, sendVars, IInv, TypeOK, Locations, LockOwner, Threads, Nobody
<1>13. ASSUME NEW t \in Senders, SendFrame(t) PROVE LockOwner'
  BY <1>13 DEF SendFrame, Goto, Senders, handlerVars, IInv, TypeOK, Locations, LockOwner, Threads, Nobody
<1>14. ASSUME NEW t \in Senders, SendFrameReturn(t) PROVE LockOwner'
  BY <1>14 DEF SendFrameReturn, Goto, Senders, handlerVars, IInv, TypeOK, Locations, LockOwner, Threads, Nobody
<1>15. CASE DropContext
  BY <1>15 DEF DropContext, Goto, handlerVars, sendVars, IInv, TypeOK, Locations, LockOwner, Threads, Nobody
<1>16. CASE UNCHANGED vars
  BY <1>16 DEF vars, IInv, TypeOK, Locations, LockOwner, Threads, Nobody
<1>. QED BY <1>1, <1>2, <1>3, <1>4, <1>5, <1>6, <1>7, <1>8, <1>9, <1>10, <1>11,
            <1>12, <1>13, <1>14, <1>15, <1>16
         DEF Next, SubmitStep, HandlerStep, DestroyStep, SendStep, WaitStep

\* The handler is only drained for good once, and is empty afterwards.
LEMMA HandlerStatusStep == IInv /\ [Next]_vars => HandlerStatus'
<1>. SUFFICES ASSUME IInv, [Next]_vars PROVE HandlerStatus'
  OBVIOUS
<1>. USE NumFramesAssumption, InitFrameCountAssumption, WaitersAssumption
<1>1. CASE SubmitOneFrame
  BY <1>1 DEF SubmitOneFrame, Goto, handlerVars, sendVars, IInv, TypeOK, Locations, LockOwner, HandlerStatus, Threads, Destroyers, Drained, NoFrame
<1>2. CASE EnqueueInitFrame
  BY <1>2 DEF EnqueueInitFrame, Goto, Enqueue, sendVars, IInv, TypeOK, Locations, LockOwner, HandlerStatus, Threads, Destroyers, Drained, NoFrame
<1>3. ASSUME NEW t \in Destroyers, Deactivate(t) PROVE HandlerStatus'
  BY <1>3 DEF Deactivate, Goto, AfterDestroy, Destroyers, sendVars, IInv, TypeOK, Locations, LockOwner, HandlerStatus, Threads, Drained, NoFrame
<1>4. ASSUME NEW t \in Destroyers, DestroyHandler(t) PROVE HandlerStatus'
  BY <1>4 DEF DestroyHandler, Goto, AfterDestroy, Destroyers, sendVars, IInv, TypeOK, Locations, LockOwner, HandlerStatus, Threads, Drained, NoFrame
<1>5. ASSUME NEW w \in Waiters, CallWait(w) PROVE HandlerStatus'
  BY <1>5 DEF CallWait, Goto, handlerVars, sendVars, IInv, TypeOK, Locations, LockOwner, HandlerStatus, Threads, Destroyers, Drained, NoFrame
<1>6. ASSUME NEW w \in Waiters, LockWait(w) PROVE HandlerStatus'
  BY <1>6 DEF LockWait, Goto, handlerVars, sendVars, IInv, TypeOK, Locations, LockOwner, HandlerStatus, Threads, Destroyers, Drained, NoFrame
<1>7. ASSUME NEW w \in Waiters, WaitReturns(w) PROVE HandlerStatus'
  BY <1>7 DEF WaitReturns, Goto, handlerVars, sendVars, IInv, TypeOK, Locations, LockOwner, HandlerStatus, Threads, Destroyers, Drained, NoFrame
<1>8. CASE Dequeue
  BY <1>8, HeadAndTail DEF Dequeue, Goto, sendVars, IInv, TypeOK, Locations, LockOwner, HandlerStatus, Threads, Destroyers, Drained, NoFrame, Frames
<1>9. CASE Promote
  BY <1>9 DEF Promote, Goto, handlerVars, sendVars, IInv, TypeOK, Locations, LockOwner, HandlerStatus, Threads, Destroyers, Drained, NoFrame
<1>10. CASE ReleaseContext
  BY <1>10 DEF ReleaseContext, Goto, handlerVars, sendVars, IInv, TypeOK, Locations, LockOwner, HandlerStatus, Threads, Destroyers, Drained, NoFrame
<1>11. CASE Finish
  BY <1>11 DEF Finish, Goto, IInv, TypeOK, Locations, LockOwner, HandlerStatus, Threads, Destroyers, Drained, NoFrame
<1>12. CASE Check
  BY <1>12 DEF Check, Goto, handlerVars, sendVars, IInv, TypeOK, Locations, LockOwner, HandlerStatus, Threads, Destroyers, Drained, NoFrame
<1>13. ASSUME NEW t \in Senders, SendFrame(t) PROVE HandlerStatus'
  BY <1>13 DEF SendFrame, Goto, Senders, handlerVars, IInv, TypeOK, Locations, LockOwner, HandlerStatus, Threads, Destroyers, Drained, NoFrame
<1>14. ASSUME NEW t \in Senders, SendFrameReturn(t) PROVE HandlerStatus'
  BY <1>14 DEF SendFrameReturn, Goto, Senders, handlerVars, IInv, TypeOK, Locations, LockOwner, HandlerStatus, Threads, Destroyers, Drained, NoFrame
<1>15. CASE DropContext
  BY <1>15 DEF DropContext, Goto, handlerVars, sendVars, IInv, TypeOK, Locations, LockOwner, HandlerStatus, Threads, Destroyers, Drained, NoFrame
<1>16. CASE UNCHANGED vars
  BY <1>16 DEF vars, IInv, TypeOK, Locations, LockOwner, HandlerStatus, Threads, Destroyers, Drained, NoFrame
<1>. QED BY <1>1, <1>2, <1>3, <1>4, <1>5, <1>6, <1>7, <1>8, <1>9, <1>10, <1>11,
            <1>12, <1>13, <1>14, <1>15, <1>16
         DEF Next, SubmitStep, HandlerStep, DestroyStep, SendStep, WaitStep

\* Frames keep their order on their way to sendFrame().
LEMMA HandOverStep == IInv /\ [Next]_vars => HandOver' /\ SentInOrder'
<1>. SUFFICES ASSUME IInv, [Next]_vars PROVE HandOver' /\ SentInOrder'
  OBVIOUS
<1>. USE NumFramesAssumption, InitFrameCountAssumption, WaitersAssumption
<1>1. CASE SubmitOneFrame
  <2>1. pc'["submit"] \in {"enqueue", "lock", "send"} /\ pc'["handler"] = pc["handler"]
    BY <1>1 DEF SubmitOneFrame, Goto, IInv, TypeOK, Threads
  <2>2. Submitting = 0 /\ Submitting' = 1 /\ Holding' = Holding
    BY <1>1, <2>1 DEF SubmitOneFrame, Submitting, Holding
  <2>3. Holding \in {0, 1}
    BY DEF Holding
  <2>. QED BY <1>1, <2>2, <2>3 DEF SubmitOneFrame, handlerVars, sendVars, IInv, TypeOK, HandOver, SentInOrder
<1>2. CASE EnqueueInitFrame
  <2>1. Holding' = Holding /\ Holding \in {0, 1} /\ Submitting = 1
    BY <1>2 DEF EnqueueInitFrame, Goto, Holding, Submitting, IInv, TypeOK, Threads
  <2>2. CASE mInitFrameHandler
    <3>1. mActive
      BY <1>2, <2>2 DEF EnqueueInitFrame, IInv, HandlerStatus, LockOwner, Locations, Destroyers, Threads, Nobody
    <3>2. mPendingQueue' = Append(mPendingQueue, mFrameCountQueued) /\ pc'["submit"] = "idle"
      BY <1>2, <2>2, <3>1 DEF EnqueueInitFrame, Enqueue, Goto, IInv, TypeOK, Threads
    <3>3. Submitting' = 0
      BY <3>2 DEF Submitting
    <3>4. mFrameCountQueued \in Frames
      BY <1>2, InHandIsFrame DEF EnqueueInitFrame
    <3>5. /\ Len(mPendingQueue') = Len(mPendingQueue) + 1
          /\ \A i \in 1 .. Len(mPendingQueue) : mPendingQueue'[i] = mPendingQueue[i]
          /\ mPendingQueue'[Len(mPendingQueue) + 1] = mFrameCountQueued
      BY <3>2, <3>4 DEF IInv, TypeOK
    <3>6. Len(mPendingQueue) \in Nat /\ Len(started) \in Nat
      BY DEF IInv, TypeOK
    <3>7. /\ UNCHANGED <<started, mSendingFrame, mFrameCountQueued>>
          /\ mFrameCountQueued = Len(started) + Holding + Len(mPendingQueue) + 1
      BY <1>2, <2>1 DEF EnqueueInitFrame, sendVars, IInv, HandOver
    <3>8. SentInOrder'
      BY <3>7 DEF IInv, SentInOrder
    <3>9. \A i \in 1 .. Len(mPendingQueue') :
             mPendingQueue'[i] = Len(started) + Holding + i
      <4>. TAKE i \in 1 .. Len(mPendingQueue')
      <4>1. CASE i \in 1 .. Len(mPendingQueue)
        BY <3>5, <4>1 DEF IInv, HandOver
      <4>2. CASE i = Len(mPendingQueue) + 1
        BY <2>1, <3>5, <3>6, <3>7, <4>2
      <4>. QED BY <3>5, <3>6, <4>1, <4>2
    <3>. QED BY <2>1, <3>2, <3>3, <3>5, <3>6, <3>7, <3>8, <3>9 DEF IInv, HandOver
  <2>3. CASE ~mInitFrameHandler
    <3>1. mPendingQueue' = mPendingQueue /\ pc'["submit"] = "lock"
      BY <1>2, <2>3 DEF EnqueueInitFrame, Goto, IInv, TypeOK, Threads
    <3>2. Submitting' = 1
      BY <3>1 DEF Submitting
    <3>. QED BY <1>2, <2>1, <3>1, <3>2 DEF EnqueueInitFrame, sendVars, IInv, TypeOK, HandOver, SentInOrder
  <2>. QED BY <2>2, <2>3
<1>3. ASSUME NEW t \in Destroyers, Deactivate(t) PROVE HandOver' /\ SentInOrder'
  <2>1. Holding' = Holding /\ Submitting' = Submitting
    BY <1>3 DEF Deactivate, AfterDestroy, Destroyers, Goto, Holding, Submitting, IInv, TypeOK, Locations, HandlerStatus, Drained, NoFrame, Threads
  <2>2. pc'["submit"] # "idle" => pc["submit"] # "idle"
    BY <1>3 DEF Deactivate, AfterDestroy, Destroyers, Goto, IInv, TypeOK, Threads
  <2>. QED BY <1>3, <2>1, <2>2 DEF Deactivate, sendVars, IInv, TypeOK, HandOver, SentInOrder
<1>4. ASSUME NEW t \in Destroyers, DestroyHandler(t) PROVE HandOver' /\ SentInOrder'
  BY <1>4 DEF DestroyHandler, Goto, AfterDestroy, Destroyers, sendVars, IInv, TypeOK, Locations, LockOwner, HandlerStatus, HandOver, SentInOrder, Holding, Submitting, Threads, Frames, Drained, NoFrame, InHand
<1>5. ASSUME NEW w \in Waiters, CallWait(w) PROVE HandOver' /\ SentInOrder'
  BY <1>5 DEF CallWait, Goto, handlerVars, sendVars, IInv, TypeOK, Locations, LockOwner, HandlerStatus, HandOver, SentInOrder, Holding, Submitting, Threads, Frames, Drained, NoFrame, InHand
<1>6. ASSUME NEW w \in Waiters, LockWait(w) PROVE HandOver' /\ SentInOrder'
  BY <1>6 DEF LockWait, Goto, handlerVars, sendVars, IInv, TypeOK, Locations, LockOwner, HandlerStatus, HandOver, SentInOrder, Holding, Submitting, Threads, Frames, Drained, NoFrame, InHand
<1>7. ASSUME NEW w \in Waiters, WaitReturns(w) PROVE HandOver' /\ SentInOrder'
  BY <1>7 DEF WaitReturns, Goto, handlerVars, sendVars, IInv, TypeOK, Locations, LockOwner, HandlerStatus, HandOver, SentInOrder, Holding, Submitting, Threads, Frames, Drained, NoFrame, InHand
<1>8. CASE Dequeue
  <2>1. CASE mPendingQueue = <<>>
    <3>1. Holding' = Holding /\ Submitting' = Submitting /\ pc'["submit"] = pc["submit"]
      BY <1>8, <2>1 DEF Dequeue, Goto, Holding, Submitting, IInv, TypeOK, Threads
    <3>. QED BY <1>8, <2>1, <3>1 DEF Dequeue, sendVars, IInv, TypeOK, HandOver, SentInOrder
  <2>2. CASE mPendingQueue # <<>>
    <3>1. /\ Holding = 0 /\ Holding' = 1
          /\ Submitting' = Submitting /\ pc'["submit"] = pc["submit"]
      BY <1>8, <2>2 DEF Dequeue, Goto, Holding, Submitting, IInv, TypeOK, Threads
    <3>2. Submitting \in {0, 1}
      BY DEF Submitting
    <3>3. Len(mPendingQueue) \in Nat \ {0}
      BY <2>2 DEF IInv, TypeOK
    <3>4. /\ mSendingFrame' = mPendingQueue[1]
          /\ Len(mPendingQueue') = Len(mPendingQueue) - 1
          /\ \A i \in 1 .. Len(mPendingQueue') : mPendingQueue'[i] = mPendingQueue[i + 1]
      BY <1>8, <2>2, HeadAndTail DEF Dequeue, IInv, TypeOK
    <3>5. UNCHANGED <<started, mFrameCountQueued>> /\ Len(started) \in Nat
      BY <1>8 DEF Dequeue, sendVars, IInv, TypeOK
    <3>6. SentInOrder'
      BY <3>5 DEF IInv, SentInOrder
    <3>7. \A i \in 1 .. Len(mPendingQueue') :
             mPendingQueue'[i] = Len(started) + 1 + i
      BY <3>1, <3>3, <3>4, <3>5 DEF IInv, HandOver
    <3>8. mPendingQueue[1] = Len(started) + 1
      BY <3>1, <3>3, <3>5 DEF IInv, HandOver
    <3>. QED BY <3>1, <3>2, <3>3, <3>4, <3>5, <3>6, <3>7, <3>8 DEF IInv, HandOver
  <2>. QED BY <2>1, <2>2
<1>9. CASE Promote
  BY <1>9 DEF Promote, Goto, handlerVars, sendVars, IInv, TypeOK, Locations, LockOwner, HandlerStatus, HandOver, SentInOrder, Holding, Submitting, Threads, Frames, Drained, NoFrame, InHand
<1>10. CASE ReleaseContext
  BY <1>10 DEF ReleaseContext, Goto, handlerVars, sendVars, IInv, TypeOK, Locations, LockOwner, HandlerStatus, HandOver, SentInOrder, Holding, Submitting, Threads, Frames, Drained, NoFrame, InHand
<1>11. CASE Finish
  BY <1>11 DEF Finish, Goto, sendVars, IInv, TypeOK, Locations, LockOwner, HandlerStatus, HandOver, SentInOrder, Holding, Submitting, Threads, Frames, Drained, NoFrame, InHand
<1>12. CASE Check
  BY <1>12 DEF Check, Goto, handlerVars, sendVars, IInv, TypeOK, Locations, LockOwner, HandlerStatus, HandOver, SentInOrder, Holding, Submitting, Threads, Frames, Drained, NoFrame, InHand
<1>13. ASSUME NEW t \in Senders, SendFrame(t) PROVE HandOver' /\ SentInOrder'
  <2>1. CASE t = "submit"
    <3>1. Drained /\ Holding = 0 /\ Submitting = 1
      BY <1>13, <2>1 DEF SendFrame, IInv, HandlerStatus, Drained, Holding, Submitting
    <3>2. Holding' = 0 /\ Submitting' = 0 /\ started' = Append(started, mFrameCountQueued)
      BY <1>13, <2>1, <3>1 DEF SendFrame, Goto, InHand, Holding, Submitting, IInv, TypeOK, Threads
    <3>. QED BY <1>13, <2>1, <3>1, <3>2
             DEF SendFrame, handlerVars, Drained, IInv, TypeOK, HandOver, SentInOrder
  <2>2. CASE t = "handler"
    <3>1. Holding = 1 /\ Submitting \in {0, 1} /\ mSendingFrame # NoFrame
      BY <1>13, <2>2 DEF SendFrame, Holding, Submitting, IInv, HandlerStatus
    <3>2. /\ Holding' = 0 /\ Submitting' = Submitting /\ pc'["submit"] = pc["submit"]
          /\ started' = Append(started, mSendingFrame)
      BY <1>13, <2>2, <3>1 DEF SendFrame, Goto, InHand, Holding, Submitting, IInv, TypeOK, Threads
    <3>3. mSendingFrame = Len(started) + 1
      BY <3>1 DEF IInv, HandOver
    <3>. QED BY <1>13, <2>2, <3>1, <3>2, <3>3
             DEF SendFrame, handlerVars, IInv, TypeOK, HandOver, SentInOrder
  <2>. QED BY <2>1, <2>2 DEF Senders
<1>14. ASSUME NEW t \in Senders, SendFrameReturn(t) PROVE HandOver' /\ SentInOrder'
  BY <1>14 DEF SendFrameReturn, Goto, Senders, handlerVars, IInv, TypeOK, Locations, LockOwner, HandlerStatus, HandOver, SentInOrder, Holding, Submitting, Threads, Frames, Drained, NoFrame, InHand
<1>15. CASE DropContext
  BY <1>15 DEF DropContext, Goto, handlerVars, sendVars, IInv, TypeOK, Locations, LockOwner, HandlerStatus, HandOver, SentInOrder, Holding, Submitting, Threads, Frames, Drained, NoFrame, InHand
<1>16. CASE UNCHANGED vars
  BY <1>16 DEF vars, IInv, TypeOK, Locations, LockOwner, HandlerStatus, HandOver, SentInOrder, Holding, Submitting, Threads, Frames, Drained, NoFrame, InHand
<1>. QED BY <1>1, <1>2, <1>3, <1>4, <1>5, <1>6, <1>7, <1>8, <1>9, <1>10, <1>11,
            <1>12, <1>13, <1>14, <1>15, <1>16
         DEF Next, SubmitStep, HandlerStep, DestroyStep, SendStep, WaitStep

\* sendFrame() calls do not overlap: one begins only after the last returned.
LEMMA OneAtATimeStep == IInv /\ [Next]_vars => OneAtATime'
<1>. SUFFICES ASSUME IInv, [Next]_vars PROVE OneAtATime'
  OBVIOUS
<1>1. CASE SubmitStep
  BY <1>1 DEF SubmitStep, SubmitOneFrame, EnqueueInitFrame, Goto, handlerVars, sendVars,
              IInv, TypeOK, OneAtATime, Sending, Threads
<1>2. CASE HandlerStep
  BY <1>2 DEF HandlerStep, Dequeue, Promote, ReleaseContext, Finish, Check, Goto,
              handlerVars, sendVars, IInv, TypeOK, OneAtATime, Sending, Threads
<1>3. ASSUME NEW t \in Destroyers, DestroyStep(t) PROVE OneAtATime'
  BY <1>3 DEF DestroyStep, Deactivate, DestroyHandler, AfterDestroy, Destroyers, Goto,
              sendVars, IInv, TypeOK, OneAtATime, Sending, Threads
<1>4. ASSUME NEW w \in Waiters, CallWait(w) \/ WaitStep(w) PROVE OneAtATime'
  BY <1>4, WaitersAssumption
     DEF CallWait, WaitStep, LockWait, WaitReturns, Goto, handlerVars, sendVars,
         IInv, TypeOK, OneAtATime, Sending, Threads
<1>5. ASSUME NEW t \in Senders, SendStep(t) PROVE OneAtATime'
  <2>1. IInv => ~(pc["submit"] \in {"send", "sending"} /\ pc["handler"] \in {"send", "sending"})
    BY DEF IInv, HandlerStatus, Drained
  <2>2. CASE SendFrame(t)
    <3>1. Sending = 0 /\ Sending' = 1
      BY <1>5, <2>1, <2>2 DEF SendFrame, Senders, Goto, Sending, IInv, TypeOK, Threads
    <3>2. Len(started') = Len(started) + 1
      BY <2>2 DEF SendFrame, IInv, TypeOK
    <3>3. Len(finished) \in Nat /\ Len(started) \in Nat
      BY DEF IInv, TypeOK
    <3>. QED BY <2>2, <3>1, <3>2, <3>3 DEF SendFrame, IInv, OneAtATime
  <2>3. CASE SendFrameReturn(t)
    <3>1. Sending = 1 /\ Sending' = 0
      BY <1>5, <2>1, <2>3 DEF SendFrameReturn, Senders, Goto, Sending, IInv, TypeOK, Threads
    <3>2. Len(finished') = Len(finished) + 1
      BY <2>3 DEF SendFrameReturn, IInv, TypeOK
    <3>3. Len(finished) \in Nat /\ Len(started) \in Nat
      BY DEF IInv, TypeOK
    <3>. QED BY <2>3, <3>1, <3>2, <3>3 DEF SendFrameReturn, IInv, OneAtATime
  <2>. QED BY <1>5, <2>2, <2>3 DEF SendStep
<1>6. CASE DropContext
  BY <1>6 DEF DropContext, Goto, handlerVars, sendVars, IInv, TypeOK, OneAtATime, Sending, Threads
<1>7. CASE UNCHANGED vars
  BY <1>7 DEF vars, IInv, OneAtATime, Sending
<1>. QED BY <1>1, <1>2, <1>3, <1>4, <1>5, <1>6, <1>7 DEF Next

\* The inductive invariant holds in every reachable state.
THEOREM Invariance == Spec => []IInv
<1>1. IInv /\ [Next]_vars => IInv'
  BY TypeStep, LocationsStep, LockOwnerStep, HandlerStatusStep, HandOverStep, OneAtATimeStep DEF IInv
<1>. QED BY InitEstablishes, <1>1, PTL DEF Spec

\* Frames reach sendFrame() in the order in which they were submitted.
THEOREM SendOrder == Spec => []SentInOrder
<1>1. IInv => SentInOrder
  BY DEF IInv
<1>. QED BY Invariance, <1>1, PTL

\* The handler thread and the submitter never send at the same time: the
\* submitter only sends once there is no handler, and then nothing is in the
\* handler's hands.
THEOREM SoleSender == Spec => []OneSender
<1>1. IInv => OneSender
  BY DEF IInv, HandlerStatus, Drained, OneSender
<1>. QED BY Invariance, <1>1, PTL

\* InitFrames implements the abstract FIFO: a submission, the beginning and the
\* end of a sendFrame() are its three actions, everything else is invisible.
THEOREM Refinement == Spec => ImplementsFrameOrder
<1>1. Init => Order!Init
  BY DEF Init, Order!Init
<1>2. IInv /\ [Next]_vars => [Order!Next]_(Order!vars)
  <2>. SUFFICES ASSUME IInv, [Next]_vars PROVE [Order!Next]_(Order!vars)
    OBVIOUS
  <2>. USE DEF Order!vars
  <2>1. CASE SubmitOneFrame
    BY <2>1 DEF SubmitOneFrame, sendVars, IInv, TypeOK, Order!Next, Order!Submit
  <2>2. CASE EnqueueInitFrame \/ HandlerStep \/ DropContext \/ UNCHANGED vars
    BY <2>2 DEF EnqueueInitFrame, HandlerStep, Dequeue, Promote, ReleaseContext, Finish,
                Check, DropContext, sendVars, vars
  <2>3. ASSUME NEW t \in Destroyers, DestroyStep(t) PROVE [Order!Next]_(Order!vars)
    BY <2>3 DEF DestroyStep, Deactivate, DestroyHandler, sendVars
  <2>4. ASSUME NEW w \in Waiters, CallWait(w) \/ WaitStep(w) PROVE [Order!Next]_(Order!vars)
    BY <2>4 DEF CallWait, WaitStep, LockWait, WaitReturns, sendVars
  <2>5. ASSUME NEW t \in Senders, SendStep(t) PROVE [Order!Next]_(Order!vars)
    <3>. USE DEF IInv
    <3>1. Len(started) \in Nat /\ Len(finished) \in Nat /\ Len(mPendingQueue) \in Nat
      BY DEF TypeOK
    <3>2. CASE SendFrame(t)
      <4>1. Sending = 0
        BY <2>5, <3>2 DEF SendFrame, Senders, Sending, HandlerStatus, Drained
      <4>2. Holding + Submitting >= 1 /\ Holding \in {0, 1} /\ Submitting \in {0, 1}
        BY <2>5, <3>2 DEF SendFrame, Senders, Holding, Submitting
      <4>3. Len(started) < mFrameCountQueued
        BY <3>1, <4>2 DEF HandOver
      <4>4. Len(started') = Len(started) + 1
        BY <3>2 DEF SendFrame, TypeOK
      <4>. QED BY <3>1, <3>2, <4>1, <4>3, <4>4
               DEF SendFrame, OneAtATime, Order!Next, Order!Begin
    <3>3. CASE SendFrameReturn(t)
      <4>1. Sending = 1
        BY <2>5, <3>3 DEF SendFrameReturn, Senders, Sending
      <4>2. Len(finished') = Len(finished) + 1
        BY <3>3 DEF SendFrameReturn, TypeOK
      <4>. QED BY <3>1, <3>3, <4>1, <4>2
               DEF SendFrameReturn, OneAtATime, Order!Next, Order!End
    <3>. QED BY <2>5, <3>2, <3>3 DEF SendStep
  <2>. QED BY <2>1, <2>2, <2>3, <2>4, <2>5 DEF Next, SubmitStep
<1>. QED BY Invariance, <1>1, <1>2, PTL DEF Spec, ImplementsFrameOrder, Order!Spec

LEMMA InSequence ==
  ASSUME NEW s \in Seq(Frames), NEW i \in 1 .. Len(s)
  PROVE  s[i] \in RangeOf(s)
BY DEF RangeOf

\* Every submitted frame has begun to be sent or is held by somebody: the frames
\* are counted, and each place holds the ones that come next.
THEOREM NothingLost == Spec => []NoFrameLost
<1>1. ASSUME IInv, NEW f \in 1 .. mFrameCountQueued
      PROVE  \/ f \in RangeOf(started)
             \/ f \in RangeOf(mPendingQueue)
             \/ f = mSendingFrame
             \/ /\ f = mFrameCountQueued
                /\ pc["submit"] \in {"enqueue", "lock", "draining", "send"}
  <2>. USE <1>1 DEF IInv
  <2>1. /\ started \in Seq(Frames) /\ mPendingQueue \in Seq(Frames)
        /\ Len(started) \in Nat /\ Len(mPendingQueue) \in Nat
        /\ Holding \in {0, 1} /\ Submitting \in {0, 1}
    BY DEF TypeOK, Holding, Submitting
  <2>2. Len(started) + Holding + Len(mPendingQueue) + Submitting = mFrameCountQueued
    BY DEF HandOver
  <2>3. CASE f \in 1 .. Len(started)
    BY <2>1, <2>3, InSequence DEF SentInOrder
  <2>4. CASE f = Len(started) + 1 /\ Holding = 1
    BY <2>4 DEF HandOver, HandlerStatus, Holding
  <2>5. CASE f - Len(started) - Holding \in 1 .. Len(mPendingQueue)
    <3>1. mPendingQueue[f - Len(started) - Holding] = f
      BY <2>1, <2>5 DEF HandOver
    <3>. QED BY <2>1, <2>5, <3>1, InSequence
  <2>6. CASE f = mFrameCountQueued /\ Submitting = 1
    BY <2>6 DEF Submitting
  <2>. QED BY <2>1, <2>2, <2>3, <2>4, <2>5, <2>6
<1>2. IInv => NoFrameLost
  BY <1>1 DEF NoFrameLost
<1>. QED BY Invariance, <1>2, PTL
=============================================================================
