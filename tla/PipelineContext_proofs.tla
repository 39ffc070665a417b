----------------------- MODULE PipelineContext_proofs -----------------------
(***************************************************************************)
(* Proofs about module PipelineContext, for every graph, every number of   *)
(* frames and flushes and every assignment of request numbers.             *)
(***************************************************************************)
EXTENDS PipelineContext, TLAPS

-----------------------------------------------------------------------------
(* Types *)

LEMMA InitTypes == Init => TypeOK
<1> SUFFICES ASSUME Init PROVE TypeOK
  OBVIOUS
<1>1. mIsFlushing \in BOOLEAN /\ mInFlush \in BOOLEAN
  BY Zenon DEF Init
<1>2. /\ st \in [Frames -> [Nodes -> Standing]]
      /\ handed \in [Frames -> [Nodes -> Handing]]
      /\ left \in [Frames -> [Nodes -> SUBSET Nodes]]
      /\ visit \in [Frames -> [Nodes -> Nodes \cup {NoNode}]]
      /\ mInAdjReqCnt \in [Frames -> [Nodes -> Nat]]
      /\ mRequestMap \in [Nodes -> SUBSET Frames]
  BY DEF Init, EveryFrameAndNode, Standing, Handing
<1>3. NoRequest \in 0 .. RequestWidth - 1
  BY RequestWidthAssumption DEF NoRequest
<1> QED
  BY <1>1, <1>2, <1>3, NumFramesAssumption, MaxFlushesAssumption
  DEF Init, TypeOK, SenderAt, FlusherAt, NotSent

\* The number a frame carries is one that fits.
LEMMA NumberFits ==
  ASSUME NEW f \in Frames
  PROVE  Number(f) \in 0 .. RequestWidth - 1
  BY RequestNoAssumption, RequestWidthAssumption DEF Number

LEMMA SenderTypes ==
  ASSUME TypeOK, Sender
  PROVE  TypeOK'
<1> USE NumFramesAssumption, RequestWidthAssumption, NoNodeAssumption
<1> USE DEF TypeOK, SenderAt, Handing, Standing, Frames, NotSent,
            FRAME_SENDING, FRAME_FLUSHING
<1>1. CASE SendFrameBegin
  <2>1. frame + 1 \in Frames
    BY <1>1 DEF SendFrameBegin
  <2>2. Number(frame + 1) \in 0 .. RequestWidth - 1
    BY <2>1, NumberFits
  <2> QED
    BY <1>1, <2>1, <2>2 DEF SendFrameBegin, flushVars, listVars, nodeVars
<1>2. CASE RegisterRequest
  BY <1>2 DEF RegisterRequest, numVars, flushVars, nodeVars
<1>3. CASE KickBarrier
  BY <1>3 DEF KickBarrier, numVars, flushVars, listVars, nodeVars
<1>4. CASE AcquireKickLock
  BY <1>4 DEF AcquireKickLock, numVars, flushVars, listVars, nodeVars
<1>5. CASE BeginPass
  BY <1>5 DEF BeginPass, numVars, flushVars, listVars, nodeVars
<1>6. CASE EndPass
  BY <1>6 DEF EndPass, numVars, flushVars, listVars, nodeVars
<1>7. ASSUME NEW r \in Roots, FlushRoot(r) PROVE TypeOK'
  BY <1>7 DEF FlushRoot, AtRoot, Hand, numVars, flushVars, listVars, Roots
<1>8. ASSUME NEW r \in Roots, FlushRootReturns(r) PROVE TypeOK'
  BY <1>8 DEF FlushRootReturns, Accepted, numVars, flushVars, listVars, nodeVars
<1>9. ASSUME NEW r \in Roots, QueueRoot(r) PROVE TypeOK'
  BY <1>9 DEF QueueRoot, AtRoot, Hand, Accepted, numVars, flushVars, listVars, Roots
<1>10. ASSUME NEW r \in Roots, RootBusy(r) PROVE TypeOK'
  BY <1>10 DEF RootBusy, AtRoot, numVars, flushVars, listVars, nodeVars
<1>11. ASSUME NEW r \in Roots, RootError(r) PROVE TypeOK'
  BY <1>11 DEF RootError, AtRoot, numVars, flushVars, listVars, nodeVars
<1> QED
  BY <1>1, <1>2, <1>3, <1>4, <1>5, <1>6, <1>7, <1>8, <1>9, <1>10, <1>11
  DEF Sender

\* What one round of onDispatchFrame()'s loop does for the next node.
LEMMA DispatchOutcome ==
  ASSUME NEW f \in Frames, NEW n \in Nodes, NEW m \in Nodes, DispatchTo(f, n, m)
  PROVE  \/ UNCHANGED <<st, handed, visit>>
         \/ /\ visit' = [visit EXCEPT ![f][n] = m]
            /\ Flushed(f)
            /\ Hand(f, m, "flush")
         \/ /\ visit' = [visit EXCEPT ![f][n] = m]
            /\ ~Flushed(f)
            /\ st' = [st EXCEPT ![f][m] = "toQueue"]
            /\ UNCHANGED handed
  BY Zenon DEF DispatchTo

LEMMA FrameTypes ==
  ASSUME TypeOK, NEW f \in Frames, FrameStep(f)
  PROVE  TypeOK'
<1> USE DEF TypeOK, Handing, Standing
<1>1. CASE ReleaseFrame(f)
  BY <1>1 DEF ReleaseFrame, sendVars, numVars, flushVars, nodeVars
<1>2. ASSUME NEW n \in Nodes, NodeReturns(f, n) PROVE TypeOK'
  BY <1>2 DEF NodeReturns, ApplyRelease, sendVars, numVars, flushVars, Out
<1>3. ASSUME NEW n \in Nodes, DispatchReturns(f, n) PROVE TypeOK'
  BY <1>3 DEF DispatchReturns, sendVars, numVars, flushVars, listVars
<1>4. ASSUME NEW n \in Nodes, NEW m \in Nodes, DispatchTo(f, n, m) PROVE TypeOK'
  <2>1. /\ left' \in [Frames -> [Nodes -> SUBSET Nodes]]
        /\ mInAdjReqCnt' \in [Frames -> [Nodes -> Nat]]
    BY <1>4 DEF DispatchTo
  <2>2. /\ st' \in [Frames -> [Nodes -> Standing]]
        /\ handed' \in [Frames -> [Nodes -> Handing]]
        /\ visit' \in [Frames -> [Nodes -> Nodes \cup {NoNode}]]
    <3>1. \/ UNCHANGED <<st, handed, visit>>
          \/ /\ visit' = [visit EXCEPT ![f][n] = m]
             /\ \/ Hand(f, m, "flush")
                \/ /\ st' = [st EXCEPT ![f][m] = "toQueue"]
                   /\ UNCHANGED handed
      BY <1>4, DispatchOutcome
    <3>2. CASE UNCHANGED <<st, handed, visit>>
      BY <3>2
    <3>3. CASE visit' = [visit EXCEPT ![f][n] = m] /\ Hand(f, m, "flush")
      BY <3>3 DEF Hand
    <3>4. CASE /\ visit' = [visit EXCEPT ![f][n] = m]
               /\ st' = [st EXCEPT ![f][m] = "toQueue"]
               /\ UNCHANGED handed
      BY <3>4
    <3> QED BY <3>1, <3>2, <3>3, <3>4
  <2> QED
    BY <1>4, <2>1, <2>2 DEF DispatchTo, sendVars, numVars, flushVars, listVars
<1>5. ASSUME NEW n \in Nodes, NEW m \in Nodes, QueueNext(f, n, m) PROVE TypeOK'
  BY <1>5 DEF QueueNext, Hand, Visited, sendVars, numVars, flushVars, listVars
<1>6. ASSUME NEW n \in Nodes, NEW m \in Nodes, NextRejects(f, n, m) PROVE TypeOK'
  BY <1>6 DEF NextRejects, Visited, sendVars, numVars, flushVars, listVars
<1>7. ASSUME NEW n \in Nodes, NEW m \in Nodes, FlushNextReturns(f, n, m) PROVE TypeOK'
  BY <1>7 DEF FlushNextReturns, Visited, sendVars, numVars, flushVars, listVars
<1> QED
  BY <1>1, <1>2, <1>3, <1>4, <1>5, <1>6, <1>7 DEF FrameStep

LEMMA FlusherTypes ==
  ASSUME TypeOK, SetFlushing \/ FlushInProgress
  PROVE  TypeOK'
<1> USE NumFramesAssumption, MaxFlushesAssumption
<1> USE DEF TypeOK, FlusherAt, sendVars, numVars, listVars, nodeVars
<1>1. CASE SetFlushing BY <1>1 DEF SetFlushing
<1>2. CASE DispatcherBeginFlush BY <1>2 DEF DispatcherBeginFlush
<1>3. CASE Abort BY <1>3 DEF Abort
<1>4. CASE LockKick BY <1>4 DEF LockKick
<1>5. CASE UnlockKick BY <1>5 DEF UnlockKick
<1>6. ASSUME NEW n \in Nodes, FlushNode(n) PROVE TypeOK' BY <1>6 DEF FlushNode
<1>7. CASE Drained BY <1>7 DEF Drained
<1>8. CASE DispatcherEndFlush BY <1>8 DEF DispatcherEndFlush
<1>9. CASE EndFlush BY <1>9 DEF EndFlush
<1> QED
  BY <1>1, <1>2, <1>3, <1>4, <1>5, <1>6, <1>7, <1>8, <1>9 DEF FlushInProgress

LEMMA TypeStep ==
  ASSUME TypeOK, [Next]_vars
  PROVE  TypeOK'
<1>1. CASE Next
  BY <1>1, SenderTypes, FrameTypes, FlusherTypes DEF Next
<1>2. CASE UNCHANGED vars
  BY <1>2 DEF TypeOK, vars, sendVars, numVars, flushVars, listVars, nodeVars
<1> QED BY <1>1, <1>2

-----------------------------------------------------------------------------
(* What the steps of each actor leave alone *)

LEMMA SenderFrame ==
  ASSUME Sender
  PROVE  UNCHANGED flushVars
BY DEF Sender, SendFrameBegin, RegisterRequest, KickBarrier, AcquireKickLock,
       BeginPass, EndPass, FlushRoot, FlushRootReturns, QueueRoot, RootBusy,
       RootError

LEMMA NodeFrame ==
  ASSUME NEW f \in Frames, FrameStep(f)
  PROVE  UNCHANGED <<flushVars, sendVars, numVars, aborted>>
BY DEF FrameStep, ReleaseFrame, NodeReturns, DispatchReturns, DispatchTo,
       QueueNext, NextRejects, FlushNextReturns

LEMMA FlusherFrame ==
  ASSUME SetFlushing \/ FlushInProgress
  PROVE  UNCHANGED <<sendVars, numVars, listVars, nodeVars, failed>>
BY DEF SetFlushing, FlushInProgress, DispatcherBeginFlush, Abort, LockKick,
       UnlockKick, FlushNode, Drained, DispatcherEndFlush, EndFlush

\* Every step is one of these.
LEMMA Steps ==
  ASSUME [Next]_vars
  PROVE  \/ Sender
         \/ \E f \in Frames : FrameStep(f)
         \/ SetFlushing \/ FlushInProgress
         \/ UNCHANGED vars
BY DEF Next

-----------------------------------------------------------------------------
(* The conjuncts of FlushInv, one at a time *)

LEMMA FlagsStep ==
  ASSUME FlushInv, [Next]_vars
  PROVE  FlagsFollowFlusher'
<1> USE DEF FlushInv, FlagsFollowFlusher, flushVars
<1>1. CASE Sender
  BY <1>1, SenderFrame
<1>2. ASSUME NEW f \in Frames, FrameStep(f) PROVE FlagsFollowFlusher'
  BY <1>2, NodeFrame
<1>3. CASE SetFlushing
  BY <1>3 DEF SetFlushing
<1>4. CASE DispatcherBeginFlush
  BY <1>4 DEF DispatcherBeginFlush
<1>5. CASE Abort \/ LockKick \/ UnlockKick \/ Drained
  BY <1>5 DEF Abort, LockKick, UnlockKick, Drained
<1>6. ASSUME NEW n \in Nodes, FlushNode(n) PROVE FlagsFollowFlusher'
  BY <1>6 DEF FlushNode
<1>7. CASE DispatcherEndFlush
  BY <1>7 DEF DispatcherEndFlush
<1>8. CASE EndFlush
  BY <1>8 DEF EndFlush
<1>9. CASE UNCHANGED vars
  BY <1>9 DEF vars
<1> QED
  BY Steps, <1>1, <1>2, <1>3, <1>4, <1>5, <1>6, <1>7, <1>8, <1>9
  DEF FlushInProgress

\* mKickLock is what makes the flusher wait for a frame between two roots; from
\* then on the sender sees mIsFlushing before it gives the frame to a root.
LEMMA BetweenRootsStep ==
  ASSUME FlushInv, [Next]_vars
  PROVE  NoFrameBetweenRoots'
<1> USE DEF FlushInv, NoFrameBetweenRoots, HalfSent
<1>1. CASE Sender
  <2> USE SenderFrame, <1>1 DEF flushVars
  <2>1. CASE SendFrameBegin
    BY <2>1 DEF SendFrameBegin
  <2>2. CASE RegisterRequest \/ KickBarrier
    BY <2>2 DEF RegisterRequest, KickBarrier
  <2>3. CASE AcquireKickLock
    BY <2>3 DEF AcquireKickLock, NotSent, FRAME_SENDING
  <2>4. CASE BeginPass \/ EndPass
    BY <2>4 DEF BeginPass, EndPass
  <2>5. ASSUME NEW r \in Roots, FlushRoot(r) \/ RootBusy(r) \/ RootError(r)
        PROVE  NoFrameBetweenRoots'
    BY <2>5 DEF FlushRoot, RootBusy, RootError
  <2>6. ASSUME NEW r \in Roots, FlushRootReturns(r)
        PROVE  NoFrameBetweenRoots'
    BY <2>6 DEF FlushRootReturns, Accepted, NotSent, FRAME_SENDING, FRAME_FLUSHING
  <2>7. ASSUME NEW r \in Roots, QueueRoot(r)
        PROVE  NoFrameBetweenRoots'
    BY <2>7 DEF QueueRoot, AtRoot, FlushesAtRoot, isNeededToFlush,
                FlagsFollowFlusher
  <2> QED
    BY <1>1, <2>1, <2>2, <2>3, <2>4, <2>5, <2>6, <2>7 DEF Sender
<1>2. ASSUME NEW f \in Frames, FrameStep(f) PROVE NoFrameBetweenRoots'
  BY <1>2, NodeFrame DEF flushVars, sendVars
<1>3. CASE SetFlushing
  BY <1>3 DEF SetFlushing
<1>4. CASE LockKick
  BY <1>4, FlusherFrame DEF LockKick, FlushInProgress, sendVars
<1>5. CASE DispatcherBeginFlush \/ Abort \/ UnlockKick \/ Drained
           \/ DispatcherEndFlush \/ EndFlush
  BY <1>5 DEF DispatcherBeginFlush, Abort, UnlockKick, Drained,
              DispatcherEndFlush, EndFlush, sendVars
<1>6. ASSUME NEW n \in Nodes, FlushNode(n) PROVE NoFrameBetweenRoots'
  BY <1>6 DEF FlushNode, sendVars
<1>7. CASE UNCHANGED vars
  BY <1>7 DEF vars, sendVars, flushVars
<1> QED
  BY Steps, <1>1, <1>2, <1>3, <1>4, <1>5, <1>6, <1>7 DEF FlushInProgress

LEMMA RegisteredStep ==
  ASSUME FlushInv, [Next]_vars
  PROVE  SentIsRegistered'
<1> USE DEF FlushInv, SentIsRegistered
<1>1. CASE Sender
  <2>1. CASE SendFrameBegin
    BY <2>1 DEF SendFrameBegin
  <2>2. CASE RegisterRequest
    BY <2>2 DEF RegisterRequest
  <2>3. CASE KickBarrier \/ AcquireKickLock \/ BeginPass \/ EndPass
    BY <2>3 DEF KickBarrier, AcquireKickLock, BeginPass, EndPass, listVars
  <2>4. ASSUME NEW r \in Roots,
               FlushRoot(r) \/ FlushRootReturns(r) \/ QueueRoot(r) \/ RootBusy(r)
                 \/ RootError(r)
        PROVE  SentIsRegistered'
    BY <2>4 DEF FlushRoot, FlushRootReturns, QueueRoot, RootBusy, RootError, listVars
  <2> QED
    BY <1>1, <2>1, <2>2, <2>3, <2>4 DEF Sender
<1>2. ASSUME NEW f \in Frames, FrameStep(f) PROVE SentIsRegistered'
  <2>1. CASE ReleaseFrame(f)
    BY <2>1 DEF ReleaseFrame, HeldBySender, sendVars
  <2>2. CASE UNCHANGED mRequest
    BY <1>2, <2>2, NodeFrame DEF sendVars
  <2> QED
    BY <1>2, <2>1, <2>2
    DEF FrameStep, NodeReturns, DispatchReturns, DispatchTo, QueueNext,
        NextRejects, FlushNextReturns, listVars
<1>3. CASE SetFlushing \/ FlushInProgress
  BY <1>3, FlusherFrame DEF sendVars, listVars
<1>4. CASE UNCHANGED vars
  BY <1>4 DEF vars, sendVars, listVars
<1> QED
  BY Steps, <1>1, <1>2, <1>3, <1>4

\* A frame comes to a node only from the sender or from another node.
LEMMA PresenceStep ==
  ASSUME TypeOK, NEW f \in Frames, FrameStep(f),
         NEW g \in Frames, NEW k \in Nodes, Present(g, k)'
  PROVE  Present(g, k) \/ (g = f /\ \E n \in Nodes : Present(f, n))
<1> USE DEF Present, TypeOK
<1>1. CASE ReleaseFrame(f)
  BY <1>1 DEF ReleaseFrame, nodeVars
<1>2. ASSUME NEW n \in Nodes, NodeReturns(f, n) \/ DispatchReturns(f, n)
      PROVE  Present(g, k) \/ (g = f /\ \E i \in Nodes : Present(f, i))
  BY <1>2 DEF NodeReturns, DispatchReturns
<1>3. ASSUME NEW n \in Nodes, NEW m \in Nodes, DispatchTo(f, n, m)
      PROVE  Present(g, k) \/ (g = f /\ \E i \in Nodes : Present(f, i))
  <2>1. Present(f, n)
    BY <1>3 DEF DispatchTo
  <2>2. g # f => st'[g] = st[g]
    <3>1. \/ UNCHANGED st
          \/ \E v \in Standing : st' = [st EXCEPT ![f][m] = v]
      <4>1. Hand(f, m, "flush") => st' = [st EXCEPT ![f][m] = "flushing"]
        BY DEF Hand
      <4> QED BY <1>3, <4>1, DispatchOutcome DEF Standing
    <3> QED BY <3>1
  <2> QED BY <2>1, <2>2
<1>4. ASSUME NEW n \in Nodes, NEW m \in Nodes, QueueNext(f, n, m) \/ NextRejects(f, n, m)
      PROVE  Present(g, k) \/ (g = f /\ \E i \in Nodes : Present(f, i))
  BY <1>4 DEF QueueNext, NextRejects, Hand
<1>5. ASSUME NEW n \in Nodes, NEW m \in Nodes, FlushNextReturns(f, n, m)
      PROVE  Present(g, k) \/ (g = f /\ \E i \in Nodes : Present(f, i))
  BY <1>5 DEF FlushNextReturns
<1> QED
  BY <1>1, <1>2, <1>3, <1>4, <1>5 DEF FrameStep

\* The only steps of the sender that touch the nodes.
LEMMA SenderAtNodes ==
  ASSUME Sender
  PROVE  \/ UNCHANGED <<nodeVars, aborted>>
         \/ \E r \in Roots : FlushRoot(r) \/ QueueRoot(r)
BY DEF Sender, SendFrameBegin, RegisterRequest, KickBarrier, AcquireKickLock,
       BeginPass, EndPass, FlushRootReturns, RootBusy, RootError

LEMMA PresentRegisteredStep ==
  ASSUME FlushInv, [Next]_vars
  PROVE  PresentIsRegistered'
<1> SUFFICES ASSUME NEW g \in Frames, NEW k \in Nodes, Present(g, k)'
             PROVE  g \in mRequest'
  BY DEF PresentIsRegistered
<1> USE DEF FlushInv, PresentIsRegistered
<1>1. CASE Sender
  <2>1. mRequest \subseteq mRequest'
    BY <1>1 DEF Sender, SendFrameBegin, RegisterRequest, KickBarrier, listVars,
       AcquireKickLock, BeginPass, EndPass, FlushRoot, FlushRootReturns,
       QueueRoot, RootBusy, RootError
  <2>2. CASE UNCHANGED <<nodeVars, aborted>>
    BY <2>1, <2>2 DEF nodeVars, Present
  <2>3. ASSUME NEW r \in Roots, FlushRoot(r) \/ QueueRoot(r) PROVE g \in mRequest'
    <3>1. frame \in mRequest
      BY <2>3 DEF FlushRoot, QueueRoot, AtRoot, SentIsRegistered
    <3>2. g = frame \/ Present(g, k)
      BY <2>3 DEF FlushRoot, QueueRoot, Hand, Present, TypeOK
    <3> QED BY <2>1, <3>1, <3>2
  <2> QED BY <1>1, <2>2, <2>3, SenderAtNodes
<1>2. ASSUME NEW f \in Frames, FrameStep(f) PROVE g \in mRequest'
  <2>1. CASE ReleaseFrame(f)
    BY <2>1 DEF ReleaseFrame, nodeVars, Present, UnheldByNodes
  <2>2. CASE UNCHANGED mRequest
    BY <1>2, <2>2, PresenceStep
  <2> QED
    BY <1>2, <2>1, <2>2
    DEF FrameStep, NodeReturns, DispatchReturns, DispatchTo, QueueNext,
        NextRejects, FlushNextReturns, listVars
<1>3. CASE SetFlushing \/ FlushInProgress
  BY <1>3, FlusherFrame DEF listVars, nodeVars, Present
<1>4. CASE UNCHANGED vars
  BY <1>4 DEF vars, listVars, nodeVars, Present
<1> QED
  BY Steps, <1>1, <1>2, <1>3, <1>4

\* The dispatcher's writers wait for its readers, so a hand-over that began
\* before the flag was set has ended when it is set.
LEMMA HandOverStep ==
  ASSUME FlushInv, [Next]_vars
  PROVE  HandOverIsRead'
<1> SUFFICES ASSUME NEW g \in Frames, NEW k \in Nodes, st'[g][k] = "toQueue"
             PROVE  ~mInFlush' /\ \E i \in Nodes : visit'[g][i] = k
  BY DEF HandOverIsRead
<1> USE NoNodeAssumption DEF FlushInv, HandOverIsRead, TypeOK
<1>1. CASE Sender
  <2>1. CASE UNCHANGED <<nodeVars, aborted>>
    BY <1>1, <2>1, SenderFrame DEF nodeVars, flushVars
  <2>2. ASSUME NEW r \in Roots, FlushRoot(r) \/ QueueRoot(r)
        PROVE  ~mInFlush' /\ \E i \in Nodes : visit'[g][i] = k
    <3>1. UNCHANGED <<visit, mInFlush>>
      BY <2>2 DEF FlushRoot, QueueRoot, flushVars
    <3>2. r \in Nodes /\ frame \in Frames
      BY <2>2, NumFramesAssumption DEF FlushRoot, QueueRoot, AtRoot, Roots, Frames
    <3>3. \E v \in {"queued", "flushing"} : st' = [st EXCEPT ![frame][r] = v]
      BY <2>2 DEF FlushRoot, QueueRoot, Hand
    <3>4. st[g][k] = "toQueue"
      BY <3>2, <3>3
    <3> QED BY <3>1, <3>4
  <2> QED BY <1>1, <2>1, <2>2, SenderAtNodes
<1>2. ASSUME NEW f \in Frames, FrameStep(f)
      PROVE  ~mInFlush' /\ \E i \in Nodes : visit'[g][i] = k
  <2> mInFlush' = mInFlush
    BY <1>2, NodeFrame DEF flushVars
  <2>1. CASE ReleaseFrame(f)
    BY <2>1 DEF ReleaseFrame, nodeVars
  <2>2. ASSUME NEW n \in Nodes, NodeReturns(f, n) \/ DispatchReturns(f, n)
        PROVE  ~mInFlush' /\ \E i \in Nodes : visit'[g][i] = k
    <3>1. UNCHANGED visit
      BY <2>2 DEF NodeReturns, DispatchReturns
    <3>2. \E v \in {"out", "done"} : st' = [st EXCEPT ![f][n] = v]
      BY <2>2 DEF NodeReturns, DispatchReturns
    <3>3. st[g][k] = "toQueue"
      BY <3>2
    <3> QED BY <3>1, <3>3
  <2>3. ASSUME NEW n \in Nodes, NEW m \in Nodes, DispatchTo(f, n, m)
        PROVE  ~mInFlush' /\ \E i \in Nodes : visit'[g][i] = k
    <3>1. visit[f][n] = NoNode
      BY <2>3 DEF DispatchTo
    <3>2. CASE UNCHANGED <<st, handed, visit>>
      BY <3>2
    <3>3. CASE visit' = [visit EXCEPT ![f][n] = m] /\ Hand(f, m, "flush")
      BY <3>1, <3>3 DEF Hand
    <3>4. CASE /\ visit' = [visit EXCEPT ![f][n] = m]
               /\ ~Flushed(f)
               /\ st' = [st EXCEPT ![f][m] = "toQueue"]
      BY <3>1, <3>4 DEF Flushed
    <3> QED BY <2>3, DispatchOutcome, <3>2, <3>3, <3>4
  <2>4. ASSUME NEW n \in Nodes, NEW m \in Nodes,
               QueueNext(f, n, m) \/ NextRejects(f, n, m) \/ FlushNextReturns(f, n, m)
        PROVE  ~mInFlush' /\ \E i \in Nodes : visit'[g][i] = k
    <3>1. /\ visit[f][n] = m
          /\ visit' = [visit EXCEPT ![f][n] = NoNode]
          /\ st'[f][m] # "toQueue"
          /\ \A h \in Frames, i \in Nodes :
                st'[h][i] = st[h][i] \/ (h = f /\ i = m)
      BY <2>4 DEF QueueNext, NextRejects, FlushNextReturns, Visited, Hand
    <3>2. st[g][k] = "toQueue" /\ ~(g = f /\ k = m)
      BY <3>1
    <3>3. PICK i \in Nodes : visit[g][i] = k
      BY <3>2
    <3>4. ~(g = f /\ i = n)
      BY <3>1, <3>2, <3>3
    <3>5. visit'[g][i] = k
      BY <3>1, <3>3, <3>4
    <3> QED BY <3>2, <3>5
  <2> QED
    BY <1>2, <2>1, <2>2, <2>3, <2>4 DEF FrameStep
<1>3. CASE DispatcherBeginFlush
  BY <1>3 DEF DispatcherBeginFlush, DispatcherHasReader, nodeVars
<1>4. CASE SetFlushing \/ Abort \/ LockKick \/ UnlockKick \/ Drained
           \/ DispatcherEndFlush \/ EndFlush
  BY <1>4 DEF SetFlushing, Abort, LockKick, UnlockKick, Drained,
              DispatcherEndFlush, EndFlush, nodeVars
<1>5. ASSUME NEW n \in Nodes, FlushNode(n)
      PROVE  ~mInFlush' /\ \E i \in Nodes : visit'[g][i] = k
  BY <1>5 DEF FlushNode, nodeVars
<1>6. CASE UNCHANGED vars
  BY <1>6 DEF vars, flushVars, nodeVars
<1> QED
  BY Steps, <1>1, <1>2, <1>3, <1>4, <1>5, <1>6 DEF FlushInProgress

\* abort() covers the frames registered by then; a frame that comes to a node
\* later was flushed by the sender, which aborts it first, or had been accepted
\* by one root before and so was registered.
LEMMA PresentAbortedStep ==
  ASSUME FlushInv, [Next]_vars
  PROVE  PresentIsAborted'
<1> USE DEF FlushInv, PresentIsAborted
<1>1. CASE Sender
  <2> USE SenderFrame, <1>1 DEF flushVars
  <2>1. aborted \subseteq aborted'
    BY DEF Sender, SendFrameBegin, RegisterRequest, KickBarrier, BeginPass,
       AcquireKickLock, EndPass, FlushRoot, FlushRootReturns, QueueRoot,
       RootBusy, RootError
  <2>2. ASSUME NEW r \in Roots, FlushRoot(r) PROVE PresentIsAborted'
    <3>1. frame \in aborted' /\ \A g \in Frames : g # frame => st'[g] = st[g]
      BY <2>2 DEF FlushRoot, Hand, TypeOK
    <3> QED BY <2>1, <2>2, <3>1 DEF FlushRoot, HalfSent, Present
  <2>3. ASSUME NEW r \in Roots, QueueRoot(r) PROVE PresentIsAborted'
    <3>1. /\ frame' = frame
          /\ \A g \in Frames : g # frame => st'[g] = st[g]
      BY <2>3 DEF QueueRoot, Hand, TypeOK
    <3>2. mIsFlushing => HalfSent
      BY <2>3 DEF QueueRoot, AtRoot, FlushesAtRoot, isNeededToFlush, HalfSent
    <3> QED BY <2>1, <3>1, <3>2 DEF FlagsFollowFlusher, Present
  <2>4. CASE UNCHANGED <<nodeVars, aborted>>
    <3>1. ASSUME flusher # "idle"
          PROVE  HalfSent' => HalfSent /\ frame' = frame
      <4>1. CASE SendFrameBegin \/ RegisterRequest \/ KickBarrier \/ AcquireKickLock
        BY <4>1 DEF SendFrameBegin, RegisterRequest, KickBarrier,
           AcquireKickLock, HalfSent, NotSent, FRAME_SENDING
      <4>2. CASE BeginPass \/ EndPass
        BY <4>2 DEF BeginPass, EndPass, HalfSent
      <4>3. ASSUME NEW r \in Roots,
                   FlushRoot(r) \/ RootBusy(r) \/ RootError(r)
            PROVE  HalfSent' => HalfSent /\ frame' = frame
        BY <4>3 DEF FlushRoot, RootBusy, RootError, HalfSent
      <4>4. ASSUME NEW r \in Roots, FlushRootReturns(r)
            PROVE  HalfSent' => HalfSent /\ frame' = frame
        BY <4>4 DEF FlushRootReturns, Accepted, HalfSent, FRAME_SENDING,
           FRAME_FLUSHING, NotSent
      <4>5. ASSUME NEW r \in Roots, QueueRoot(r)
            PROVE  HalfSent' => HalfSent /\ frame' = frame
        BY <3>1, <4>5 DEF QueueRoot, AtRoot, FlushesAtRoot, isNeededToFlush, HalfSent,
           FlagsFollowFlusher
      <4> QED BY <1>1, <4>1, <4>2, <4>3, <4>4, <4>5 DEF Sender
    <3> QED BY <2>4, <3>1 DEF nodeVars, Present
  <2> QED BY <1>1, <2>2, <2>3, <2>4, SenderAtNodes
<1>2. ASSUME NEW f \in Frames, FrameStep(f) PROVE PresentIsAborted'
  <2>1. UNCHANGED <<flusher, aborted>> /\ (HalfSent' => HalfSent) /\ frame' = frame
    BY <1>2, NodeFrame DEF flushVars, sendVars, HalfSent
  <2>2. ASSUME NEW g \in Frames, NEW k \in Nodes, Present(g, k)',
               flusher \in {"kick", "kicking", "sweep", "drain", "endDispatcher", "end"}
        PROVE  g \in aborted'
    BY <1>2, <2>1, <2>2, PresenceStep
  <2> QED BY <2>1, <2>2
<1>3. CASE Abort
  BY <1>3 DEF Abort, sendVars, nodeVars, Present, HalfSent,
              PresentIsRegistered, SentIsRegistered
<1>4. CASE SetFlushing \/ DispatcherBeginFlush \/ LockKick \/ UnlockKick
           \/ Drained \/ DispatcherEndFlush \/ EndFlush
  BY <1>4 DEF SetFlushing, DispatcherBeginFlush, LockKick, UnlockKick, Drained,
              DispatcherEndFlush, EndFlush, sendVars, nodeVars, Present, HalfSent
<1>5. ASSUME NEW n \in Nodes, FlushNode(n) PROVE PresentIsAborted'
  BY <1>5 DEF FlushNode, sendVars, nodeVars, Present, HalfSent
<1>6. CASE UNCHANGED vars
  BY <1>6 DEF vars, sendVars, flushVars, nodeVars, Present, HalfSent
<1> QED
  BY Steps, <1>1, <1>2, <1>3, <1>4, <1>5, <1>6 DEF FlushInProgress

LEMMA QuietStep ==
  ASSUME FlushInv, [Next]_vars
  PROVE  QuietAfterDrain'
<1> USE DEF FlushInv, QuietAfterDrain
<1>1. CASE Sender
  <2> USE SenderFrame, <1>1 DEF flushVars
  <2>1. ASSUME NEW r \in Roots, FlushRoot(r) PROVE QuietAfterDrain'
    BY <2>1 DEF FlushRoot, Hand, TypeOK
  <2>2. ASSUME NEW r \in Roots, QueueRoot(r) PROVE QuietAfterDrain'
    <3>1. mIsFlushing => HalfSent
      BY <2>2 DEF QueueRoot, AtRoot, FlushesAtRoot, isNeededToFlush, HalfSent
    <3> QED BY <3>1 DEF FlagsFollowFlusher, NoFrameBetweenRoots
  <2>3. CASE UNCHANGED <<nodeVars, aborted>>
    BY <2>3 DEF nodeVars
  <2> QED BY <2>1, <2>2, <2>3, SenderAtNodes
<1>2. ASSUME NEW f \in Frames, FrameStep(f) PROVE QuietAfterDrain'
  <2> SUFFICES ASSUME flusher \in {"endDispatcher", "end"},
                      NEW g \in Frames, NEW k \in Nodes
               PROVE  st'[g][k] \notin {"toQueue", "queued"}
    BY <1>2, NodeFrame DEF flushVars
  <2>1. CASE ReleaseFrame(f)
    BY <2>1 DEF ReleaseFrame, nodeVars
  <2>2. ASSUME NEW n \in Nodes, NodeReturns(f, n) \/ DispatchReturns(f, n)
        PROVE  st'[g][k] \notin {"toQueue", "queued"}
    <3>1. st' = [st EXCEPT ![f][n] = "out"] \/ st' = [st EXCEPT ![f][n] = "done"]
      BY <2>2 DEF NodeReturns, DispatchReturns
    <3>2. st[g][k] \notin {"toQueue", "queued"} /\ st \in [Frames -> [Nodes -> Standing]]
      BY DEF TypeOK
    <3>3. CASE st' = [st EXCEPT ![f][n] = "out"]
      BY <3>2, <3>3
    <3>4. CASE st' = [st EXCEPT ![f][n] = "done"]
      BY <3>2, <3>4
    <3> QED BY <3>1, <3>3, <3>4
  <2>3. ASSUME NEW n \in Nodes, NEW m \in Nodes, DispatchTo(f, n, m)
        PROVE  st'[g][k] \notin {"toQueue", "queued"}
    <3>1. Flushed(f)
      BY <2>3 DEF DispatchTo, Present, PresentIsAborted, Flushed
    <3>2. st' = st \/ st' = [st EXCEPT ![f][m] = "flushing"]
      <4>1. Hand(f, m, "flush") => st' = [st EXCEPT ![f][m] = "flushing"]
        BY DEF Hand
      <4> QED BY <2>3, <3>1, <4>1, DispatchOutcome
    <3>3. st[g][k] \notin {"toQueue", "queued"} /\ st \in [Frames -> [Nodes -> Standing]]
      BY DEF TypeOK
    <3>4. CASE st' = [st EXCEPT ![f][m] = "flushing"]
      BY <3>3, <3>4
    <3> QED BY <3>2, <3>3, <3>4
  <2>4. ASSUME NEW n \in Nodes, NEW m \in Nodes,
               QueueNext(f, n, m) \/ NextRejects(f, n, m)
        PROVE  st'[g][k] \notin {"toQueue", "queued"}
    BY <2>4 DEF QueueNext, NextRejects
  <2>5. ASSUME NEW n \in Nodes, NEW m \in Nodes, FlushNextReturns(f, n, m)
        PROVE  st'[g][k] \notin {"toQueue", "queued"}
    BY <2>5 DEF FlushNextReturns
  <2> QED
    BY <1>2, <2>1, <2>2, <2>3, <2>4, <2>5 DEF FrameStep
<1>3. CASE Drained
  BY <1>3 DEF Drained, DrainedFrames, PresentIsRegistered, Present, nodeVars
<1>4. CASE SetFlushing \/ DispatcherBeginFlush \/ Abort \/ LockKick
           \/ UnlockKick \/ DispatcherEndFlush \/ EndFlush
  BY <1>4 DEF SetFlushing, DispatcherBeginFlush, Abort, LockKick, UnlockKick,
              DispatcherEndFlush, EndFlush, nodeVars
<1>5. ASSUME NEW n \in Nodes, FlushNode(n) PROVE QuietAfterDrain'
  BY <1>5 DEF FlushNode, nodeVars
<1>6. CASE UNCHANGED vars
  BY <1>6 DEF vars, flushVars, nodeVars
<1> QED
  BY Steps, <1>1, <1>2, <1>3, <1>4, <1>5, <1>6 DEF FlushInProgress

-----------------------------------------------------------------------------
(* The theorems *)

LEMMA InitEstablishes == Init => FlushInv
<1> SUFFICES ASSUME Init PROVE FlushInv
  OBVIOUS
<1>1. \A f \in Frames, n \in Nodes : st[f][n] = "none"
  BY DEF Init, EveryFrameAndNode
<1>2. FlagsFollowFlusher
  BY DEF Init, FlagsFollowFlusher
<1> QED
  BY <1>1, <1>2, InitTypes
  DEF Init, FlushInv, NoFrameBetweenRoots, HalfSent, HandOverIsRead,
      SentIsRegistered, PresentIsRegistered, PresentIsAborted, Present,
      QuietAfterDrain

LEMMA FlushInvStep ==
  ASSUME FlushInv, [Next]_vars
  PROVE  FlushInv'
<1>1. TypeOK'
  BY TypeStep DEF FlushInv
<1> QED
  BY <1>1, FlagsStep, BetweenRootsStep, HandOverStep, RegisteredStep,
     PresentRegisteredStep, PresentAbortedStep, QuietStep, Zenon DEF FlushInv

\* The locks and flags of beginFlush(), sendFrame() and onDispatchFrame() do
\* what they are there for, whatever the graph.
LEMMA FlushInvariance == Spec => []FlushInv
  BY InitEstablishes, FlushInvStep, PTL DEF Spec

\* Once waitUntilDrained() has returned in a flush, no node works on a frame
\* that it was queued, until the flush is over.
THEOREM Quiet == Spec => []QuietAfterDrain
<1>1. FlushInv => QuietAfterDrain
  BY DEF FlushInv
<1> QED
  BY FlushInvariance, <1>1, PTL

\* No frame is queued to a node behind the flush's sweep over the nodes.
THEOREM SweepIsFinal == Spec => NoQueueBehindSweep
<1>1. ASSUME FlushInv, [Next]_vars, NEW f \in Frames, NEW n \in swept,
             handed'[f][n] = "queue"
      PROVE  handed[f][n] = "queue"
  <2> USE <1>1 DEF FlushInv
  <2>1. n \in Nodes /\ swept # {}
    BY DEF TypeOK
  <2>2. flusher \in {"sweep", "drain", "endDispatcher", "end"}
    BY <2>1 DEF FlagsFollowFlusher
  <2>3. CASE Sender
    <3>1. CASE UNCHANGED <<nodeVars, aborted>>
      BY <3>1 DEF nodeVars
    <3>2. ASSUME NEW r \in Roots, FlushRoot(r) PROVE handed[f][n] = "queue"
      BY <2>1, <3>2 DEF FlushRoot, Hand, TypeOK
    <3>3. ASSUME NEW r \in Roots, QueueRoot(r) PROVE handed[f][n] = "queue"
      BY <2>2, <3>3 DEF QueueRoot, AtRoot, FlushesAtRoot, isNeededToFlush,
                        HalfSent, FlagsFollowFlusher, NoFrameBetweenRoots
    <3> QED BY <2>3, <3>1, <3>2, <3>3, SenderAtNodes
  <2>4. ASSUME NEW g \in Frames, FrameStep(g) PROVE handed[f][n] = "queue"
    <3>1. ASSUME NEW i \in Nodes, NEW m \in Nodes, QueueNext(g, i, m)
          PROVE  handed[f][n] = "queue"
      BY <2>2, <3>1 DEF QueueNext, HandOverIsRead, QuietAfterDrain, FlagsFollowFlusher
    <3>2. ASSUME NEW i \in Nodes, NEW m \in Nodes, DispatchTo(g, i, m)
          PROVE  handed[f][n] = "queue"
      <4>1. Hand(g, m, "flush") => handed' = [handed EXCEPT ![g][m] = "flush"]
        BY DEF Hand
      <4>2. \/ handed' = handed
            \/ handed' = [handed EXCEPT ![g][m] = "flush"]
        BY <3>2, <4>1, DispatchOutcome
      <4>3. handed \in [Frames -> [Nodes -> Handing]]
        BY DEF TypeOK
      <4>4. CASE handed' = [handed EXCEPT ![g][m] = "flush"]
        BY <1>1, <2>1, <4>3, <4>4
      <4> QED BY <4>2, <4>4
    <3>3. CASE UNCHANGED handed
      BY <3>3
    <3> QED
      BY <2>4, <3>1, <3>2, <3>3
      DEF FrameStep, ReleaseFrame, nodeVars, NodeReturns, DispatchReturns,
          NextRejects, FlushNextReturns
  <2>5. CASE SetFlushing \/ FlushInProgress
    BY <2>5, FlusherFrame DEF nodeVars
  <2>6. CASE UNCHANGED vars
    BY <2>6 DEF vars, nodeVars
  <2> QED
    BY <2>3, <2>4, <2>5, <2>6, Steps
<1>2. FlushInv /\ [Next]_vars =>
        [\A f \in Frames, n \in swept :
           handed'[f][n] = "queue" => handed[f][n] = "queue"]_vars
  BY <1>1
<1> QED
  BY FlushInvariance, <1>2, PTL DEF Spec, NoQueueBehindSweep
====
