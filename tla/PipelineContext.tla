--------------------------- MODULE PipelineContext ---------------------------
(***************************************************************************)
(* Sending frames through the graph of pipeline nodes while another thread *)
(* flushes it: PipelineContextImpl::sendFrame / beginFlush / endFlush,     *)
(* DefaultDispatcher::onDispatchFrame and InFlightRequest.                 *)
(*                                                                         *)
(* Three kinds of actors interleave: the sender (one at a time, which is   *)
(* what module InitFrames establishes), the flushing thread, and the nodes,*)
(* which give frames back to the dispatcher from threads of their own.     *)
(*                                                                         *)
(* Locks.  A reader of the context's mFlushLock is a sender in "pass", a   *)
(* reader of the dispatcher's is a frame with visit # NoNode; their writers*)
(* are single steps that need the absence of readers.  mKickLock is held   *)
(* by a sender in "start" or "pass" and by a flusher in "kicking".  Each   *)
(* critical section of InFlightRequest::mLock and of the dispatcher's      *)
(* mRWLock is one step.                                                    *)
(***************************************************************************)
EXTENDS Naturals, FiniteSets

CONSTANTS
  NumFrames,     \* frames are numbered in the order in which they are sent
  RequestNo,     \* the request of each frame, as the application counts it
  RequestWidth,  \* request numbers are kept modulo this (2^32 in the code)
  Nodes,         \* nodes of the pipeline graph
  Edges,         \* its edges, pairs of nodes
  MayReject,     \* nodes whose queue(frame) may return an error
  MaxFlushes     \* bound: flushes in a behaviour

Frames == 1 .. NumFrames
NoNode == "no node"

ASSUME NumFramesAssumption == NumFrames \in Nat
ASSUME RequestWidthAssumption == RequestWidth \in Nat \ {0}
ASSUME RequestNoAssumption == RequestNo \in [Frames -> Nat]
ASSUME EdgesAssumption == Edges \subseteq Nodes \X Nodes
ASSUME NoNodeAssumption == NoNode \notin Nodes
ASSUME MayRejectAssumption == MayReject \subseteq Nodes
ASSUME MaxFlushesAssumption == MaxFlushes \in Nat

VARIABLES
  \* the sender
  sender,          \* where the sending thread is
  frame,           \* the frame it sends, or has last sent
  remaining,       \* roots that have not accepted the frame (vspPipelineNode)
  todo,            \* of these, the ones still to be called in this pass
  calling,         \* the root inside whose flush(frame) the sender is
  sendStatus,      \* outcome at the first root that accepted
  m1stRequestNo,
  mLastRequestNo,
  \* flush
  flusher,         \* where the flushing thread is
  flushes,         \* flushes begun so far
  swept,           \* nodes whose flush() has run in the current flush
  mIsFlushing,
  mFlushRequestNo,
  mInFlush,        \* the dispatcher's flag
  aborted,         \* frames whose abort() was called
  lastFlushed,     \* history: the last frame sent when the last flush ended
  \* frames in flight
  mRequest,        \* InFlightRequest::mRequest, the frames registered
  mRequestMap,     \* per node, the frames whose outputs are not yet released
  failed,          \* frames that some node rejected
  st,              \* where a frame stands at a node
  handed,          \* history: how a node was given a frame
  left,            \* next nodes a node has still to visit for a frame
  visit,           \* next node a dispatch is delivering to
  mInAdjReqCnt     \* predecessors of a node that have dispatched a frame

sendVars  == <<sender, frame, remaining, todo, calling, sendStatus>>
numVars   == <<m1stRequestNo, mLastRequestNo>>
flushVars == <<flusher, flushes, swept, mIsFlushing, mFlushRequestNo,
               mInFlush, lastFlushed>>
listVars  == <<mRequest, mRequestMap>>
nodeVars  == <<st, handed, left, visit, mInAdjReqCnt>>

vars == <<sendVars, numVars, flushVars, listVars, nodeVars, aborted, failed>>

NoRequest == RequestWidth - 1       \* BAD_REQUEST_NO, the largest value

Out(n) == {m \in Nodes : <<n, m>> \in Edges}
In(n)  == {m \in Nodes : <<m, n>> \in Edges}
Roots  == {n \in Nodes : In(n) = {}}

\* The graph is finite and has no cycle: every set of nodes has a first one.
ASSUME NodesAssumption == IsFiniteSet(Nodes)
ASSUME AcyclicAssumption ==
  \A S \in SUBSET Nodes : S # {} => \E n \in S : In(n) \cap S = {}

\* A frame that the dispatcher has decided to hand over normally is "toQueue";
\* it is in the node's hands after queue(frame) ("queued") or flush(frame)
\* ("flushing"), then dispatched to the next nodes ("out"), then gone ("done").
Standing == {"none", "toQueue", "queued", "flushing", "out", "done"}

SenderAt == {"idle", "register", "barrier", "acquire", "start", "pass"}
FlusherAt == {"idle", "dispatcher", "abort", "kick", "kicking", "sweep",
              "drain", "endDispatcher", "end"}
Handing == {"none", "queue", "flush"}

NotSent       == 0
FRAME_SENDING == 1
FRAME_FLUSHING == 2

TypeOK ==
  /\ sender \in SenderAt
  /\ frame \in 0 .. NumFrames /\ (sender # "idle" => frame # 0)
  /\ remaining \in SUBSET Roots
  /\ todo \in SUBSET remaining
  /\ calling \in todo \cup {NoNode}
  /\ sendStatus \in {NotSent, FRAME_SENDING, FRAME_FLUSHING}
  /\ m1stRequestNo \in 0 .. RequestWidth - 1
  /\ mLastRequestNo \in 0 .. RequestWidth - 1
  /\ flusher \in FlusherAt
  /\ flushes \in 0 .. MaxFlushes
  /\ swept \in SUBSET Nodes
  /\ mIsFlushing \in BOOLEAN
  /\ mFlushRequestNo \in 0 .. RequestWidth - 1
  /\ mInFlush \in BOOLEAN
  /\ aborted \in SUBSET Frames
  /\ lastFlushed \in 0 .. NumFrames
  /\ mRequest \in SUBSET Frames
  /\ mRequestMap \in [Nodes -> SUBSET Frames]
  /\ failed \in SUBSET Frames
  /\ st \in [Frames -> [Nodes -> Standing]]
  /\ handed \in [Frames -> [Nodes -> Handing]]
  /\ left \in [Frames -> [Nodes -> SUBSET Nodes]]
  /\ visit \in [Frames -> [Nodes -> Nodes \cup {NoNode}]]
  /\ mInAdjReqCnt \in [Frames -> [Nodes -> Nat]]

EveryFrameAndNode(v) == [f \in Frames |-> [n \in Nodes |-> v]]

Init ==
  /\ sender = "idle" /\ frame = 0 /\ remaining = {} /\ todo = {}
  /\ calling = NoNode /\ sendStatus = NotSent
  /\ m1stRequestNo = NoRequest /\ mLastRequestNo = NoRequest
  /\ flusher = "idle" /\ flushes = 0 /\ swept = {}
  /\ mIsFlushing = FALSE /\ mFlushRequestNo = NoRequest /\ mInFlush = FALSE
  /\ aborted = {} /\ lastFlushed = 0
  /\ mRequest = {} /\ mRequestMap = [n \in Nodes |-> {}] /\ failed = {}
  /\ st = EveryFrameAndNode("none") /\ handed = EveryFrameAndNode("none")
  /\ left = EveryFrameAndNode({}) /\ visit = EveryFrameAndNode(NoNode)
  /\ mInAdjReqCnt = EveryFrameAndNode(0)

-----------------------------------------------------------------------------
(* The sender: PipelineContextImpl::sendFrame, sendFrameToRootNodes *)

Number(f) == RequestNo[f] % RequestWidth

\* The subtraction mFlushRequestNo - m1stRequestNo of the code is unsigned, so
\* its test ">= 0" always holds and only the first of its branches is taken.
isNeededToFlush(f) ==
  \/ mIsFlushing
  \/ /\ mFlushRequestNo # NoRequest
     /\ Number(f) <= mFlushRequestNo
     /\ m1stRequestNo <= Number(f)

SendFrameBegin ==
  /\ sender = "idle"
  /\ frame < NumFrames
  /\ sender' = "register"
  /\ frame' = frame + 1
  /\ mLastRequestNo' = Number(frame + 1)
  /\ m1stRequestNo' = IF m1stRequestNo = NoRequest THEN Number(frame + 1)
                                                   ELSE m1stRequestNo
  /\ UNCHANGED <<remaining, todo, calling, sendStatus, flushVars, listVars,
                 nodeVars, aborted, failed>>

RegisterRequest ==
  /\ sender = "register"
  /\ sender' = "barrier"
  /\ remaining' = Roots
  /\ mRequest' = mRequest \cup {frame}
  /\ mRequestMap' = [n \in Nodes |-> mRequestMap[n] \cup {frame}]
  /\ UNCHANGED <<frame, todo, calling, sendStatus, numVars, flushVars,
                 nodeVars, aborted, failed>>

\* "only wait for the regular kick-processing": lock and unlock mKickLock.
KickBarrier ==
  /\ sender = "barrier"
  /\ flusher # "kicking"
  /\ sender' = "acquire"
  /\ UNCHANGED <<frame, remaining, todo, calling, sendStatus, numVars,
                 flushVars, listVars, nodeVars, aborted, failed>>

AcquireKickLock ==
  /\ sender = "acquire"
  /\ flusher # "kicking"
  /\ sender' = "start"
  /\ sendStatus' = NotSent
  /\ UNCHANGED <<frame, remaining, todo, calling, numVars, flushVars,
                 listVars, nodeVars, aborted, failed>>

\* A pass over the remaining roots, as a reader of mFlushLock.
BeginPass ==
  /\ sender = "start"
  /\ sender' = "pass"
  /\ todo' = remaining
  /\ UNCHANGED <<frame, remaining, calling, sendStatus, numVars, flushVars,
                 listVars, nodeVars, aborted, failed>>

AtRoot(r) == sender = "pass" /\ calling = NoNode /\ r \in todo

\* Wrong variant: whether other roots have accepted is not looked at.
FlushesWheneverNeeded == isNeededToFlush(frame)

FlushesAtRoot == isNeededToFlush(frame) /\ sendStatus # FRAME_SENDING

Hand(f, n, how) ==
  /\ st' = [st EXCEPT ![f][n] = IF how = "flush" THEN "flushing" ELSE "queued"]
  /\ handed' = [handed EXCEPT ![f][n] = how]

Accepted(r, status) ==
  /\ remaining' = remaining \ {r}
  /\ todo' = todo \ {r}
  /\ sendStatus' = IF sendStatus = NotSent THEN status ELSE sendStatus

\* Wrong variant: the frame is flushed without being aborted.
FlushRootUnaborted(r) ==
  /\ AtRoot(r)
  /\ FlushesAtRoot
  /\ Hand(frame, r, "flush")
  /\ calling' = r
  /\ UNCHANGED <<sender, frame, remaining, todo, sendStatus, numVars,
                 flushVars, listVars, left, visit, mInAdjReqCnt, aborted, failed>>

FlushRoot(r) ==
  /\ AtRoot(r)
  /\ FlushesAtRoot
  /\ aborted' = aborted \cup {frame}
  /\ Hand(frame, r, "flush")
  /\ calling' = r
  /\ UNCHANGED <<sender, frame, remaining, todo, sendStatus, numVars,
                 flushVars, listVars, left, visit, mInAdjReqCnt, failed>>

FlushRootReturns(r) ==
  /\ calling = r
  /\ r \in todo
  /\ st[frame][r] = "done"
  /\ calling' = NoNode
  /\ Accepted(r, FRAME_FLUSHING)
  /\ UNCHANGED <<sender, frame, numVars, flushVars, listVars, nodeVars,
                 aborted, failed>>

QueueRoot(r) ==
  /\ AtRoot(r)
  /\ ~FlushesAtRoot
  /\ Hand(frame, r, "queue")
  /\ Accepted(r, FRAME_SENDING)
  /\ UNCHANGED <<sender, frame, calling, numVars, flushVars, listVars,
                 left, visit, mInAdjReqCnt, aborted, failed>>

\* FAILED_TRANSACTION: the root is busy with another frame.
BusyWith(r, f) == \E g \in Frames \ {f} : st[g][r] = "queued"

RootBusy(r) ==
  /\ AtRoot(r)
  /\ ~FlushesAtRoot
  /\ BusyWith(r, frame)
  /\ todo' = todo \ {r}
  /\ UNCHANGED <<sender, frame, remaining, calling, sendStatus, numVars,
                 flushVars, listVars, nodeVars, aborted, failed>>

\* Any other error: sendFrame() gives the frame up, whatever the other roots
\* have been given.
RootError(r) ==
  /\ AtRoot(r)
  /\ ~FlushesAtRoot
  /\ r \in MayReject
  /\ failed' = failed \cup {frame}
  /\ sender' = "idle"
  /\ remaining' = {}
  /\ todo' = {}
  /\ UNCHANGED <<frame, calling, sendStatus, numVars, flushVars, listVars,
                 nodeVars, aborted>>

\* Both loops end when every root has accepted.  The inner one, which keeps
\* mKickLock, goes on once a root has accepted; otherwise the lock is released
\* and sendFrameToRootNodes() is called again.
EndPass ==
  /\ sender = "pass"
  /\ calling = NoNode
  /\ todo = {}
  /\ sender' = CASE remaining = {} -> "idle"
                 [] remaining # {} /\ sendStatus # NotSent -> "start"
                 [] OTHER -> "acquire"
  /\ UNCHANGED <<frame, remaining, todo, calling, sendStatus, numVars,
                 flushVars, listVars, nodeVars, aborted, failed>>

Sender ==
  \/ SendFrameBegin \/ RegisterRequest \/ KickBarrier \/ AcquireKickLock
  \/ BeginPass \/ EndPass
  \/ \E r \in Roots : \/ FlushRoot(r) \/ FlushRootReturns(r) \/ QueueRoot(r)
                      \/ RootBusy(r) \/ RootError(r)

-----------------------------------------------------------------------------
(* The nodes (BaseNode and the node implementations) and the dispatcher *)

DispatcherHasReader == \E f \in Frames, n \in Nodes : visit[f][n] # NoNode

\* Wrong variant: the node's lists are not told.
ApplyReleaseSilently(f, n) == UNCHANGED mRequestMap

\* applyRelease() reports that the node's outputs are released.
ApplyRelease(f, n) ==
  mRequestMap' = [mRequestMap EXCEPT ![n] = mRequestMap[n] \ {f}]

\* The node is through with the frame: it releases its buffers, on which the
\* frame tells InFlightRequest, and then calls onDispatchFrame().  For a frame
\* given by flush(frame) this happens within the call.
NodeReturns(f, n) ==
  /\ st[f][n] \in {"queued", "flushing"}
  /\ st' = [st EXCEPT ![f][n] = "out"]
  /\ left' = [left EXCEPT ![f][n] = Out(n)]
  /\ ApplyRelease(f, n)
  /\ UNCHANGED <<handed, visit, mInAdjReqCnt, sendVars, numVars, flushVars,
                 mRequest, aborted, failed>>

Flushed(f) == mInFlush \/ f \in aborted

\* Wrong variant: the last predecessor is not waited for.
AllButOneCame(f, m) == mInAdjReqCnt[f][m] + 1 >= Cardinality(In(m)) - 1

\* Counting the predecessor that dispatches now, the node has them all.
AllCame(f, m) == mInAdjReqCnt[f][m] + 1 >= Cardinality(In(m))

\* One round of onDispatchFrame()'s loop: count this predecessor of m, and hand
\* the frame to m if it is the last one to come.
DispatchTo(f, n, m) ==
  /\ st[f][n] = "out"
  /\ visit[f][n] = NoNode
  /\ m \in left[f][n]
  /\ left' = [left EXCEPT ![f][n] = left[f][n] \ {m}]
  /\ mInAdjReqCnt' = [mInAdjReqCnt EXCEPT ![f][m] = mInAdjReqCnt[f][m] + 1]
  /\ IF AllCame(f, m)
     THEN /\ visit' = [visit EXCEPT ![f][n] = m]
          /\ IF Flushed(f)
             THEN Hand(f, m, "flush")
             ELSE /\ st' = [st EXCEPT ![f][m] = "toQueue"]
                  /\ UNCHANGED handed
     ELSE UNCHANGED <<st, handed, visit>>
  /\ UNCHANGED <<sendVars, numVars, flushVars, listVars, aborted, failed>>

Visited(f, n) == visit' = [visit EXCEPT ![f][n] = NoNode]

QueueNext(f, n, m) ==
  /\ visit[f][n] = m
  /\ st[f][m] = "toQueue"
  /\ Hand(f, m, "queue")
  /\ Visited(f, n)
  /\ UNCHANGED <<left, mInAdjReqCnt, sendVars, numVars, flushVars, listVars,
                 aborted, failed>>

\* The node returns an error, which the dispatcher ignores.
NextRejects(f, n, m) ==
  /\ visit[f][n] = m
  /\ st[f][m] = "toQueue"
  /\ m \in MayReject
  /\ st' = [st EXCEPT ![f][m] = "done"]
  /\ failed' = failed \cup {f}
  /\ Visited(f, n)
  /\ UNCHANGED <<handed, left, mInAdjReqCnt, sendVars, numVars, flushVars,
                 listVars, aborted>>

FlushNextReturns(f, n, m) ==
  /\ visit[f][n] = m
  /\ handed[f][m] = "flush"
  /\ st[f][m] = "done"
  /\ Visited(f, n)
  /\ UNCHANGED <<st, handed, left, mInAdjReqCnt, sendVars, numVars, flushVars,
                 listVars, aborted, failed>>

DispatchReturns(f, n) ==
  /\ st[f][n] = "out"
  /\ left[f][n] = {}
  /\ visit[f][n] = NoNode
  /\ st' = [st EXCEPT ![f][n] = "done"]
  /\ UNCHANGED <<handed, left, visit, mInAdjReqCnt, sendVars, numVars,
                 flushVars, listVars, aborted, failed>>

HeldBySender(f) == sender # "idle" /\ frame = f

\* Wrong variant: a frame is released when it has been at every node.
UnheldEverywhere(f) == \A n \in Nodes : st[f][n] = "done"

UnheldByNodes(f) == \A n \in Nodes : st[f][n] \in {"none", "done"}

\* The frame is destroyed with its last reference: neither the sender nor a
\* node holds it.  InFlightRequest::onPipelineFrame(eMSG_FRAME_RELEASED).
ReleaseFrame(f) ==
  /\ f \in mRequest
  /\ ~HeldBySender(f)
  /\ UnheldByNodes(f)
  /\ mRequest' = mRequest \ {f}
  /\ UNCHANGED <<mRequestMap, nodeVars, sendVars, numVars, flushVars, aborted,
                 failed>>

FrameStep(f) ==
  \/ ReleaseFrame(f)
  \/ \E n \in Nodes :
       \/ NodeReturns(f, n) \/ DispatchReturns(f, n)
       \/ \E m \in Nodes : \/ DispatchTo(f, n, m) \/ QueueNext(f, n, m)
                           \/ NextRejects(f, n, m) \/ FlushNextReturns(f, n, m)

-----------------------------------------------------------------------------
(* The flushing thread: beginFlush, waitUntilDrained, endFlush *)

SetFlushing ==
  /\ flusher = "idle"
  /\ flushes < MaxFlushes
  /\ sender # "pass"
  /\ flusher' = "dispatcher"
  /\ flushes' = flushes + 1
  /\ mIsFlushing' = TRUE
  /\ UNCHANGED <<swept, mFlushRequestNo, mInFlush, lastFlushed, sendVars,
                 numVars, listVars, nodeVars, aborted, failed>>

DispatcherBeginFlush ==
  /\ flusher = "dispatcher"
  /\ ~DispatcherHasReader
  /\ flusher' = "abort"
  /\ mInFlush' = TRUE
  /\ UNCHANGED <<flushes, swept, mIsFlushing, mFlushRequestNo, lastFlushed,
                 sendVars, numVars, listVars, nodeVars, aborted, failed>>

Abort ==
  /\ flusher = "abort"
  /\ flusher' = "kick"
  /\ aborted' = aborted \cup mRequest
  /\ UNCHANGED <<flushes, swept, mIsFlushing, mFlushRequestNo, mInFlush,
                 lastFlushed, sendVars, numVars, listVars, nodeVars, failed>>

\* Wrong variant: mKickLock is not taken.
LockKickAtOnce ==
  /\ flusher = "kick"
  /\ flusher' = "kicking"
  /\ UNCHANGED <<flushes, swept, mIsFlushing, mFlushRequestNo, mInFlush,
                 lastFlushed, sendVars, numVars, listVars, nodeVars, aborted,
                 failed>>

\* kickRootNodes() waits here for a frame that not all roots have accepted.
LockKick ==
  /\ flusher = "kick"
  /\ sender \notin {"start", "pass"}
  /\ flusher' = "kicking"
  /\ UNCHANGED <<flushes, swept, mIsFlushing, mFlushRequestNo, mInFlush,
                 lastFlushed, sendVars, numVars, listVars, nodeVars, aborted,
                 failed>>

UnlockKick ==
  /\ flusher = "kicking"
  /\ flusher' = "sweep"
  /\ UNCHANGED <<flushes, swept, mIsFlushing, mFlushRequestNo, mInFlush,
                 lastFlushed, sendVars, numVars, listVars, nodeVars, aborted,
                 failed>>

\* The nodes' flush(), in topological order.  The frames a node has stay with
\* it: it gives them back later, as it always does (NodeReturns).
FlushNode(n) ==
  /\ flusher = "sweep"
  /\ n \notin swept
  /\ In(n) \subseteq swept
  /\ swept' = swept \cup {n}
  /\ flusher' = IF swept' = Nodes THEN "drain" ELSE "sweep"
  /\ UNCHANGED <<flushes, mIsFlushing, mFlushRequestNo, mInFlush, lastFlushed,
                 sendVars, numVars, listVars, nodeVars, aborted, failed>>

\* Wrong variant: nothing is waited for.
DrainedNothing == TRUE

\* Wrong variant: the lists of the nodes are waited for.
DrainedNodes == \A n \in Nodes : mRequestMap[n] = {}

DrainedFrames == mRequest = {}

\* InFlightRequest::waitUntilDrained() returns.
Drained ==
  /\ flusher = "drain"
  /\ DrainedFrames
  /\ flusher' = "endDispatcher"
  /\ UNCHANGED <<flushes, swept, mIsFlushing, mFlushRequestNo, mInFlush,
                 lastFlushed, sendVars, numVars, listVars, nodeVars, aborted,
                 failed>>

DispatcherEndFlush ==
  /\ flusher = "endDispatcher"
  /\ ~DispatcherHasReader
  /\ flusher' = "end"
  /\ mInFlush' = FALSE
  /\ UNCHANGED <<flushes, swept, mIsFlushing, mFlushRequestNo, lastFlushed,
                 sendVars, numVars, listVars, nodeVars, aborted, failed>>

\* Wrong variant: the last request sent is not remembered.
EndFlushForgetting ==
  /\ flusher = "end"
  /\ sender # "pass"
  /\ flusher' = "idle"
  /\ mIsFlushing' = FALSE
  /\ swept' = {}
  /\ lastFlushed' = frame
  /\ UNCHANGED <<flushes, mFlushRequestNo, mInFlush, sendVars, numVars,
                 listVars, nodeVars, aborted, failed>>

EndFlush ==
  /\ flusher = "end"
  /\ sender # "pass"
  /\ flusher' = "idle"
  /\ mFlushRequestNo' = mLastRequestNo
  /\ mIsFlushing' = FALSE
  /\ swept' = {}
  /\ lastFlushed' = frame
  /\ UNCHANGED <<flushes, mInFlush, sendVars, numVars, listVars, nodeVars,
                 aborted, failed>>

FlushInProgress ==
  \/ DispatcherBeginFlush \/ Abort \/ LockKick \/ UnlockKick \/ Drained
  \/ DispatcherEndFlush \/ EndFlush
  \/ \E n \in Nodes : FlushNode(n)

Next == Sender \/ SetFlushing \/ FlushInProgress \/ \E f \in Frames : FrameStep(f)

Spec == Init /\ [][Next]_vars

\* No thread stops for ever inside a call, nodes give back what they are given,
\* and destroyed frames are reported.  Nothing obliges anybody to flush.
FairSpec ==
  /\ Spec
  /\ WF_vars(Sender)
  /\ WF_vars(FlushInProgress)
  /\ \A f \in Frames : WF_vars(FrameStep(f))

-----------------------------------------------------------------------------
(* Safety *)

\* A node that the flush has swept is not queued another frame before the
\* flush ends: whoever would still queue one (a sender whose frame only some
\* roots have accepted, a dispatcher that had not seen the flag) is waited for
\* before the sweep.  beginFlush() 1818-1865.
NoQueueBehindSweep ==
  [][\A f \in Frames, n \in swept :
        handed'[f][n] = "queue" => handed[f][n] = "queue"]_vars

\* From the end of waitUntilDrained() to the end of endFlush() no node works on
\* a frame that it got by queue(), although the sender goes on sending.
QuietAfterDrain ==
  flusher \in {"endDispatcher", "end"} =>
     \A f \in Frames, n \in Nodes : st[f][n] \notin {"toQueue", "queued"}

\* A frame that was flushed at a node is never queued at a later one, not even
\* when the flush has ended in between: abort() or the dispatcher's flag covers
\* it all the way.  Dispatcher.cpp:403, PipelineContextImpl.cpp:1453.
FlushIsContagious ==
  \A f \in Frames, n \in Nodes : handed[f][n] = "flush" =>
     \A m \in Out(n) : handed[f][m] # "queue" /\ st[f][m] # "toQueue"

\* The roots of a frame are all given it by queue() or all by flush(), even
\* when a flush begins after the first of them has accepted.
RootsAlike ==
  \A f \in Frames, r, q \in Roots :
     ~(handed[f][r] = "queue" /\ handed[f][q] = "flush")

\* "All requestNo <= 5 must be flushed" (PipelineContextImpl.h:423): no root is
\* queued a frame of a request at or before the last one sent when the last
\* flush ended, whenever that frame is sent.
FlushedRangeNotQueued ==
  [][\A f \in Frames, r \in Roots :
        /\ handed[f][r] # "queue" /\ handed'[f][r] = "queue"
        /\ lastFlushed # 0
        => RequestNo[f] > RequestNo[lastFlushed]]_vars

\* A node gets a frame when every one of its predecessors has dispatched it,
\* and it gets it once.  Dispatcher.cpp:380-397.
JoinWaitsForAll ==
  \A f \in Frames, n \in Nodes \ Roots : handed[f][n] # "none" =>
     /\ mInAdjReqCnt[f][n] = Cardinality(In(n))
     /\ \A m \in In(n) : st[f][m] \in {"out", "done"} /\ n \notin left[f][m]

InFlight(f) == f \in mRequest \/ (HeldBySender(f) /\ sender = "register")

\* A frame that is no longer in flight has left every node; unless a node has
\* rejected it, it has been through all of them and is in no node's list, so
\* that waitUntilNodeDrained() does not wait for it.
GoneMeansThrough ==
  \A f \in 1 .. frame : ~InFlight(f) =>
     \A n \in Nodes :
        /\ st[f][n] \in {"none", "done"}
        /\ f \notin failed => st[f][n] = "done" /\ f \notin mRequestMap[n]

-----------------------------------------------------------------------------
(* Liveness *)

\* A flush ends, whatever the sender does meanwhile.
FlushCompletes == mIsFlushing ~> ~mIsFlushing

\* Every registered frame is released, flushed or not, rejected or not.
EveryFrameReleased == \A f \in Frames : f \in mRequest ~> f \notin mRequest

-----------------------------------------------------------------------------
(* The invariant from which the safety properties follow *)

Present(f, n) == st[f][n] \notin {"none", "done"}

HalfSent == sender \in {"start", "pass"} /\ sendStatus = FRAME_SENDING

FlagsFollowFlusher ==
  /\ mIsFlushing <=> flusher # "idle"
  /\ mInFlush <=> flusher \in {"abort", "kick", "kicking", "sweep", "drain",
                               "endDispatcher"}
  /\ swept # {} => flusher \in {"sweep", "drain", "endDispatcher", "end"}

\* Once the flusher has had mKickLock, no frame is between two roots.
NoFrameBetweenRoots ==
  flusher \in {"kicking", "sweep", "drain", "endDispatcher", "end"} => ~HalfSent

\* The dispatcher hands a frame over as a reader of its mFlushLock, and never
\* normally while its flag is set.
HandOverIsRead ==
  \A f \in Frames, n \in Nodes : st[f][n] = "toQueue" =>
     ~mInFlush /\ \E m \in Nodes : visit[f][m] = n

SentIsRegistered ==
  sender \in {"barrier", "acquire", "start", "pass"} => frame \in mRequest

PresentIsRegistered ==
  \A f \in Frames, n \in Nodes : Present(f, n) => f \in mRequest

\* After abort(), every frame a node has, or is about to get, is aborted.
PresentIsAborted ==
  flusher \in {"kick", "kicking", "sweep", "drain", "endDispatcher", "end"} =>
     /\ \A f \in Frames, n \in Nodes : Present(f, n) => f \in aborted
     /\ HalfSent => frame \in aborted

FlushInv ==
  /\ TypeOK
  /\ FlagsFollowFlusher
  /\ NoFrameBetweenRoots
  /\ HandOverIsRead
  /\ SentIsRegistered
  /\ PresentIsRegistered
  /\ PresentIsAborted
  /\ QuietAfterDrain

\* What follows is about one frame on its way through the graph.
Fresh ==
  \A f \in Frames : f > frame \/ (f = frame /\ sender = "register") =>
     \A n \in Nodes : st[f][n] = "none" /\ handed[f][n] = "none"

\* A frame that a node was not given has not come to it, or is being given to
\* it, or was rejected by it; roots are given it, or not, in one step.
StandsAsHanded ==
  \A f \in Frames, n \in Nodes :
     IF handed[f][n] = "none"
     THEN \/ st[f][n] = "none"
          \/ n \notin Roots /\ (st[f][n] = "done" => f \in failed) /\ st[f][n] \in {"toQueue", "done"}
     ELSE st[f][n] \in {"queued", "flushing", "out", "done"}

FollowsEdges ==
  \A f \in Frames, n \in Nodes :
     /\ left[f][n] \subseteq Out(n)
     /\ left[f][n] # {} => st[f][n] = "out"
     /\ visit[f][n] \in Out(n) \cup {NoNode}

HasDispatched(f, n, m) ==
  /\ handed[f][n] # "none"
  /\ st[f][n] \in {"out", "done"}
  /\ m \notin left[f][n]

\* The predecessors of m that mInAdjReqCnt counts.
Came(f, m) == {n \in In(m) : HasDispatched(f, n, m)}

JoinsCount ==
  \A f \in Frames, m \in Nodes :
     /\ mInAdjReqCnt[f][m] = Cardinality(Came(f, m))
     /\ m \notin Roots => (st[f][m] # "none" <=> Came(f, m) = In(m))

\* While the sender is at the roots: those it has still to serve have not been
\* given the frame, and the others as sendStatus says.  A frame once flushed at
\* a root is flushed at all of them in the same pass.
RootsAsSent ==
  sender \in {"barrier", "acquire", "start", "pass"} =>
     /\ \A r \in remaining : r # calling => handed[frame][r] = "none"
     /\ (sender \in {"barrier", "acquire"} \/ sendStatus = NotSent) => remaining = Roots
     /\ sendStatus = FRAME_SENDING =>
           \A r \in Roots \ remaining : handed[frame][r] = "queue"
     /\ sendStatus = FRAME_FLUSHING =>
           \A r \in Roots \ remaining : handed[frame][r] = "flush"

FlushedInOnePass ==
  sender \in {"start", "pass"} =>
     /\ (sendStatus = FRAME_FLUSHING \/ calling # NoNode) =>
           sender = "pass" /\ isNeededToFlush(frame) /\ sendStatus # FRAME_SENDING
     /\ sender = "pass" /\ isNeededToFlush(frame) /\ sendStatus # FRAME_SENDING =>
           todo = remaining

CallingIsFlushed ==
  calling # NoNode => sender = "pass" /\ handed[frame][calling] = "flush"

RootsReached ==
  \A f \in 1 .. frame : ~HeldBySender(f) /\ f \notin failed =>
     \A r \in Roots : st[f][r] # "none"

\* A frame in flight that was flushed somewhere will be flushed everywhere.
FlushCovers ==
  \A f \in mRequest, n \in Nodes :
     handed[f][n] = "flush" => f \in aborted \/ flusher = "abort"

ReleasedIsUnlisted ==
  \A f \in Frames, n \in Nodes :
     handed[f][n] # "none" /\ st[f][n] \in {"out", "done"} => f \notin mRequestMap[n]

GraphInv ==
  /\ Fresh
  /\ StandsAsHanded
  /\ FollowsEdges
  /\ JoinsCount
  /\ RootsAsSent
  /\ FlushedInOnePass
  /\ CallingIsFlushed
  /\ RootsReached
  /\ FlushCovers
  /\ ReleasedIsUnlisted
  /\ RootsAlike
  /\ FlushIsContagious

IInv == FlushInv /\ GraphInv
====
