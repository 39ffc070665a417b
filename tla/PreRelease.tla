----------------------------- MODULE PreRelease -----------------------------
(***************************************************************************)
(* Pre-release of capture requests (PreReleaseRequest.cpp): a flush does   *)
(* not wait for the pictures the JPEG node has yet to encode.  The node    *)
(* registers them with the PreReleaseRequest the flush created, whose      *)
(* thread waits in the background until every user has released the        *)
(* buffers registered, and PreReleaseRequestMgr tells the app of each      *)
(* request that has finished, pre-released or not.  What is registered are *)
(* the image buffers of one node of the frame, the one with the greatest   *)
(* NodeId: not the picture, if a node comes behind JpegNode.               *)
(*                                                                         *)
(* The locks with a step between taking and leaving them are modelled:     *)
(* the manager's mLock, and the mLock of each PreReleaseRequest, which its *)
(* thread holds except while it waits for start().  The manager's          *)
(* mRequestLock and mReqItemLock are held within a step.  mPreReleaseLock  *)
(* is held from BeginFlush to the end of the flush: there is one flush at  *)
(* a time.  Sessions without an image reader (mImgReaderID -1) take no     *)
(* part: they neither add captures nor notify of them.                     *)
(***************************************************************************)
EXTENDS Integers, Sequences, SequencesExt, FiniteSets

JpegNode == 35   \* eNODEID_JpegNode

CONSTANTS
  NumRequests,   \* captures, submitted in the order of their numbers
  MaxFlushes,    \* flushes, each with a PreReleaseRequest
  NodesOf,       \* of each capture's frame, JpegNode and the image nodes with a greater NodeId
  Bad,           \* <<capture, node>>: an output of it ends in STREAM_BUFFER_STATUS::ERROR
  MAX_PRE_RELEASE_PIPELINE,  \* background pipelines before a session must wait
  SlowFlushes    \* flushes that may outlast the 60 s of waitUntilDrained()

ASSUME NumRequestsAssumption == NumRequests \in Nat
ASSUME MaxFlushesAssumption == MaxFlushes \in 0..10   \* MAX_PRE_RELEASE
ASSUME NodesAssumption ==
  \A r \in 1..NumRequests : /\ NodesOf[r] \subseteq Nat /\ JpegNode \in NodesOf[r]
                            /\ \E n \in NodesOf[r] : \A m \in NodesOf[r] : m <= n
ASSUME BadAssumption == Bad \subseteq (1..NumRequests) \X Nat
ASSUME PipelineAssumption == MAX_PRE_RELEASE_PIPELINE \in Nat \ {0}
ASSUME TimeOutAssumption == SlowFlushes \subseteq 1..MaxFlushes

Requests == 1..NumRequests
Uids     == 1..MaxFlushes
\* The last node of the frame's map, which is sorted by NodeId.
LastNode(r) == Max(NodesOf[r])

VARIABLES
  frame,         \* of each request: "none", "running", "preReleased",
                 \* "left" its context completed, "released" from it by applyPreRelease()
  registered,    \* requests a PreReleaseRequest has taken
  released,      \* of each request: the nodes whose image buffers all users have released
  preReleaseBuffers,     \* of each: the nodes whose buffers are registered
  session,       \* "open", "flushing", "starting", "closed", "waiting"
  mPreReleaseUid,
  mLock,         \* request whose handler holds the manager's mLock, or 0
  notifying,     \* it is in notifyCaptureCompleted(), with this count; or -1
  mvInFlightRequests,    \* <<[frameNo, bDone]>>
  mvPendingRequests,
  mReqItems,     \* <<[frameNo, uid, status, requestStatus]>>
  mPreReleaseCnt,
  mbNeedWaitPreRelease,
  thread,        \* of each PreReleaseRequest
  mbPreRelease,
  mPreReleaseRequests,   \* requests registered with each and still to be drained
  finishing,     \* the one its thread has drained last
  requestStatus, \* local of its waitUntilDrained()
  timedOut,      \* PreReleaseRequests whose wait for start() has timed out
  reports        \* <<[frameNo, status]>>: onRequestFinishedCB() calls

pipeVars  == <<frame, registered, released, preReleaseBuffers>>
queueVars == <<mvInFlightRequests, mvPendingRequests>>
itemVars  == <<mReqItems, mPreReleaseCnt, reports>>
lockVars  == <<mLock, notifying>>
flushVars == <<session, mPreReleaseUid, mbNeedWaitPreRelease>>
drainVars == <<thread, mbPreRelease, mPreReleaseRequests, finishing, requestStatus, timedOut>>
vars == <<pipeVars, queueVars, itemVars, lockVars, flushVars, drainVars>>

InFlightItems == [frameNo : Requests, bDone : BOOLEAN]
ReqItems == [frameNo : Requests, uid : Uids \cup {0},
             status : {"RELEASE", "PRERELEASE"},
             requestStatus : {"UNKNOWN", "SUCCESS", "ERROR"}]
Reports == [frameNo : Requests, status : {"UNKNOWN", "SUCCESS", "ERROR"}]

TypeOK ==
  /\ frame \in [Requests -> {"none", "running", "preReleased", "left", "released"}]
  /\ registered \in SUBSET Requests
  /\ released \in [Requests -> SUBSET Nat]
  /\ preReleaseBuffers \in [Requests -> SUBSET Nat]
  /\ session \in {"open", "flushing", "starting", "closed", "waiting"}
  /\ mPreReleaseUid \in 0..MaxFlushes
  /\ mLock \in Requests \cup {0}
  /\ notifying \in Int
  /\ mvInFlightRequests \in Seq(InFlightItems)
  /\ mvPendingRequests \in SUBSET Requests
  /\ mReqItems \in Seq(ReqItems)
  /\ mPreReleaseCnt \in Int
  /\ mbNeedWaitPreRelease \in BOOLEAN
  /\ thread \in [Uids -> {"none", "waiting", "woken", "draining", "finishing",
                          "drained", "ended", "gone"}]
  /\ mbPreRelease \in [Uids -> BOOLEAN]
  /\ mPreReleaseRequests \in [Uids -> SUBSET Requests]
  /\ finishing \in [Uids -> Requests \cup {0}]
  /\ requestStatus \in [Uids -> {"SUCCESS", "ERROR"}]
  /\ timedOut \in SUBSET Uids
  /\ reports \in Seq(Reports)

Init ==
  /\ frame = [r \in Requests |-> "none"]
  /\ registered = {}
  /\ released = [r \in Requests |-> {}]
  /\ preReleaseBuffers = [r \in Requests |-> {}]
  /\ session = "open"
  /\ mPreReleaseUid = 0
  /\ mLock = 0
  /\ notifying = -1
  /\ mvInFlightRequests = <<>>
  /\ mvPendingRequests = {}
  /\ mReqItems = <<>>
  /\ mPreReleaseCnt = 0
  /\ mbNeedWaitPreRelease = FALSE
  /\ thread = [u \in Uids |-> "none"]
  /\ mbPreRelease = [u \in Uids |-> FALSE]
  /\ mPreReleaseRequests = [u \in Uids |-> {}]
  /\ finishing = [u \in Uids |-> 0]
  /\ requestStatus = [u \in Uids |-> "SUCCESS"]
  /\ timedOut = {}
  /\ reports = <<>>
-----------------------------------------------------------------------------
(***************************************************************************)
(* What the app is told, and the queues the manager keeps for it.          *)
(***************************************************************************)
FrameNos(q) == {q[i].frameNo : i \in DOMAIN q}
\* mBufferStatus of a frame that has completed: what JpegNode released.
OwnStatus(r) == IF JpegNode \in released[r] /\ <<r, JpegNode>> \in Bad
                THEN "ERROR" ELSE "SUCCESS"
Report(item) == [frameNo |-> item.frameNo, status |-> item.requestStatus]
ReqItem(r, u, s, rs) == [frameNo |-> r, uid |-> u, status |-> s, requestStatus |-> rs]
\* An item of a request that has ended and only waits for the ones before it.
EndedItem(u) == [x \in InFlightItems |-> ReqItem(x.frameNo, u, "RELEASE", OwnStatus(x.frameNo))]
EndedItems(q, u) == [i \in DOMAIN q |-> EndedItem(u)[q[i]]]

\* The requests at the head of the in-flight queue that have ended.
DonePrefix(q) ==
  SubSeq(q, 1, Max({n \in 0..Len(q) : \A i \in 1..n : q[i].bDone}))
Rest(q, n) == SubSeq(q, n + 1, Len(q))

\* q without the entry of r, and the entries of q of the requests in S.
Without(q, r) ==
  LET at == {i \in DOMAIN q : q[i].frameNo = r}
  IN IF at = {} THEN q ELSE RemoveAt(q, Min(at))
EntriesOf(q, S) ==
  LET kept[n \in 0..Len(q)] ==
        IF n = 0 THEN <<>>
        ELSE IF q[n].frameNo \in S THEN Append(kept[n - 1], q[n]) ELSE kept[n - 1]
  IN kept[Len(q)]

\* The app is called at once, unless a pre-released request is in the way.
InItems == {r \in Requests : \E i \in DOMAIN mReqItems :
             mReqItems[i].frameNo = r /\ mReqItems[i].uid = mPreReleaseUid}
\* Wrong variant: whatever mReqItems holds.
HandOutAtOnce(q) ==
  /\ reports' = reports \o [i \in DOMAIN q |-> Report(EndedItems(q, 0)[i])]
  /\ UNCHANGED <<mReqItems, mPreReleaseCnt>>
HandOut(q) ==
  /\ UNCHANGED mPreReleaseCnt
  /\ IF mReqItems = <<>>
     THEN /\ reports' = reports \o [i \in DOMAIN q |-> Report(EndedItems(q, 0)[i])]
          /\ UNCHANGED mReqItems
     ELSE /\ mReqItems' = mReqItems \o
                EndedItems(EntriesOf(q, Requests \ InItems), 0)
          /\ UNCHANGED reports
-----------------------------------------------------------------------------
(***************************************************************************)
(* A capture: the session adds it and queues its frame, the frame          *)
(* completes, or leaves its context pre-released.                          *)
(***************************************************************************)
AddCaptureRequest(r) ==
  /\ session = "open"
  /\ frame[r] = "none" /\ \A q \in 1..(r - 1) : frame[q] # "none"
  /\ frame' = [frame EXCEPT ![r] = "running"]
  /\ mvInFlightRequests' = Append(mvInFlightRequests, [frameNo |-> r, bDone |-> FALSE])
  /\ UNCHANGED <<registered, released, preReleaseBuffers, mvPendingRequests, itemVars,
                 lockVars, flushVars, drainVars>>

InContext == {"running", "preReleased"}

\* A node behind JpegNode releases its buffers.
ReleaseBehind(r) ==
  \E n \in NodesOf[r] \ {JpegNode} :
    /\ frame[r] \in InContext /\ n \notin released[r]
    /\ released' = [released EXCEPT ![r] = @ \cup {n}]
    /\ UNCHANGED <<frame, registered, preReleaseBuffers, queueVars, itemVars, lockVars,
                   flushVars, drainVars>>
BehindReleased(r) == NodesOf[r] \ {JpegNode} \subseteq released[r]

\* notifyCaptureCompleted(), up to the return of addCompletedReqAndCheckCbCnt().
\* Every node has released its buffers, or JpegNode has pre-released them.
MarkDone(q, r) ==
  [i \in DOMAIN q |-> [q[i] EXCEPT !.bDone = @ \/ q[i].frameNo = r]]
CaptureCompleted(r) ==
  /\ frame[r] \in InContext /\ BehindReleased(r)
  /\ released' = [released EXCEPT ![r] = IF frame[r] = "running" THEN @ \cup {JpegNode} ELSE @]
  /\ mLock = 0 /\ mLock' = r
  /\ mvInFlightRequests' = MarkDone(mvInFlightRequests, r)
  /\ notifying' = Len(DonePrefix(mvInFlightRequests'))
  /\ mvPendingRequests' = IF r \in FrameNos(mvInFlightRequests)
                          THEN mvPendingRequests ELSE mvPendingRequests \cup {r}
  /\ UNCHANGED <<frame, registered, preReleaseBuffers, itemVars, flushVars, drainVars>>

\* The rest of it; then the frame leaves.
CallBack ==
  /\ notifying >= 0
  /\ HandOut(SubSeq(mvInFlightRequests, 1, notifying))
  /\ mvInFlightRequests' = Rest(mvInFlightRequests, notifying)
  /\ mLock' = 0 /\ notifying' = -1
  /\ frame' = [frame EXCEPT ![mLock] = "left"]
  /\ UNCHANGED <<registered, released, preReleaseBuffers, mvPendingRequests, flushVars,
                 drainVars>>

\* applyPreRelease() was the last to let go of the frame: nobody is notified.
LeavePreReleased(r) ==
  /\ frame[r] = "preReleased" /\ BehindReleased(r) /\ mLock # r
  /\ frame' = [frame EXCEPT ![r] = "released"]
  /\ UNCHANGED <<registered, released, preReleaseBuffers, queueVars, itemVars, lockVars,
                 flushVars, drainVars>>

\* The last user of a pre-released request's picture releases it.
Encoded(r) ==
  /\ r \in registered /\ JpegNode \notin released[r] /\ mLock # r
  /\ released' = [released EXCEPT ![r] = @ \cup {JpegNode}]
  /\ UNCHANGED <<frame, registered, preReleaseBuffers, queueVars, itemVars, lockVars,
                 flushVars, drainVars>>
-----------------------------------------------------------------------------
(***************************************************************************)
(* A flush: the JPEG node registers what it has yet to encode.             *)
(***************************************************************************)
Current == mPreReleaseUid
LockFree(u) == thread[u] \in {"waiting", "ended"}

BeginFlush ==
  /\ session = "open" /\ mPreReleaseUid < MaxFlushes /\ mLock = 0
  /\ mPreReleaseUid' = mPreReleaseUid + 1
  /\ thread' = [thread EXCEPT ![mPreReleaseUid + 1] = "waiting"]
  /\ session' = "flushing"
  /\ UNCHANGED <<pipeVars, queueVars, itemVars, lockVars, mbNeedWaitPreRelease, mbPreRelease,
                 mPreReleaseRequests, finishing, requestStatus, timedOut>>

\* PreReleaseRequestMgr::registerStreamBuffer() takes mLock, and then waits
\* for the mLock of the PreReleaseRequest unless that is destroyed.
RegisterCapture(r) ==
  /\ session = "flushing"
  /\ frame[r] = "running" /\ mLock = 0
  /\ frame' = [frame EXCEPT ![r] = "preReleased"]
  /\ IF thread[Current] = "gone" THEN UNCHANGED mLock ELSE mLock' = r
  /\ UNCHANGED <<registered, released, preReleaseBuffers, queueVars, itemVars, notifying,
                 flushVars, drainVars>>

\* addPreReleaseRequest(), then the requests behind it that have ended.
\* Wrong variant: what has ended behind it waits for the next completion.
AddOnlyPreReleased(r, u) ==
  /\ mReqItems' = Append(mReqItems, ReqItem(r, u, "PRERELEASE", "UNKNOWN"))
  /\ mvInFlightRequests' = Without(mvInFlightRequests, r)
  /\ mPreReleaseCnt' = mPreReleaseCnt + 1
  /\ UNCHANGED <<mvPendingRequests, reports>>
AddPreReleaseRequest(r, u) ==
  LET q == Without(mvInFlightRequests, r)
      p == DonePrefix(q)
  IN /\ mReqItems' = Append(mReqItems, ReqItem(r, u, "PRERELEASE", "UNKNOWN")) \o EndedItems(p, u)
     /\ mvInFlightRequests' = Rest(q, Len(p))
     /\ mPreReleaseCnt' = mPreReleaseCnt + 1
     /\ UNCHANGED <<mvPendingRequests, reports>>

\* PreReleaseRequest::registerStreamBuffer(): too late once it has started.
\* Each node of the frame replaces the buffers of the one before it, and a
\* buffer that all users have released is not to be had.
RegisterStreamBuffer ==
  /\ mLock # 0 /\ notifying = -1 /\ LockFree(Current)
  /\ mLock' = 0
  /\ IF mbPreRelease[Current]
     THEN UNCHANGED <<registered, preReleaseBuffers, queueVars, itemVars, mPreReleaseRequests>>
     ELSE /\ registered' = registered \cup {mLock}
          /\ mPreReleaseRequests' = [mPreReleaseRequests EXCEPT ![Current] = @ \cup {mLock}]
          /\ preReleaseBuffers' =
               [preReleaseBuffers EXCEPT ![mLock] = {LastNode(mLock)} \ released[mLock]]
          /\ AddPreReleaseRequest(mLock, Current)
  /\ UNCHANGED <<frame, released, notifying, flushVars, thread, mbPreRelease, finishing,
                 requestStatus, timedOut>>

\* endFlush(): the context is drained.  A PreReleaseRequest that is destroyed
\* cannot be started.
EndFlush ==
  /\ session = "flushing"
  /\ \A r \in Requests : frame[r] \notin InContext
  /\ session' = IF thread[Current] = "gone" THEN "open" ELSE "starting"
  /\ UNCHANGED <<pipeVars, queueVars, itemVars, lockVars, mPreReleaseUid,
                 mbNeedWaitPreRelease, drainVars>>

\* checkInFlightRequest() hands out what completed before it was added, and
\* forgets the rest.
CheckInFlightRequest ==
  /\ HandOut(EntriesOf(mvInFlightRequests, mvPendingRequests))
  /\ mvInFlightRequests' = <<>> /\ mvPendingRequests' = {}

Start ==
  /\ session = "starting" /\ LockFree(Current)
  /\ mbPreRelease' = [mbPreRelease EXCEPT ![Current] = TRUE]
  /\ CheckInFlightRequest
  /\ session' = "open"
  /\ UNCHANGED <<pipeVars, lockVars, mPreReleaseUid, mbNeedWaitPreRelease, thread,
                 mPreReleaseRequests, finishing, requestStatus, timedOut>>
-----------------------------------------------------------------------------
(***************************************************************************)
(* The thread of a PreReleaseRequest: waitUntilDrained().                  *)
(***************************************************************************)
Leave(u) ==
  thread' = [thread EXCEPT ![u] = IF mPreReleaseRequests[u] = {} THEN "ended" ELSE "woken"]

WakeUp(u) ==
  /\ thread[u] = "waiting" /\ mbPreRelease[u]
  /\ Leave(u)
  /\ UNCHANGED <<pipeVars, queueVars, itemVars, lockVars, flushVars, mbPreRelease,
                 mPreReleaseRequests, finishing, requestStatus, timedOut>>

WaitTimesOut(u) ==
  /\ u \in SlowFlushes
  /\ thread[u] = "waiting" /\ ~mbPreRelease[u]
  /\ mbPreRelease' = [mbPreRelease EXCEPT ![u] = TRUE]
  /\ timedOut' = timedOut \cup {u}
  /\ Leave(u)
  /\ UNCHANGED <<pipeVars, queueVars, itemVars, lockVars, flushVars,
                 mPreReleaseRequests, finishing, requestStatus>>

\* setPreReleaseRequest(this), and setPreReleaseRequest(nullptr) at the end.
SetPreReleaseRequest(u) ==
  /\ thread[u] \in {"woken", "drained"} /\ mLock = 0
  /\ thread' = [thread EXCEPT ![u] = IF @ = "woken" THEN "draining" ELSE "ended"]
  /\ UNCHANGED <<pipeVars, queueVars, itemVars, lockVars, flushVars, mbPreRelease,
                 mPreReleaseRequests, finishing, requestStatus, timedOut>>

\* waitUserReleaseStatus() of every registered buffer of the first request returns.
DrainedUpTo(u, r) == \A q \in mPreReleaseRequests[u] : r <= q
HasError(r) == \E n \in preReleaseBuffers[r] : <<r, n>> \in Bad
\* Wrong variant: the buffers are not waited for.
DrainUnwaited(u) ==
  \E r \in mPreReleaseRequests[u] :
    /\ thread[u] = "draining" /\ DrainedUpTo(u, r)
    /\ mPreReleaseRequests' = [mPreReleaseRequests EXCEPT ![u] = @ \ {r}]
    /\ finishing' = [finishing EXCEPT ![u] = r]
    /\ requestStatus' = [requestStatus EXCEPT ![u] = IF HasError(r) THEN "ERROR" ELSE @]
    /\ thread' = [thread EXCEPT ![u] = "finishing"]
    /\ UNCHANGED <<pipeVars, queueVars, itemVars, lockVars, flushVars, mbPreRelease, timedOut>>
Drain(u) ==
  \E r \in mPreReleaseRequests[u] :
    /\ thread[u] = "draining" /\ DrainedUpTo(u, r)
    /\ preReleaseBuffers[r] \subseteq released[r]
    /\ mPreReleaseRequests' = [mPreReleaseRequests EXCEPT ![u] = @ \ {r}]
    /\ finishing' = [finishing EXCEPT ![u] = r]
    /\ requestStatus' = [requestStatus EXCEPT ![u] = IF HasError(r) THEN "ERROR" ELSE @]
    /\ thread' = [thread EXCEPT ![u] = "finishing"]
    /\ UNCHANGED <<pipeVars, queueVars, itemVars, lockVars, flushVars, mbPreRelease, timedOut>>

\* setRequestFinished(): its item, and then the head of the queue.
\* Wrong variant: the item keeps its requestStatus.
FinishedUnmarked(u) ==
  [i \in DOMAIN mReqItems |->
     IF mReqItems[i].frameNo = finishing[u] /\ mReqItems[i].uid = u
     THEN [mReqItems[i] EXCEPT !.status = "RELEASE"] ELSE mReqItems[i]]
Finished(u) ==
  LET mine == {i \in DOMAIN mReqItems : mReqItems[i].frameNo = finishing[u]
                                          /\ mReqItems[i].uid = u}
  IN IF mine = {} THEN mReqItems
     ELSE [mReqItems EXCEPT ![Min(mine)] = ReqItem(finishing[u], u, "RELEASE", requestStatus[u])]
\* Wrong variant: only the item at the head.
FirstReleased(q) ==
  IF q # <<>> /\ q[1].status = "RELEASE" THEN SubSeq(q, 1, 1) ELSE <<>>
ReleasedPrefix(q) ==
  SubSeq(q, 1, Max({n \in 0..Len(q) : \A i \in 1..n : q[i].status = "RELEASE"}))

SetRequestFinished(u) ==
  /\ thread[u] = "finishing" /\ mLock = 0
  /\ LET q == Finished(u)
         p == ReleasedPrefix(q)
     IN /\ mReqItems' = Rest(q, Len(p))
        /\ reports' = reports \o [i \in DOMAIN p |-> Report(p[i])]
        /\ mPreReleaseCnt' = mPreReleaseCnt - (IF q = mReqItems THEN 0 ELSE 1)
  /\ finishing' = [finishing EXCEPT ![u] = 0]
  /\ thread' = [thread EXCEPT ![u] =
                  IF mPreReleaseRequests[u] = {} THEN "drained" ELSE "draining"]
  /\ UNCHANGED <<pipeVars, queueVars, lockVars, flushVars, mbPreRelease,
                 mPreReleaseRequests, requestStatus, timedOut>>

\* The last reference goes: ~PreReleaseRequest() lets a session in that waits.
\* Wrong variant: the session that waits is not woken.
DestroySilently(u) ==
  /\ thread[u] = "ended"
  /\ u = Current => session # "starting" /\ (mLock = 0 \/ notifying >= 0)
  /\ thread' = [thread EXCEPT ![u] = "gone"]
  /\ UNCHANGED <<pipeVars, queueVars, itemVars, lockVars, flushVars, mbPreRelease,
                 mPreReleaseRequests, finishing, requestStatus, timedOut>>
Destroy(u) ==
  /\ thread[u] = "ended"
  /\ u = Current => session # "starting" /\ (mLock = 0 \/ notifying >= 0)
  /\ thread' = [thread EXCEPT ![u] = "gone"]
  /\ mbNeedWaitPreRelease' = FALSE
  /\ session' = IF mbNeedWaitPreRelease THEN "open" ELSE session
  /\ UNCHANGED <<pipeVars, queueVars, itemVars, lockVars, mPreReleaseUid, mbPreRelease,
                 mPreReleaseRequests, finishing, requestStatus, timedOut>>
-----------------------------------------------------------------------------
(***************************************************************************)
(* The session closes, and the next one configures the service.            *)
(***************************************************************************)
mPreReleaseCount == Cardinality({u \in Uids : thread[u] \notin {"none", "gone"}})

CloseSession ==
  /\ session = "open" /\ \A r \in Requests : frame[r] \notin InContext
  /\ session' = "closed"
  /\ UNCHANGED <<pipeVars, queueVars, itemVars, lockVars, mPreReleaseUid,
                 mbNeedWaitPreRelease, drainVars>>

SetImageReaderID ==
  /\ session = "closed"
  /\ IF mPreReleaseCount >= MAX_PRE_RELEASE_PIPELINE
     THEN session' = "waiting" /\ mbNeedWaitPreRelease' = TRUE
     ELSE session' = "open" /\ UNCHANGED mbNeedWaitPreRelease
  /\ UNCHANGED <<pipeVars, queueVars, itemVars, lockVars, mPreReleaseUid, drainVars>>
-----------------------------------------------------------------------------
Thread(u) == WakeUp(u) \/ SetPreReleaseRequest(u) \/ Drain(u) \/ SetRequestFinished(u) \/ Destroy(u)
Handler == CallBack \/ RegisterStreamBuffer
Session == EndFlush \/ Start \/ SetImageReaderID
Leaves(r) == CaptureCompleted(r) \/ LeavePreReleased(r)
Releases(r) == ReleaseBehind(r) \/ Encoded(r)

Next ==
  \/ Handler \/ Session \/ BeginFlush \/ CloseSession
  \/ \E r \in Requests : AddCaptureRequest(r) \/ RegisterCapture(r) \/ Leaves(r) \/ Releases(r)
  \/ \E u \in Uids : Thread(u) \/ WaitTimesOut(u)

Spec == Init /\ [][Next]_vars

\* Captures, flushes and the end of a session are the app's choice; frames,
\* handlers, threads and a call of the session that has begun go on.
FairSpec ==
  /\ Spec
  /\ WF_vars(Handler) /\ WF_vars(Session)
  /\ \A r \in Requests : WF_vars(Leaves(r)) /\ WF_vars(Releases(r))
  /\ \A u \in Uids : WF_vars(Thread(u))
-----------------------------------------------------------------------------
\* Pre-released, but no PreReleaseRequest has taken it: its flush timed out.
Refused(r) == frame[r] = "released" /\ r \notin registered
Told(r) == r \in FrameNos(reports)

\* The app is told of a capture when its frame has completed, or when every user
\* has released what registration kept of a pre-released one: the buffers of
\* the last node of its frame, so the picture only if that is JpegNode.
ToldWhenDone == \A r \in Requests : Told(r) =>
                   IF r \in registered THEN LastNode(r) \in released[r] ELSE frame[r] = "left"

\* What a report looks at.  Of a completed capture it is the picture, if JpegNode
\* had released it; of a pre-released one, what registration kept: the picture, if
\* JpegNode is the last node of the frame, or else that node's buffers, if
\* they were still to be had.
Checked(r) == IF r \in registered
              THEN preReleaseBuffers[r] \cup ({LastNode(r)} \cap {JpegNode})
              ELSE released[r] \cap {JpegNode}
Failed(r) == \E n \in Checked(r) : <<r, n>> \in Bad

\* A failure in what a report looks at is never reported as a success.
FailureTold == \A i \in DOMAIN reports :
                 Failed(reports[i].frameNo) => reports[i].status = "ERROR"

\* What the app would want of a pre-released capture: it is told when the picture
\* is there, and never of success if the picture failed.  A node behind JpegNode
\* breaks both, so no run checks them.
PictureThere == \A r \in registered : Told(r) => JpegNode \in released[r]
PictureFailureTold == \A i \in DOMAIN reports :
  LET r == reports[i].frameNo
  IN r \in registered /\ <<r, JpegNode>> \in Bad => reports[i].status = "ERROR"

\* A capture is with the manager, or with a PreReleaseRequest's thread, until
\* the app is told, whatever the flushes in between.
NoneForgotten == \A r \in Requests :
  \/ frame[r] = "none" \/ Told(r) \/ \E q \in 1..r : Refused(q)
  \/ r \in FrameNos(mvInFlightRequests) \/ r \in FrameNos(mReqItems)

\* Captures that no flush pre-released are reported in the order they were taken.
OthersInOrder == \A i, j \in DOMAIN reports :
  i < j /\ reports[i].frameNo \notin registered /\ reports[j].frameNo \notin registered
    => reports[i].frameNo < reports[j].frameNo

\* The deadlock a flush of more than 60 s can end in: registerStreamBuffer()
\* holds the manager's mLock and waits for the mLock of a PreReleaseRequest
\* whose thread, no longer waiting for start(), waits for the manager's.
Stuck == \E u \in timedOut : /\ mLock # 0 /\ notifying = -1
                            /\ thread[u] \in {"woken", "finishing", "drained"}

\* Each capture taken so far is told of, or it comes after one whose flush
\* timed out, which the queue never gets past.
AllTold == \A r \in Requests :
             frame[r] # "none" => Told(r) \/ \E q \in 1..r : Refused(q)

\* The app is told of every capture in the end, whichever completes behind a
\* pre-released one and whenever that is drained (HandOut, ReleasedPrefix),
\* unless a flush that outlasted the wait for start() got Stuck.
EveryCaptureTold == <>[](AllTold \/ Stuck)

\* A session that must wait for the pipelines in the background is let in when
\* one of their PreReleaseRequests is destroyed.
SessionOpens == []<>(session # "waiting" \/ Stuck)
-----------------------------------------------------------------------------
(***************************************************************************)
(* What every step keeps, and the four invariants above rest on.           *)
(***************************************************************************)
Completing(r) == frame[r] = "left" \/ (r = mLock /\ notifying >= 0)

\* Captures are taken in order; one a PreReleaseRequest has taken was pre-released.
FramesTaken ==
  /\ \A r \in Requests : frame[r] # "none" => \A q \in 1..r : frame[q] # "none"
  /\ \A r \in registered : frame[r] \notin {"none", "running"}
  /\ \A r \in Requests : JpegNode \in released[r] =>
       r \in registered \/ Completing(r)
  /\ session = "starting" => \A r \in Requests : frame[r] \notin InContext

\* Who holds mLock, and what notifyCaptureCompleted() has counted: the entries
\* at the head that have ended, whatever is queued behind them meanwhile.
LockHolder ==
  /\ mLock # 0 => frame[mLock] \in InContext
  /\ mLock # 0 /\ notifying = -1 => frame[mLock] = "preReleased" /\ mLock \notin registered
  /\ notifying \in -1..Len(mvInFlightRequests)
  /\ notifying >= 0 => mLock # 0
  /\ session \in {"flushing", "starting"} \/ (mLock # 0 /\ notifying = -1) => Current \in Uids
Counted ==
  LET n == IF notifying >= 0 THEN notifying ELSE 0
  IN /\ \A i \in 1..n : mvInFlightRequests[i].bDone
     /\ n < Len(mvInFlightRequests) => ~mvInFlightRequests[n + 1].bDone

\* An entry in flight is of a capture no PreReleaseRequest has, and is marked
\* once the capture has completed, or is just completing.
InFlightSound ==
  /\ \A x \in Range(mvInFlightRequests) :
       /\ frame[x.frameNo] # "none"
       /\ x.frameNo \notin registered
       /\ x.bDone <=> Completing(x.frameNo)
  /\ \A r \in mvPendingRequests : frame[r] # "none"
  /\ FrameNos(mvInFlightRequests) \cap mvPendingRequests = {}
  /\ FrameNos(mvInFlightRequests) \cap FrameNos(mReqItems) = {}

\* What registration keeps is of the last node, and has the picture if that is JpegNode.
RegisteredSound == \A r \in Requests :
  /\ preReleaseBuffers[r] \subseteq {LastNode(r)}
  /\ r \in registered =>
       LastNode(r) \in preReleaseBuffers[r] \/ (LastNode(r) # JpegNode /\ LastNode(r) \in released[r])

\* The app may be told of r.
Finishable(r) == IF r \in registered THEN LastNode(r) \in released[r] ELSE frame[r] = "left"
ItemsSound == \A x \in Range(mReqItems) :
  /\ x.status = "PRERELEASE" => x.frameNo \in registered
  /\ x.status = "RELEASE" =>
       Finishable(x.frameNo) /\ (Failed(x.frameNo) => x.requestStatus = "ERROR")

\* What a thread has drained is registered, released, and its failure noted.
DrainSound == \A u \in Uids :
  /\ mPreReleaseRequests[u] \subseteq registered
  /\ \A r \in Requests : r = finishing[u] =>
       r \in registered /\ Finishable(r) /\ (Failed(r) => requestStatus[u] = "ERROR")

\* The reports, the items behind them and the entries behind those are in the
\* order of the captures, the ones in S aside.
InOrder(q, S) == \A i, j \in DOMAIN q :
  i < j /\ q[i].frameNo \notin S /\ q[j].frameNo \notin S => q[i].frameNo < q[j].frameNo
Below(A, B, S) == \A a \in A \ S, b \in B \ S : a < b
QueuesInOrder ==
  /\ InOrder(reports, registered)
  /\ InOrder(mReqItems, registered)
  /\ InOrder(mvInFlightRequests, registered)
  /\ Below(FrameNos(reports), FrameNos(mReqItems), registered)
  /\ Below(FrameNos(reports), FrameNos(mvInFlightRequests), registered)
  /\ Below(FrameNos(mReqItems), FrameNos(mvInFlightRequests), registered)

IInv ==
  /\ TypeOK /\ FramesTaken /\ LockHolder /\ Counted /\ InFlightSound
  /\ RegisteredSound /\ ItemsSound /\ DrainSound /\ QueuesInOrder
  /\ ToldWhenDone /\ FailureTold /\ NoneForgotten
=============================================================================
