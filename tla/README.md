# mtkcam3: specification and verification of the camera pipeline

This directory holds TLA+ specifications of the pipeline framework of mtkcam3,
the configurations that check them with TLC, and proofs of the properties that
matter most, checked by TLAPS.

The framework (`pipeline/pipeline`) carries every preview and capture request
of the camera HAL. A request becomes a *frame*; a frame runs through a directed
acyclic graph of *nodes* (P1, P2, JPEG, face detection, ...), each with threads
of its own; the buffers of the frame are shared by its nodes and go back to the
application or the HAL when all of their users have let go. Sending, flushing,
draining, launching and tearing down all happen concurrently with this, and a
lost buffer or a frame nobody waits for stops the camera. That is what the
modules here are about. Image processing, tuning decisions and the glue that
assembles configurations hold little protocol and are left aside.

## How the parts interact

    sessions of the pipeline model
        | submitFrame, flush, waitUntilDrained, last reference
        v
    PipelineContext --- InitFrameHandler (thread)        module InitFrames
        |      |
        |      +------- configureNodes() future,         module NodeLaunch
        |               NodeActor per node
        | sendFrame -> root nodes; Dispatcher -> next    module PipelineContext
        v              nodes; InFlightRequest
    nodes (BaseNode, P1, P2, ...), a thread or more each
        | getBuffer, markUserStatus, applyRelease,
        v applyPreRelease
    frame: PipelineBufferSetFrameControlImp              module FrameBuffers
        |  one UsersManager per buffer                   module UserWait
        |
        +--> PreReleaseRequestMgr, a thread per flush    module PreRelease
        |
        v
    HAL pools, reprocessor; results to the application:
    CallbackCore, CallbackRecommender (thread)           module CallbackCore

* **Pipeline context** (`PipelineContextImpl`). State: the flush flag with the
  first and the last flushed request number, the last number sent, `mKickLock`,
  `mFlushLock`, the init frame handler and the futures of the launch.
  Operations: submit, send to the roots, begin and end a flush, wait until
  drained, wait until configured, `onLastStrongRef()`. Hard: the sender, the
  flusher, the nodes' threads and the init frame thread meet in it under four
  locks. Correct when frames are sent once and in order, a flush leaves no node
  working on a queued frame, and every flush and drain ends.
* **Init frame handler**. State: the pending frames, the one being sent, active
  and exit flags. A thread sends what is submitted while the nodes configure;
  the frame that completes the count drains and destroys the handler. Hard: the
  hand-over between the two senders, drains by several threads, the context's
  lifetime. Correct when the order survives the hand-over and no waiter hangs.
* **Dispatcher and in-flight requests**. State: per frame the count of
  predecessors that came, the frames in flight in total and per node, an
  in-flush flag. Called by nodes, flusher and sender. Correct when a join gets a
  frame once and last, and a frame leaves the list when it has left the graph.
* **Node actors and launch**. State: one state machine per node, a list of
  futures by init order, a future for the whole. Hard: deferred futures run on
  the thread that waits, which may be any. Correct when orders are kept, an
  error is reported and nobody uses a node before the launch is over.
* **Frame buffer control**. State: the map of items, per node the IO sets it
  has still to release, the collected buffers, the counts of metadata left, the
  done flag. Operations: get, mark, apply a release or a pre-release, keep for
  reprocess, transfer, destroy. Three locks, and each buffer's users have a
  fourth. Correct when a buffer goes back once, after all users, to the right
  owner, and the frame is seen to be done.
* **Users manager**. State: users by category with their marks, reset. It says
  whether all users, all producers, or all users ahead of a node have let go. A
  background thread may sleep until all have released. Hard: the wait takes two
  locks, which the users take the other way round.
* **Pre-release manager**. State: captures in flight in the order they were
  taken, those that completed early, the items that wait for a pre-released one,
  a count of background pipelines; per flush a `PreReleaseRequest` with a thread
  and the buffers it waits for. A flush lets captures go whose pictures the JPEG
  node has yet to encode; the thread tells the app when the buffers registered
  are released. Hard: completion, flush, registration and threads meet under four
  locks, a flush may outlast the thread's patience, and what is registered is not
  always the picture. Correct when the app is told of each capture when what it
  waits for is there, as failed if that failed, and of every one.
* **Callback core**. State: the queue of results, a parcel per frame with what
  came and what went out, and the recommender's map of the same requests by
  status. The pipeline's threads queue; one thread takes the queue, updates,
  asks the recommender and calls the app; flushed requests are answered on their
  caller's thread. Hard: order per type over results that come in any order,
  errors whose kind depends on what is still to come, frames whose last event
  is another frame's. Correct when each kind goes out in order, truthfully, and
  no frame stays behind.

The other components, with what is modelled of each, and why the rest is not:


| component | sources | status | modules | what is modelled, or why not |
|---|---|---|---|---|
| Pipeline context: sending frames, flushing, draining | `pipeline/pipeline/PipelineContextImpl.cpp`, `pipeline/pipeline/PipelineContextImpl.h` … | partly | PipelineContext | sendFrameToRootNodes, flush and waitUntilDrained with the kick lock are modelled; the queries, the data callbacks, the debug dump and the stream and node configuration are not |
| Dispatcher of a pipeline context | `pipeline/pipeline/Dispatcher.cpp`, `pipeline/pipeline/Dispatcher.h` | partly | PipelineContext | onDispatchFrame with its in-flight registration, beginFlush and endFlush; the early callback and the debug dump are not modelled |
| In-flight frames of a context | `pipeline/pipeline/InFlightRequest.cpp`, `pipeline/pipeline/InFlightRequest.h` | partly | PipelineContext | registerRequest, removeRequest and the drain wait; the dump and the frame listeners' bookkeeping are not modelled |
| Init frame handler | `pipeline/pipeline/InitFrameHandler.cpp`, `pipeline/pipeline/InitFrameHandler.h` | modelled | InitFrames, FrameOrder | the sender's queue and in-flight bookkeeping, the handler thread, the drain waits and the destruction of the handler, with the context that owns it |
| Node actor and node launch | `pipeline/pipeline/NodeActorImpl.cpp` | modelled | NodeLaunch | init, config, reconfig, setNodeCallBack and uninit of one actor with their state machine |
| Configuring and launching a context's nodes | `pipeline/pipeline/PipelineContextImpl.cpp` | partly | NodeLaunch | the launch by init order, the deferred futures, the wait for node configuration and the shared waiting lock; building the DAG and the user graph is not modelled |
| Base node | `pipeline/hwnode/BaseNode.cpp`, `pipeline/hwnode/BaseNode.h` | partly | PipelineContext, FrameBuffers | what the context and the frame rely on: a node takes a frame, lets go of its buffers, applies and dispatches it, flushed or not; the buffer helpers are not modelled |
| Frame and its buffer control | `pipeline/pipeline/PipelineBufferSetFrameControlImp.cpp`, `pipeline/pipeline/PipelineBufferSetFrameControlImp.h` | partly | FrameBuffers, BufferLife, PipelineContext | getting, marking, updating, collecting, delivering, keeping and transferring the stream buffers of a frame, and its destruction; the listeners' calls, the physical metadata, the keeping of app metadata (nobody transfers it) and the dumps are not modelled |
| Users manager of a stream buffer | `pipeline/utils/streambuf/UsersManagerImp.cpp`, `include/mtkcam3/pipeline/stream/IUsersManager.h` | partly | FrameBuffers, UserWait | user categories, the marks RELEASE and PRE_RELEASE, the questions over them, addUser and reset, and the background wait for release with its two locks; fences, USED and ACQUIRE are not modelled |
| Stream buffers and their pools | `pipeline/utils/streambuf/StreamBuffers.cpp`, `pipeline/utils/streambuf/StreamBufferPoolImpl.cpp` … | not modelled | – | planned: acquire and release against the pool's bound, the frame buffer manager's expansion |
| Pipeline DAG and node map | `pipeline/pipeline/PipelineDAGImp.cpp`, `pipeline/pipeline/PipelineNodeMapControlImp.cpp` … | not modelled | – | read-only after configuration; the graph is a constant of PipelineContext. The topological sort is a candidate for a pure-algorithm module |
| Request builder | `pipeline/pipeline/RequestBuilderImpl.cpp`, `pipeline/pipeline/RequestBuilderImpl.h` | not modelled | – | straight-line construction of a frame from a request; no state shared between calls beyond the last configuration |
| Frame numbers | `pipeline/pipeline/PipelineFrameNumberGenerator.cpp` | partly | PipelineContext, InitFrames | an atomic counter; its values order the frames of both modules, its persistence over sessions is not modelled |
| Context builders | `pipeline/pipeline/PipelineContextBuilders.cpp`, `pipeline/pipeline/PipelineContextBuilderImpl.cpp` … | not modelled | – | sequential assembly of configuration structures before the first request |
| Sessions of the pipeline model | `pipeline/model/session/PipelineModelSessionBase.cpp`, `pipeline/model/session/PipelineModelSessionBasic.cpp` … | not modelled | – | glue between policies and the context; what they may call and in which order bounds the environment of the modelled modules |
| Pipeline policies | `pipeline/policy/RequestSettingPolicyMediator.cpp`, `pipeline/policy/FeatureSettingPolicy.cpp` … | not modelled | – | pure decision tables of tuning and scenario data; almost no state across calls |
| Request parsing and settings helpers | `pipeline/model/utils/AppRequestParser.cpp`, `pipeline/model/utils/PipelineFrameBuilder.cpp` … | not modelled | – | data conversion and calls to performance services |
| Zero shutter lag | `pipeline/model/zsl/ZslProcessor.cpp`, `pipeline/model/zsl/ZslProcessor.h` | not modelled | – | planned: history buffers, pending requests and their selection |
| Capture bookkeeping | `pipeline/model/capture/NextCaptureListener.cpp`, `pipeline/model/capture/CaptureInFlightRequest.cpp` … | partly | FrameBuffers | the reprocessor's transfer of kept buffers is an actor of FrameBuffers; its choice of a frame and the next-capture count are planned |
| Pre-release of requests and the background service | `pipeline/prerelease/PreReleaseRequest.cpp`, `main/hal/bgservice/BGService.cpp` … | partly | PreRelease, MCPreRelease, UserWait | the manager's queues, the registration by the JPEG node, the background thread of each flush and the wait of a new session; uninit of P1, the service's image readers and its binder side are not modelled |
| Application callback core (metadata, image and shutter order) | `main/mtkhal/core/device/3.x/app/CallbackCore.cpp`, `main/mtkhal/core/device/3.x/app/CallbackCore.FrameHandler.cpp` … | partly | CallbackCore, CallbackRecommender | registration, the result thread, the recommender's order, errors, images and metadata, removal, flushed requests and the drain; physical and HAL metadata, real-time partials, batched streams, abortRequest and stream configuration are not modelled |
| Application stream manager | `main/hal/device/3.x/app/AppStreamMgr.cpp`, `main/hal/device/3.x/app/AppStreamMgr.FrameHandler.cpp` … | not modelled | – | the legacy twin of the callback core, with its own handlers in the place of the recommender; CallbackCore is the starting point for a module of it |
| Camera device sessions | `main/hal/device/3.x/device/CameraDevice3SessionImpl.cpp`, `main/hal/device/3.x/device/ZoomRatioConverter.cpp` … | not modelled | – | HAL entry points: open, configure, process, flush and close under two locks; a candidate for a later module |
| Device and provider managers | `main/hal/devicemgr/base/CameraDeviceManagerBase.cpp`, `main/hal/devicemgr/base/CameraDeviceManagerBase_utils.cpp` … | not modelled | – | open and close of devices, torch and the exclusion table; a candidate for a later module |
| Sync helper between sensors | `pipeline/utils/SyncHelper/SyncHelper.cpp`, `pipeline/utils/SyncHelper/SyncQueue.cpp` | not modelled | – | planned: the enqueue and dequeue rendezvous of several cameras with its timeouts |
| Feature pipe framework | `feature/core/featurePipe/core/src/GraphicBufferPool.cpp`, `feature/core/featurePipe/core/src/FatImageBufferPool.cpp` … | not modelled | – | planned: wait queues, node threads with their stop, flush and sync counters, and the buffer pools |
| Capture, streaming and depth feature pipes | `feature/core/featurePipe/capture/nodes/default/P2ANode.cpp`, `feature/core/featurePipe/capture/nodes/isp6s/EnqueISPWorker.cpp` … | not modelled | – | instances of the framework whose own logic is image processing and buffer geometry |
| Image algorithms | `feature/ainr/core/1.0/AinrCore.cpp`, `feature/ainr/core/2.0/AinrCore.cpp` … | not modelled | – | numeric image processing and tuning over drivers that are not in the repository; no protocol to check |
| Hardware nodes | `pipeline/hwnode/p1/P1NodeImp.cpp`, `pipeline/hwnode/p1/P1Utility.cpp` … | not modelled | – | they drive ISP, JPEG and face-detection drivers whose behaviour lies outside the repository; P1 and P2 keep queues that a later module may take up |
| Third-party and reference plug-ins | `3rdparty/mtk/ainr/AINRProcImpl.cpp`, `3rdparty/mtk/mfnr/MFNRImpl.cpp` … | not modelled | – | vendor effect plug-ins called through the plug-in interface; out of scope |
| Post processing, ISP HAL, standalone ISP, services | `main/hal/postproc/PostDevice.cpp`, `main/hal/isphal/streamcontroller/ISPStreamController.cpp` … | not modelled | – | thin adapters over the pipeline model and binder or HIDL transport |

## The modules and the code

`map` in `PROJECT.json` names for every definition the lines it stands for. An
action is a critical section, or the code between two of them; what a thread
does under one lock and nobody else can see is one step.

**InitFrames** — `submitOneFrame()`, `InitFrameHandler` and the lifetime of the
context. `pc` says where each thread is (the submitter, the handler thread, the
owner of the context, and any number of `Waiters` in `waitUntilInitFrameDrained`);
`mPendingQueue`, `mSendingFrame`, `mActive`, `mThreadExitPending` are the
handler's members; `initFrameHandlerLock` is held over a whole drain, as in the
code. The 33 ms wait in the drain loops is a retry. `sendFrame()` is an interval
(`SendFrame` .. `SendFrameReturn`). `DrainBeforeDrop` says whether the owner
drains before it drops its reference.

**FrameOrder** — what `InitFrames` promises: frames are begun one at a time in
the order of submission.

**PipelineContext** — `sendFrame()` with `mKickLock`, its passes over the roots
(a busy root answers FAILED_TRANSACTION and is tried again, another error gives
the frame up), `onDispatchFrame()` of every node, `InFlightRequest`, and
`flush()` from `beginFlush()` to `endFlush()`. `st[f][n]` is what node *n* has
of frame *f*, `handed[f][n]` how it got it (queue or flush), `visit[f][n]` the
next node the dispatching thread of *n* is at. Request numbers are kept modulo
`RequestWidth`, so that wraparound is visible. One sender at a time is what
InitFrames establishes. The graph is a constant: it does not change after
configuration.

**NodeLaunch** — `configureNodes()`, `launchNodes()`, `waitForNodesLaunched()`,
`launchOneNode()`, `NodeActorImpl` with its precheck of states, and
`waitUntilConfigDone()` with `mAsyncConfigLock`. Nodes are numbered in
topological order. Both flags of `endConfigure()` are chosen in Init, and with
them the launch policy: concurrent threads, or deferred futures that run on the
thread that calls get(). init(), config(), setNodeCallBack() may each fail.

**FrameBuffers** — one frame: `PipelineBufferSetFrameControlImp` with the
`UsersManager` of each buffer and the actors around it. `at[u]` is where a node
(or the AIAWB user that P1 adds) is; `released`, `preReleased`, `joined`,
`inactive` are the users' states; `mMap`, `ioSet`, `notified`, `left`,
`mAlreadyApplyPreRelease` the frame's; `place[s]` says where the buffer of a
stream is. `step` is the thread inside `applyRelease()` or `applyPreRelease()`,
which the code serialises by `mApplyReleaseLock`: it visits the entries of its
node one at a time, looking at producers and then at users, as
`updateNodeStatus()` does, so that marks and resets under the users' own locks
fall between the two looks. `holder` is the reprocessor.

**BufferLife** — what FrameBuffers promises: users let go, a guest may join while
some user holds on, a buffer is given back once and after all its users.

**PreRelease** — `PreReleaseRequestMgr`, the `PreReleaseRequest`s and their
threads, with the captures as their environment. `frame[r]` is where a capture
is, `NodesOf[r]` the nodes of its frame that matter here: JpegNode and those with
a greater NodeId. `released[r]` holds the nodes whose image buffers all users
have released, `preReleaseBuffers[r]` the node whose buffers its registration
kept: `registerStreamBuffer()` adds the buffers of each node under the same
request number (`PreReleaseRequest.cpp:1065`), so that those of the last node
remain, unless they were released before and cannot be had. A thread waits for
these and looks for ERROR in these. `mvInFlightRequests`, `mvPendingRequests`, `mReqItems` are the manager's
queues, `reports` the calls of `onRequestFinishedCB()`. `mLock` is held from a
registration to its end and over the two halves of `notifyCaptureCompleted()`
(`CaptureCompleted`, `CallBack`), `thread[u]` says where the thread of flush *u*
is and with that who holds its lock. `session` is the session's thread: flushing,
about to start the drain, closed, waiting to open. The JPEG node's order,
register and then `applyPreRelease()`, is `RegisterCapture`,
`RegisterStreamBuffer`, `LeavePreReleased`.

**UserWait** — `waitUserReleaseStatus()` against `markUserStatus(RELEASE)` on one
buffer, with `mRWLock` and `mWaitUserStatusLock` as they are taken. It is the
detail behind the step `Drain` of PreRelease, which takes the wait as one step.

**CallbackRecommender** — the recommender as operators on its map of requests,
one for each call, with what the call makes available. It holds no variables,
since `mFunctionMutex` makes each call one step of the frame handler. The shutter,
the result and the images of a request are its *items*; each is in a queue of its
kind and of the request's type, and all queues are treated alike, as in the code's
three `prepareCallback...()`.

**CallbackCore** — `CallbackCore` with its Result-, Frame- and BatchHandler.
`mResultQueue` is what the pipeline has queued, `Update` what the thread does
under `mFrameMapLock` with all of it (`updateResult()`, the recommender in the
code's order: shutters, errors, results, output and then input images,
`updateCallback()`; the calls of a kind are one recursive function over the
frames, `Calls`), `Push` the call of the app after the lock. `returned` has
the RETURNED bits of the items, `told` what has really been called back.
`given` is what the pipeline has given back so far.

### Assumptions about what is not modelled

* A read lock is granted although a writer waits. Mutexes have no order.
* Roots are called in any order within a pass, a superset of the code's order;
  so are the entries of an IO set in `updateNodeStatus()`.
* A node's `queue()`, `flush()` and `kick()` are the contract `BaseNode` shows:
  a frame that is given to a node comes back to the dispatcher once, after its
  buffers have been released. `kick(frame)` changes no state here.
* A launch timeout only reports; a caller of the context before `config()`
  gives up; only a session that waited for the launch calls `uninit()`;
  `reuseNode` has no caller in the repository.
* Giving what was collected to its owners (`Deliver`) is one step: it runs
  under `mApplyReleaseLock` on sets that only that thread sees.
* AIAWB is one user, and joins by P1 only; the sweep of its items does not take
  `mItemMapLock`, and so interleaves with the nodes.
* Only `PreReleasers` mark PRE_RELEASE (the P2 frame and JPEG nodes in the code); RELEASE_STILLUSE
  has no user in the repository. The provider of images on demand exists as long
  as the frame, and may refuse an image.
* PreRelease: one session type (the default one) and one session at a time;
  request numbers are not reused; a flush slot is always free (`MaxFlushes` is at
  most MAX_PRE_RELEASE); the wait for the users returns when they have released,
  not by its timeout of 30 s, after which the code triggers a crash dump, checks
  the buffer's status and goes on. Readers and `bCallback` only choose who is
  called. The session has an image reader: with `mImgReaderID` -1 the early
  returns of `addCaptureRequest()` and `notifyCaptureCompleted()` leave the manager
  as it is. The image buffers of a node count as one: they are released
  together, and one of them fails or none. The nodes before JpegNode are left out,
  since their buffers are never the ones kept. A failed `requestStatus` is kept for the
  thread's later requests, as in the code. A capture that its flush could not
  register and whose frame then completes is reported at once, with the status
  JpegNode had marked until then.
* PipelineContext: `flush()` of a root answers OK, as that of `BaseNode` and of
  P1 does; the code would give up the frame at another answer
  (`PipelineContextImpl.cpp:1454` and `:1483`), as it does when `queue()` fails.
* NodeLaunch: every node of the graph has an actor, so that `launchNodes()` does
  not return UNKNOWN_ERROR before it launches any (`PipelineContextImpl.cpp:1110`).
* UserWait: a sleeper wakes only when signalled or at the timeout. The code waits
  without a loop, so a spurious wake-up would answer OK too early.
* CallbackCore: set up as the `ACallbackAdaptor` does (pending metadata, AOSP
  rule). `registerFrame()` is one step, since the pipeline has the request only
  after it, and `registerStreamBuffers()` succeeds. A shutter has a timestamp
  (one with 0 is ignored). No physical or HAL metadata, no real-time partials, no
  batched streams,
  no `abortRequest()`, with which a session that failed to submit requests gives
  them back, and the pipeline gives everything back once. A wait
  begins after the last request: `mInterfaceLock` keeps requests out of it.
* App metadata is never transferred to a reprocess, and so its keeping is not
  modelled. `mInFlightNodeCount` is the number of nodes not in `notified`.

## What the runs check


| run | module, cfg | properties | what it shows |
|---|---|---|---|
| `init_frames` | InitFrames, `InitFrames.cfg` | NoFrameLost, IInv, ImplementsFrameOrder, WaitTerminates, EverySubmittedFrameIsSent | Frames submitted while the graph is being configured are all sent, once, one at a time and in order, whichever threads flush, drain or drop the context meanwhile, and no waiter hangs. |
| `pipeline_progress` | MCPipelineContext, `PipelineProgress.cfg` | QuietAfterDrain, FlushIsContagious, RootsAlike, JoinWaitsForAll, GoneMeansThrough, IInv, NoQueueBehindSweep, FlushedRangeNotQueued, FlushCompletes, EveryFrameReleased | Two flushes, at any moments, of two frames of one request that are sent through two roots into a join, with roots that are busy and nodes that reject: nothing is queued behind the sweep, no frame is half queued and half flushed, a frame of a request the flush covers is flushed even when it is sent after the flush has ended, every flush ends and every registered frame is released: the sender that holds mKickLock and the flusher that waits for it do not block each other. |
| `NodeLaunch` | MCNodeLaunch, `NodeLaunch.cfg` | LaunchedInOrder, ThroughMeansLaunched, ReconfigAfterConfig, IInv, EveryWaiterGetsThrough | Three nodes, one of free run and two ordered against the topology, launched concurrently or one by one, on a thread of their own or on the thread that waits, with every failure of init(), config() and setNodeCallBack() and a session that reconfigures and uninits: nobody gets through before the launch is over, the orders are kept, a free-run node's error is reported, and every waiter gets through. |
| `frame_preview` | MCFrameBuffers, `FrameBuffers.cfg` | IInv, HeldWhileUsed, BufferReachable, GoesBack, ImplementsLife, EveryFrameEnds | A preview frame: P1 gives one image to P2 and to face detection, which run concurrently, and sends it to AIAWB while it still holds it; the display image may fail to be provided. A buffer goes back once, after all of its users, a flush can release every buffer, and the frame ends and implements the abstract life of its buffers. |
| `frame_capture` | MCFrameBuffers, `FrameCapture.cfg` | OneUserAtATime, CompletionNoted | A capture whose first node dispatches before it lets go and whose second mixes release and pre-release: a node is still refused a buffer until every user ahead of it has let go, over a node in between that is no user; pre-released counts as let go everywhere, and the completion of the capture is noted. |
| `frame_kept` | MCFrameBuffers, `FrameKept.cfg` | LeftIsExact, KeptIfAsked | A preview frame whose RAW image and metadata are kept for a reprocess that takes them and resets their users while nodes are still inside apply: what is kept stays until it is taken or the frame ends, and the count of metadata left is exact. |
| `pre_release` | MCPreRelease, `PreRelease.cfg` | ToldWhenDone, FailureTold, NoneForgotten, OthersInOrder, EveryCaptureTold, SessionOpens | Three captures, the second of whose frames has a RAW16 node behind JpegNode, and two flushes, the first of which may outlast the 60 s its background thread waits; the first's picture fails and the second's RAW16 image. Frames complete, nodes release, JpegNode pre-releases, threads drain and sessions come and go: the app is told of a capture when its frame has completed or what its registration kept is released, a failure in that is told as one, none is lost between the queues, those no flush touched are told in order, and a session that waits for background pipelines is let in. |
| `callback_core` | MCCallbackCore, `CallbackCore.cfg` | CallbacksInOrder, LeavesComplete, TellsTheTruth, NoFrameStuck | Three requests of two types, one with an input image, of which the pipeline gives back shutters, metadata, errors and images in any order and any batches, with up to two failures: the app gets each kind in order per type, what it gets is what the pipeline gave, a frame leaves complete, and none stays behind when everything has come. |

### Runs that find a violation

Each checks one statement a comment or an interface of the repository makes, and TLC finds a behaviour of the code's model that breaks it.

* **`init_frames_self_wait`** (HandlerDoesNotAwaitItself, `InitFramesSelfWait.cfg`, at `pipeline/pipeline/InitFrameHandler.cpp:486`). When the handler thread drops the last reference it waits for a frame that only it can finish. The handler thread drops its reference to the context before it resets mSendingFrame; the comment says "Don't hold PipelineContext before waitUntilDrained() returns." (src/pipeline/pipeline/InitFrameHandler.cpp:485), but when that is the last reference, onLastStrongRef() runs on the handler thread itself and waits for mSendingFrame == nullptr, which only this thread would set.

* **`frame_kept_done`** (CompletionNoted, `FrameKeptDone.cfg`, at `pipeline/pipeline/PipelineBufferSetFrameControlImp.cpp:1749`). The reprocessor resets the users of a buffer between isActive() and getUserStatus() of a node's update: the entry is never erased, the frame is never marked done, and the completion of the capture is not told. updateNodeStatus() asks isActive() at line 1724 and getUserStatus() at line 1749 under two separate acquisitions of the UsersManager's lock; its comments say "Remove if it's not active." (src/pipeline/pipeline/PipelineBufferSetFrameControlImp.cpp:1726) and "It happens if this item has been reset before (since all users have released it)." (src/pipeline/pipeline/PipelineBufferSetFrameControlImp.cpp:1730). When transferPendingReleaseBuffers() (which takes neither mRWLock nor mItemMapLock) resets the buffer between the two, the status reads 0 and the entry is kept although the item is inactive and the node has released. If the node does not apply again, the frame is never marked done, although "[Bg service] send to PreRleaseRequestMgr to notify this request is end to AP." (src/pipeline/pipeline/PipelineBufferSetFrameControlImp.cpp:2005) depends on it.

* **`user_wait`** (WaitReturns, `UserWait.cfg`, at `pipeline/utils/streambuf/UsersManagerImp.cpp:1473`). A background thread that waits for the release of a buffer and the user that releases it take the two locks of the UsersManager in opposite orders: neither goes on, and the limit of 30 s does not apply, since the thread is not yet waiting on the condition. waitUserReleaseStatus() takes mWaitUserStatusLock (src/pipeline/utils/streambuf/UsersManagerImp.cpp:1472) and then, in haveAllUsersReleased(), mRWLock for reading; markUserStatus() takes mRWLock for writing (src/pipeline/utils/streambuf/UsersManagerImp.cpp:684) and then mWaitUserStatusLock (src/pipeline/utils/streambuf/UsersManagerImp.cpp:685). A thread of a PreReleaseRequest that comes between the two of a user, and the user, wait for each other for ever, although the comment promises "timeout: 30 secs" (src/pipeline/utils/streambuf/UsersManagerImp.cpp:1480).

* **`callback_drained`** (DrainedMeansReturned, `CallbackDrained.cfg`, at `main/mtkhal/core/device/3.x/app/CallbackCore.FrameHandler.cpp:1538`). A caller of waitUntilDrained() is answered between the erasure of the last frame and the callback that returns it. update() erases the last frame under mFrameMapLock, leaves the lock and only then pushes the callbacks to the app; waitUntilDrained() finds mFrameMap empty in between, and BatchHandler::waitUntilDrained() (src/main/mtkhal/core/device/3.x/app/CallbackCore.BatchHandler.cpp:273) always answers OK. So it returns before the app has been called back, where the interface says "Wait until all the registered requests have finished returning." (src/main/mtkhal/core/device/3.x/include/ICallbackCore.h:297); flush() of the device session (src/main/mtkhal/android/device/3.x/ACameraDeviceSession.cpp:1665) returns on it.

Further disagreements came up while modelling and have no run, since each shows
in a line or lies outside what a session can reach.
`InitFrameHandler::mFrameCountSent`, "Count up when every sendFrame() succeeds",
also counts the frames that failed (it is only logged, and is not modelled).
`InFlightRequest::abort()` does not exempt the frames that
`IPipelineNode.h:256` calls unexpected to be aborted. The comment of
`configureNodes()` says that init orders are kept, which the code does only with
parallelConfig.
`isNeededToFlush()` chooses between two ranges by an unsigned difference that is
never negative, so that a flushed range that wraps around 2^32 would be missed.
`applyPreRelease()` lets go of HAL buffers that `IPipelineBufferSetFrameControl.h:463`
says are kept. `PreReleaseRequest.cpp:189`, "the items will callback to AP
in-order", does not hold across pre-released captures: one that a later flush
pre-releases is queued behind captures of higher numbers that ended before it
(what does hold is `OthersInOrder`). The local `requestStatus` of
`waitUntilDrained()` keeps the ERROR of an earlier capture for the later ones.
`registerStreamBuffer()` replaces what it registered of one node by the next one
(`PreReleaseRequest.cpp:1065`), so that a background thread waits for and checks
the node with the greatest NodeId only. In a frame with a RAW16 (0x31) or an
IspTuningDataPack (0x40) node that is not JpegNode (0x23): the app may be told of
the capture before its picture is there, or although it is not encoded, and may
be told of a success although it failed. `PictureThere` and `PictureFailureTold`
in PreRelease say what one would want; the first is false in the instance of
`pre_release` (the RAW16 image of the second capture is released, the
capture is registered with nothing to wait for, and the app is told), the second as
soon as the picture of such a capture fails. The runs check what does hold,
`ToldWhenDone` and `FailureTold`, which speak of what was registered; that both
wishes hold where JpegNode is the last node is proved (`PictureThereHolds`).
A frame that fails as a whole never returns its input image
(`CallbackCore.FrameHandler.cpp:522`), and a shutter that comes after the last
partial result loses the timestamp metadata that goes with it.

### Bounds, and why they are enough

* InitFrames: 4 init frames, 5 submitted, two waiters. Four init frames are one
  being sent, two pending and one that completes the count; the fifth is sent
  after the handler is gone. The handler thread, the submitter, the owner and
  two waiters contend for `mInitFrameHandlerLock`.
* PipelineContext: two roots and their join, two frames of one request, and two
  flushes: a frame between two roots, one dispatched before the flag and one
  after it, a join with one rejecting predecessor, a frame of a request an
  earlier flush covered. `RequestWidth` (8) stands for 2^32. Deeper graphs are
  covered by the proofs, which are for every acyclic graph.
* NodeLaunch: three nodes with orders 1, -1, 0, so that both orders run against
  the topology and one node is of free run; one caller and the owner. Several
  nodes of one order and more threads are covered by the proofs, which are for
  all orders and thread sets.
* FrameBuffers: three nodes and one or two streams of each kind a scenario needs.
  The preview frame has two concurrent readers of one image, AIAWB and an image
  that may be refused; the capture has a chain in which the middle node is no
  user of the stream that links its ends; the kept frame has an image and metadata
  that the reprocessor takes. What two streams have in common is the thread in
  apply and the map; a third adds no new relation.

* PreRelease: three captures, the second of which has a RAW16 node behind
  JpegNode, and two flushes, with two pipelines in the background at most: one
  capture before, one pre-released and one behind it, a second pre-release while
  the first drains, a full background. The picture of the first capture fails
  and the RAW16 image of the second: a failure that is told and one that is told
  only if it is looked at. The first flush may time out; the second then
  follows one that has.
* UserWait: two users, of which the last one meets the waiter.
* CallbackCore: a reprocessing request between two preview ones, an image stream
  and an input, two failures, two results in the queue and two frames in flight:
  an elder that blocks, one that fails, one of another type that overtakes; the
  third request comes after one has left. Batches of two hold every pair of kinds.

`CHECK_DEADLOCK FALSE` in every configuration: an application may stop sending,
a waiter may never come, and a frame ends.

### Fairness

* InitFrames: weak fairness of the handler thread and of `sendFrame()`, since
  threads run and sendFrame() returns; strong fairness of the steps that need
  `mInitFrameHandlerLock`, since a mutex is eventually granted to a thread that
  asks for it again and again. Nothing obliges anybody to submit, wait or drop.
* PipelineContext: weak fairness of the sender, of a flush in progress, and of
  each frame's steps: nodes give back what they got. Nobody is obliged to flush.
* NodeLaunch: weak fairness of `configureNodes()`, of each node's launch, of
  a reconfiguration's return and of a thread inside `waitUntilConfigDone()`.
* FrameBuffers: weak fairness of each actor (a node lets go of what it holds,
  applies and dispatches, as `BaseNode::flush()` and the nodes' normal paths
  do), of the thread inside apply, of the reprocessor, which does not hold a
  history frame for ever, and of the destruction.
* PreRelease: weak fairness of each capture's end and of its nodes' releases, of the
  handlers inside a lock, of each background thread, and of a flush or an opening
  that has begun. Captures, flushes, closing and the timeout are free.
* UserWait: weak fairness of the waiter and of each user: it is a finding that
  this is not enough.
* CallbackCore needs none: that nothing stays behind is stated as a safety
  property (`NoFrameStuck`) of the states in which the pipeline has given
  everything back and the thread has taken it.

### Mutants

Each property of a passing run has a wrong variant of a modelled definition
beside it in the module ("Wrong variant"), which TLC finds violating the
property: for instance, a drain that looks at the queue and not at the frame
being sent, a flush that does not wait for the kick lock, an update that takes
an item away with its producers.

## What is proved

For every value of the constants that satisfies the named assumptions of the
modules:


| theorem | states | what it establishes |
|---|---|---|
| `Invariance` in InitFrames_proofs | IInv | The inductive invariant of the init frame handler: locks, thread locations and the hand-over of frames agree in every reachable state, for any number of frames, init frames and waiting threads. |
| `SendOrder` in InitFrames_proofs | – | Frames reach the root nodes in the order in which they were submitted. |
| `NothingLost` in InitFrames_proofs | NoFrameLost | Every submitted frame has been sent or is in somebody's hands: none falls between the queue and mSendingFrame. |
| `SoleSender` in InitFrames_proofs | – | The handler thread and the submitting thread are never both inside sendFrame(). |
| `Refinement` in InitFrames_proofs | ImplementsFrameOrder | The handler and submitFrame() together implement FrameOrder, the in-order sending of one frame at a time. |
| `Quiet` in PipelineContext_proofs | QuietAfterDrain | From the end of the drain to the end of the flush no node works on a frame that was queued to it. |
| `SweepIsFinal` in PipelineContext_proofs | NoQueueBehindSweep | No node that a flush has swept is queued another frame before the flush ends. |
| `Invariance` in PipelineGraph_proofs | IInv | The inductive invariant of a context: sending against flushing, and the way of every frame over the graph, for every finite acyclic graph, every number of frames and of flushes. |
| `RootsAgree` in PipelineGraph_proofs | RootsAlike | No frame is queued to one of its roots and flushed at another, even when a flush begins between the two. |
| `FlushSpreads` in PipelineGraph_proofs | FlushIsContagious | A frame that was flushed at a node is never queued to the next one, even when the flush has ended in between. |
| `JoinWaits` in PipelineGraph_proofs | JoinWaitsForAll | A node gets a frame only when every one of its predecessors has dispatched it. |
| `GoneEverywhere` in PipelineGraph_proofs | GoneMeansThrough | A frame that is no longer in flight has left every node; unless a node rejected it, it has been through all of them and is in no node's list. |
| `RangeIsFlushed` in PipelineGraph_proofs | FlushedRangeNotQueued | While request numbers do not wrap around and do not decrease, a frame of a request that a flush covered is never queued to a root. |
| `Invariance` in NodeLaunch_proofs | IInv | The inductive invariant of launching the nodes: the job, the list it waits for, every launchOneNode() and every thread in waitUntilConfigDone() agree in every reachable state, for any number of nodes, any init orders and any threads. |
| `NobodyEarly` in NodeLaunch_proofs | ThroughMeansLaunched | No thread gets past waitUntilConfigDone() before every node has been launched. |
| `InOrder` in NodeLaunch_proofs | LaunchedInOrder | A node of a later init order starts only when every node of an earlier order has finished. |
| `OneByOne` in NodeLaunch_proofs | – | Without parallelConfig at most one node is being launched at a time. |
| `ErrorReported` in NodeLaunch_proofs | – | When a free-run node fails, configureNodes() answers with an error, whichever other nodes succeed. |
| `ReconfigAlone` in NodeLaunch_proofs | ReconfigAfterConfig | A node is inside reconfig() only after its config() has succeeded, and never while it is being launched. |
| `Returned` in FrameBuffers_proofs | – | An item leaves the frame's map only after every user of its stream has let go, the user that joins on the way included. |
| `Held` in FrameBuffers_proofs | HeldWhileUsed | A buffer a user was given stays with the frame until that user lets go of it. |
| `OneUser` in FrameBuffers_proofs | OneUserAtATime | A node is given a buffer only after every user ahead of it in the graph, at any distance, has let go. |
| `Done` in FrameBuffers_proofs | – | When the frame is marked done, only streams that AIAWB joined are left in its map. |
| `Reachable` in FrameBuffers_proofs | BufferReachable | When no node dispatches early, a node that has the frame can get every buffer it has not let go of, so that a flush releases them all. |
| `Implements` in FrameBuffers_proofs | ImplementsLife | The frame implements the abstract life of its buffers: a buffer is given back once, after all its users have let go, and the frame ends after all of them. |
| `Invariance` in FrameBuffers_proofs | IInv | The inductive invariant of a frame: its map, the IO entries of its nodes, the users and the places of its buffers, the thread inside apply and the meta counters agree in every reachable state, for any nodes, graph, streams and users. |
| `GoesHome` in FrameBuffers_proofs | GoesBack | When a frame has ended, every image of the app went to the app and every HAL buffer to the HAL or the reprocessor, unless a node pre-releases. |
| `CountExact` in FrameBuffers_proofs | LeftIsExact | The number of metas left that updateFrame() carries is exact, in whatever order the nodes apply. |
| `KeptAsAsked` in FrameBuffers_proofs | KeptIfAsked | When no node pre-releases, what is to be kept stays with the frame until it ends or the reprocessor takes it. |
| `CompletionSeen` in FrameBuffers_proofs | CompletionNoted | When nothing is to be kept, a frame that ends has been marked done, and the PreReleaseRequestMgr was told. |
| `Invariance` in UserWait_proofs | – | The inductive invariant of the background wait: who holds mRWLock, who has released, and whether the sleeper has asked for the signal agree in every reachable state, for any set of users. |
| `NoMissedRelease` in UserWait_proofs | – | waitUserReleaseStatus() sleeps only while a user still has the buffer: the last release does not fall between its look and its sleep. |
| `AnswersRight` in UserWait_proofs | – | waitUserReleaseStatus() answers OK only when every user has released the buffer. |
| `Invariance` in PreRelease_proofs | – | The inductive invariant of the pre-release bookkeeping, for any number of captures, flushes and pipelines in the background: captures are taken in order, who holds mLock has counted what has ended at the head, an entry in flight is marked just when its capture has completed, an item is released only when its frame has completed or what registration kept of it is released, a thread drains what was registered with it, and reports, items and entries follow each other in the order of the captures. |
| `ToldWhenDoneHolds` in PreRelease_proofs | ToldWhenDone | The app is told of a capture only when its frame has completed or, of a pre-released one, when every user has released the buffers of the last node of its frame: whatever nodes the frame has, and even if registration came too late to keep a buffer of that node. |
| `FailureToldHolds` in PreRelease_proofs | FailureTold | A failure in what a report looks at, the picture JpegNode released with its frame or the buffers registration kept, is never reported as a success, on whichever of the paths it is reported. |
| `PictureThereHolds` in PreRelease_proofs | – | When JpegNode is the last node of every frame, the app is told of a pre-released capture only when its picture is there, and of a failed one never as a success: the condition under which the replaced registration of PreReleaseRequest.cpp:1065 does no harm. With a RAW16 or IspTuningDataPack node behind JpegNode both are false. |
| `NoneForgottenHolds` in PreRelease_proofs | NoneForgotten | A capture that was taken is in flight, or among the items, until the app is told, except behind one whose flush timed out. |
| `OthersInOrderHolds` in PreRelease_proofs | OthersInOrder | Captures that no flush pre-released are reported in the order they were taken, however their frames complete and whatever is pre-released between them. |
| `LineOnlyGrows` in PreRelease_proofs | – | The reports and the items behind them are one line of captures, pre-released ones included: any step leaves it as it stands, or lets captures that are not in it queue up at its end. Nobody is passed over or told of in another order than was once fixed. |
| `ToldOnceHolds` in PreRelease_proofs | – | The app is told of each capture at most once, whether by its own completion, by the thread it was pre-released to, or behind another one. |
| `Invariance` in CallbackCore_proofs | – | The inductive invariant of the callback core, for any requests, types and streams: the recommender's status of each item says what has come of it, nothing waits in the recommender that needs not, the FrameParcels and RETURNED bits agree with both, and what is returned of a frame is released of its elders of the same type. |
| `CallbacksInOrderHolds` in CallbackCore_proofs | CallbacksInOrder | Among the requests of a type the app gets the shutters, the last metadata and the good images of a stream in the order of the frames, in whatever order and batches the pipeline gives them back. |
| `LeavesCompleteHolds` in CallbackCore_proofs | LeavesComplete | A frame leaves the frame handler and the recommender together, and only after all its output images and its shutter and last metadata, or an error. |
| `TellsTheTruthHolds` in CallbackCore_proofs | TellsTheTruth | An image goes to the app with the status the pipeline gave it; an error only for a failed result, as ERROR_REQUEST just when every image has failed, and no metadata with it. |
| `NoFrameStuckHolds` in CallbackCore_proofs | NoFrameStuck | When the pipeline has given everything back and the thread has taken it, no frame is left, however results and failures interleaved. |
| `DrainedIsComplete` in CallbackCore_proofs | – | What a caller of waitUntilDrained() may rely on: when it answers OK every frame submitted before has been returned in full, and once the thread has pushed what it holds the app has been told of all of it. What fails (DrainedMeansReturned) is only that the last push may be still under way. |

In each module the proofs go through an inductive invariant (`IInv`, or the layers
named below), for the safety properties alone are not inductive. TLC has checked
the invariants on the instances of the runs.

* **InitFrames**: the frames form one sequence, the sent ones, then the one in
  the handler's hand, then the pending ones, then the submitter's
  (`HandOver`); this needs to know where each thread can be, who holds the lock
  (`LockOwner`), and that a handler nobody points to is drained
  (`HandlerStatus`). The order, that no frame is lost, and the refinement of
  FrameOrder follow.
* **PipelineContext**, in two layers. `FlushInv` (PipelineContext_proofs): the
  flags follow the flusher; once it has had `mKickLock` no frame is between two
  roots; a dispatcher that is going to queue is a reader of the flag; what nodes
  have is registered, and after abort() it is aborted. With this the sweep is
  final: who would still queue has been waited for. `GraphInv`
  (PipelineGraph_proofs) follows the frames over the graph: a node has taken from
  `left` of each predecessor once, and `mInAdjReqCnt` is the number of those that
  have (`JoinsCount`); a frame in flight that was flushed somewhere is aborted or
  about to be (`FlushCovers`), which makes flushing contagious; a frame the sender
  is through with has reached all of its roots (`RootsReached`). That a frame which is gone has
  been through every node uses that the graph is finite and acyclic
  (`NodesAssumption`, `AcyclicAssumption`). `RangeIsFlushed` holds while request
  numbers neither wrap around nor decrease (`NumbersFit`), as in the run; with
  numbers that wrap around the property is false of the code.
* **NodeLaunch**: at each point of `configureNodes()`, which nodes are done
  (`OrdersBehindAreDone`), what of the free-run list has been collected, and, in
  deferred mode, that only the front of the list runs.
* **FrameBuffers**, in two layers as well. `UserInv` (FrameBuffers_proofs): four
  lemmas say by how much a step changes the marks, the users, the map and the IO
  sets (`StepGrows`, `StepJoins`, `StepLeaves`, `StepErases`); the parts of the
  invariant are preserved from these, action by action only where they must.
  `NotStranded` says that somebody still has to visit every item in the map,
  `ErasedMeansLetGo` that an entry goes only with its user's mark. `Reachable`
  holds when no node dispatches early (`EarlyDispatchers = {}`) and uses that the
  dispatched nodes with the next one are closed under predecessors; `Implements`
  maps each step to a step or a stutter of BufferLife. `EndInv`
  (the second half of the module) is about the end: an entry its node has let go of is still
  to be visited by that node's apply (`PendingVisit`), so that when all nodes have
  left only what AIAWB joined is in the map (`AllLeft`); a node without entries
  has been notified (`AllNotified`); what apply has collected is delivered by
  the thread that collected it, with the callback it found (`CollectedFits`,
  `KindFits`); and the counters of metas follow the producers' bits
  (`MetasCounted`). `KeptAsAsked` assumes that no node pre-releases, and
  `CompletionSeen` that nothing is to be kept: `frame_kept_done` shows that
  a frame whose buffers are kept may end without being marked done.
* **PreRelease**: the head of `mvInFlightRequests` that `notifyCaptureCompleted()`
  has counted stays as it is until it takes the lock again, since others only
  append and take out what has not ended (`LockHolder`, `Counted`,
  `InFlightSound`); what registration keeps is of the last node, and the picture is
  kept if that is JpegNode, since who registers has not released it
  (`RegisteredSound`); an item turns RELEASE only when its frame has completed or
  what was kept is released (`ItemsSound`, `DrainSound`); and `reports`, `mReqItems`, `mvInFlightRequests`,
  one behind the other, are in the order of the captures, the pre-released ones
  aside (`QueuesInOrder`), which is what makes the released prefix of the items
  safe to report. That a capture which moves from one queue to the next is
  always in one of them is `NoneForgotten`, part of the invariant. Three theorems
  go beyond the runs: the app is told when the picture itself is there, and of
  its failure, if JpegNode is the last node of every frame (`PictureThereHolds`); `reports` and the items behind it are one line that only
  grows at its end (`LineOnlyGrows`: every step
  leaves those in it where they stand), and therefore no capture is told of twice
  (`ToldOnceHolds`); these two need that what is in flight is not in the line
  (`InFlightApart`). What the
  helpers on the queues (`EntriesOf`, `Without`, `Finished`, `HandOut`) keep is
  proved once, as lemmas on any queues.
* **CallbackCore**, bottom up. A map of requests is *good* for a set of
  things that have come when the status of each item says what has come of it
  (`StatusSound`), an error that can be told has been (`Notified`), an item
  nothing in flight is in front of is released (`FrontReleased`), and a request
  that is through is gone unless one in front is not (`FrontRemoved`). The
  lemmas follow the layers of the code: what marking, preparing, errors and
  removal each return; that each of the four calls of the recommender keeps the
  map good, with what it hands over; that all calls of a kind do, by induction
  over the frames; that an update does. The other parts of `IInv` relate the map
  to what a FrameParcel and the RETURNED bits say (`ParcelSound`,
  `ReleasedSound`, `ReturnedSound`) and to what the elders of a frame have
  returned (`ReturnedInOrder`); `Pushed` says how far the app is behind. The
  order of the callbacks then follows, since the app is told when the thread
  pushes, or at a flush that gives it nothing good. `NoFrameStuck` is about the
  least frame left: all of its items would be released, and it would be removed.
  `DrainedIsComplete` is what remains true of `waitUntilDrained()` where
  `DrainedMeansReturned` is violated: when it answers OK every frame is returned
  in full, and it is told in full once the thread has pushed.
* **UserWait**: a writer is alone and has not released yet, and who sleeps has
  asked for the signal (`Lock`, `Asleep`). The wait may hang, but it is never
  answered too early and never misses the last release.

Every invariant and action property that a passing run checks is proved. Only
model-checked is what holds under fairness (WaitTerminates,
EverySubmittedFrameIsSent, FlushCompletes, EveryFrameReleased,
EveryWaiterGetsThrough, EveryFrameEnds, EveryCaptureTold, SessionOpens), since
TLAPS does not treat ENABLED, and the properties that the code violates.
Finite sequences and the calls of an update are treated without induction
schemes: a queue's helpers are characterised by the set of its positions, and an
induction over frames goes through the least number that would break it
(`LeastNumber`, from the well-foundedness of the natural numbers). The modules
hold no RECURSIVE operator, since the SMT backend is lost with one.

## Plan

In this order; the modules above come first because everything else hangs on
the frame and its graph.

1. **Device session and core session**: the way of a request down and of a flush
   past it. `processCaptureRequest()` checks the flush flag and registers later
   (`ACameraDeviceSession.cpp:1619`), and the core session may drop the request.
   Composition with CallbackCore through `SubmitRequest` and `FlushRequest`.
2. **Stream buffer pools**: acquire and release against the bound, with the
   frame's provider. Composition with FrameBuffers through `place`.
3. **Sync helper** between sensors: the rendezvous with its timeouts.
4. **Feature pipe framework**: wait queues with stop, flush and sync.
5. **ZSL** history buffers, and the count of next captures.
6. The drain per node (`waitUntilNodeDrained`), once it has a caller to model: it
   waits without a limit for a node whose frames a root's error gave up.
7. `abortRequest()`, physical metadata and batches of the callback core.
8. Proofs: the core session's and the pools' invariants, with the modules.

Hazards that no property covers and that are not in the list of `PROJECT.json`:
the result of the free-run nodes overwrites the error of the ordered groups
(`PipelineContextImpl.cpp:1159`), and only the thread that empties the futures
sees the launch's error (`:212`); `applyPreRelease()` and `onLastStrongRef()` both
tell a listener of a released frame; a buffer that AIAWB joined and a node
pre-released is swept by the frame's end only; `requestStreamBuffer()` is called
with `mItemMapLock` held.

To keep the project readable, a new module gets one run that asks everything of
its smallest interesting instance, and a second one only for a different question.
