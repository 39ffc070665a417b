---------------------------- MODULE FrameBuffers ----------------------------
(***************************************************************************)
(* The stream buffers of one pipeline frame                                *)
(* (PipelineBufferSetFrameControlImp) and the users of each buffer         *)
(* (UsersManager): nodes take buffers out of the frame, mark them released *)
(* or pre-released, and apply the release; what every user has let go of   *)
(* leaves the frame for the app, for the HAL, or is kept for a reprocess   *)
(* that takes it later.  The last reference destroys the frame.            *)
(*                                                                         *)
(* mRWLock and mItemMapLock are held while step = "update",                *)
(* mApplyReleaseLock while step # "idle".  A UsersManager has a lock of    *)
(* its own, so marking a buffer, sending it to AIAWB and resetting it      *)
(* interleave with all of them.                                            *)
(*                                                                         *)
(* The nodes are the ones of hwnode/: a node gets a frame when all its     *)
(* predecessors have dispatched it, lets go of its streams, applies, and   *)
(* dispatches.                                                             *)
(***************************************************************************)
EXTENDS Integers, FiniteSets

CONSTANTS
  Nodes,            \* nodes of the frame
  Edges,            \* edges of its PipelineDAG: pairs of nodes
  Aiawb,            \* the user eNODEID_AIAWB_BEGIN.. that P1 adds
  AppImages, HalImages, AppMetas, HalMetas,   \* streams
  Outs, Ins,        \* streams each node outputs, inputs
  OnDemand,         \* images acquired by the first user, others are set by the builder
  Fallible,         \* images the provider may fail to provide
  PreReleasers,     \* nodes that pre-release
  EarlyDispatchers, \* nodes that dispatch before they let go of everything
  ToAiawb,          \* images P1 sends to AIAWB
  ToKeep            \* targetToKeep_HalImage, targetToKeep_HalMeta

Images  == AppImages \cup HalImages
Metas   == AppMetas \cup HalMetas
Streams == Images \cup Metas
Actors  == Nodes \cup {Aiawb}
None    == "none"

\* The category of a node in the user graph of a stream (refineUser()).
producers == [s \in Streams |-> {n \in Nodes : s \in Outs[n]}]
nodeUsers == [s \in Streams |-> {n \in Nodes : s \in Outs[n] \cup Ins[n]}]
Producers(s) == producers[s]
NodeUsers(s) == nodeUsers[s]
StreamsOf(n) == Outs[n] \cup Ins[n]

\* DFS() over mIn: every node of the graph ahead of n.
Closed(S) == \A e \in Edges : e[2] \in S => e[1] \in S
ahead == [n \in Nodes |->
            {m \in Nodes \ {n} : \A S \in SUBSET Nodes : Closed(S) /\ n \in S => m \in S}]
Ahead(n) == ahead[n]

ASSUME ActorsAssumption == Aiawb \notin Nodes /\ None \notin Actors
ASSUME EdgesAssumption == Edges \subseteq Nodes \X Nodes
ASSUME KindsAssumption ==
  /\ AppImages \cap HalImages = {} /\ AppMetas \cap HalMetas = {}
  /\ Images \cap Metas = {} /\ None \notin Streams
ASSUME IOAssumption ==
  /\ Outs \in [Nodes -> SUBSET Streams] /\ Ins \in [Nodes -> SUBSET Streams]
  /\ \A s \in Streams : NodeUsers(s) # {}
  /\ \A n \in Nodes : StreamsOf(n) # {}
ASSUME MetasAssumption == IsFiniteSet(AppMetas) /\ IsFiniteSet(HalMetas)
ASSUME ChoicesAssumption ==
  /\ OnDemand \subseteq Images /\ Fallible \subseteq OnDemand
  /\ PreReleasers \subseteq Nodes /\ EarlyDispatchers \subseteq Nodes
  /\ ToAiawb \subseteq HalImages /\ ToKeep \subseteq HalImages \cup HalMetas

VARIABLES
  at,            \* where each actor is: "away", "working", "left"
  dispatched,    \* nodes that have dispatched the frame
  dirty,         \* actors with marks they have not applied
  joined,        \* streams AIAWB is a user of
  released, preReleased,  \* users that marked each stream so
  inactive,      \* streams whose UsersManager was reset(): mUserInit is false
  place,         \* where the buffer of each stream is
  granted,       \* nodes that got each buffer from the frame
  mMap,          \* streams whose item is still in the frame's map
  producersReleased,  \* eBUF_STATUS_PRODUCERS_RELEASE
  ioSet,         \* what is left in the NodeStatus of each node
  notified,      \* nodes whose IOSets are all mNotified
  mAlreadyApplyPreRelease,
  applier,       \* holder of mApplyReleaseLock
  step,          \* where it is: "idle", "update", "sweep", "deliver"
  pre,           \* it runs applyPreRelease()
  callback,      \* its pAppCallback is set
  toVisit,       \* IO entries its updater has still to visit
  current,       \* the one it is at, or None
  metaCollected, \* m(App|Hal)MetaSetO_ProducersReleased
  left,          \* m(App|Hal)MetaNumO_ProducersInFlight
  announced,     \* n(App|Hal)OutMetaLeft of the last updateFrame()
  given,         \* output metas updateFrame() has carried
  holder,        \* the reprocessor's frame: "holding", "metas", "images", "gone"
  destroyed

frameVars == <<at, dispatched>>
userVars  == <<dirty, joined, released, preReleased, inactive>>
bufVars   == <<place, granted>>
itemVars  == <<mMap, producersReleased, ioSet, notified, mAlreadyApplyPreRelease>>
applyVars == <<applier, step, pre, callback, toVisit, current>>
metaVars  == <<metaCollected, left, announced, given>>
vars == <<frameVars, userVars, bufVars, itemVars, applyVars, metaVars, holder, destroyed>>

Places == {"none", "failed", "frame", "collected", "app", "hal",
           "kept", "taken", "dropped"}

OutMetas(kind) == {s \in kind : Producers(s) # {}}
MetaKinds      == {"app", "hal"}
MetasOf        == [k \in MetaKinds |-> IF k = "app" THEN AppMetas ELSE HalMetas]

TypeOK ==
  /\ at \in [Actors -> {"away", "working", "left"}]
  /\ dispatched \in SUBSET Nodes
  /\ dirty \in SUBSET Actors
  /\ joined \in SUBSET ToAiawb
  /\ released \in [Streams -> SUBSET Actors]
  /\ preReleased \in [Streams -> SUBSET Actors]
  /\ inactive \in SUBSET Streams
  /\ place \in [Streams -> Places]
  /\ granted \in [Streams -> SUBSET Nodes]
  /\ mMap \in SUBSET Streams
  /\ producersReleased \in SUBSET Streams
  /\ ioSet \in [Nodes -> SUBSET Streams]
  /\ notified \in SUBSET Nodes
  /\ mAlreadyApplyPreRelease \in BOOLEAN
  /\ applier \in Actors \cup {None}
  /\ step \in {"idle", "update", "sweep", "deliver"}
  /\ pre \in BOOLEAN
  /\ callback \in BOOLEAN
  /\ toVisit \in SUBSET Streams
  /\ current \in Streams \cup {None}
  /\ metaCollected \in SUBSET Metas
  /\ left \in [MetaKinds -> Int]
  /\ announced \in [MetaKinds -> Int]
  /\ given \in SUBSET Metas
  /\ holder \in {"holding", "metas", "images", "gone"}
  /\ destroyed \in BOOLEAN

Init ==
  /\ at = [u \in Actors |-> "away"]
  /\ dispatched = {}
  /\ dirty = {}
  /\ joined = {}
  /\ released = [s \in Streams |-> {}]
  /\ preReleased = [s \in Streams |-> {}]
  /\ inactive = {}
  /\ place = [s \in Streams |-> IF s \in OnDemand THEN "none" ELSE "frame"]
  /\ granted = [s \in Streams |-> {}]
  /\ mMap = Streams
  /\ producersReleased = {}
  /\ ioSet = [n \in Nodes |-> StreamsOf(n)]
  /\ notified = {}
  /\ mAlreadyApplyPreRelease = FALSE
  /\ applier = None
  /\ step = "idle"
  /\ pre = FALSE
  /\ callback = FALSE
  /\ toVisit = {}
  /\ current = None
  /\ metaCollected = {}
  /\ left = [k \in MetaKinds |-> Cardinality(OutMetas(MetasOf[k]))]
  /\ announced = left
  /\ given = {}
  /\ holder = IF ToKeep = {} THEN "gone" ELSE "holding"
  /\ destroyed = FALSE

-----------------------------------------------------------------------------
(* UsersManager.                                                           *)

Users(s) == NodeUsers(s) \cup (IF s \in joined THEN {Aiawb} ELSE {})
LetGo(s) == released[s] \cup preReleased[s]
IsActive(s) == s \notin inactive

HaveAllUsersReleased(s) == IsActive(s) /\ Users(s) \subseteq released[s]
HaveAllUsersReleasedOrPreReleased(s) == IsActive(s) /\ Users(s) \subseteq LetGo(s)
HaveAllProducerUsersReleasedOrPreReleased(s) ==
  IsActive(s) /\ Producers(s) \subseteq LetGo(s)

\* Wrong variant: only the direct predecessors are asked.
DirectPriorUsersLetGo(s, n) ==
  IsActive(s) /\ {m \in NodeUsers(s) : <<m, n>> \in Edges} \subseteq LetGo(s)

\* haveAllUsersReleasedOrPreReleased(userId)
PriorUsersLetGo(s, n) == IsActive(s) /\ NodeUsers(s) \cap Ahead(n) \subseteq LetGo(s)

\* Wrong variant: pre-released is not let go.
UserReleased(s, u) == IsActive(s) /\ u \in released[s]

\* getUserStatus(userId), as far as the updater looks at it.
UserLetGo(s, u) == IsActive(s) /\ u \in LetGo(s)

\* markUserStatus(userId, st), which does nothing once the UsersManager is reset.
Mark(s, u, st) ==
  /\ IsActive(s)
  /\ u \notin (IF st = "RELEASE" THEN released[s] ELSE LetGo(s))
  /\ released' = [released EXCEPT ![s] = IF st = "RELEASE" THEN @ \cup {u} ELSE @]
  /\ preReleased' = [preReleased EXCEPT ![s] = IF st = "RELEASE" THEN @ ELSE @ \cup {u}]
  /\ dirty' = dirty \cup {u}

\* What a user may mark: AIAWB and ordinary nodes only release.
Statuses(u) == IF u \in PreReleasers THEN {"RELEASE", "PRE_RELEASE"} ELSE {"RELEASE"}

-----------------------------------------------------------------------------
(* A node and the frame.                                                   *)

Arrive(n) ==
  /\ at[n] = "away"
  /\ \A e \in Edges : e[2] = n => e[1] \in dispatched
  /\ at' = [at EXCEPT ![n] = "working"]
  /\ UNCHANGED <<dispatched, userVars, bufVars, itemVars, applyVars, metaVars, holder, destroyed>>

\* get(Meta|Image)Buffer() finds the item, under mItemMapLock.
Asks(n, s) ==
  /\ at[n] = "working" /\ s \in StreamsOf(n) /\ n \notin LetGo(s) /\ n \notin granted[s]
  /\ step # "update"
  /\ s \in mMap

\* The buffer is acquired from the provider unless it was before; the user
\* gets it if not all users released it and those ahead have let go.
GetBuffer(n, s) ==
  /\ Asks(n, s)
  /\ place[s] \in {"none", "frame"}
  /\ place' = [place EXCEPT ![s] = "frame"]
  /\ granted' = IF ~HaveAllUsersReleased(s) /\ PriorUsersLetGo(s, n)
                THEN [granted EXCEPT ![s] = @ \cup {n}] ELSE granted
  /\ UNCHANGED <<frameVars, userVars, itemVars, applyVars, metaVars, holder, destroyed>>

\* The provider fails, now or before: the user is marked as having released.
GetBufferFails(n, s) ==
  /\ Asks(n, s)
  /\ \/ place[s] = "none" /\ s \in Fallible
     \/ place[s] = "failed"
  /\ place' = [place EXCEPT ![s] = "failed"]
  /\ Mark(s, n, "RELEASE")
  /\ UNCHANGED <<frameVars, joined, inactive, granted, itemVars, applyVars, metaVars, holder, destroyed>>

\* Wrong variant: a user that addUser() brought is not found.
MarkOnFrameNodes(u, s, st) ==
  /\ at[u] = "working"
  /\ u \in NodeUsers(s)
  /\ step # "update"
  /\ s \in mMap
  /\ Mark(s, u, st)
  /\ UNCHANGED <<frameVars, joined, inactive, bufVars, itemVars, applyVars, metaVars, holder, destroyed>>

\* IStreamBufferSet::markUserStatus(), under mItemMapLock.
MarkOnFrame(u, s, st) ==
  /\ at[u] = "working"
  /\ u \in Users(s)
  /\ step # "update"
  /\ s \in mMap
  /\ Mark(s, u, st)
  /\ UNCHANGED <<frameVars, joined, inactive, bufVars, itemVars, applyVars, metaVars, holder, destroyed>>

\* IStreamBuffer::markUserStatus(), under no lock of the frame.
MarkOnBuffer(n, s, st) ==
  /\ at[n] = "working"
  /\ n \in granted[s]
  /\ Mark(s, n, st)
  /\ UNCHANGED <<frameVars, joined, inactive, bufVars, itemVars, applyVars, metaVars, holder, destroyed>>

\* Wrong variant: P1 sends the image after it has released it.
SendAfterRelease(n, s) ==
  /\ at[n] = "working" /\ n \in granted[s]
  /\ s \in Outs[n] \cap ToAiawb
  /\ s \notin joined /\ at[Aiawb] # "left"
  /\ joined' = joined \cup {s}
  /\ at' = [at EXCEPT ![Aiawb] = "working"]
  /\ UNCHANGED <<dispatched, dirty, released, preReleased, inactive, bufVars, itemVars, applyVars, metaVars, holder, destroyed>>

\* Wrong variant: any image P1 outputs is sent.
SendAnyImage(n, s) ==
  /\ at[n] = "working" /\ n \in granted[s]
  /\ s \in Outs[n] \cap Images
  /\ n \notin LetGo(s)
  /\ s \notin joined /\ at[Aiawb] # "left"
  /\ joined' = joined \cup {s}
  /\ at' = [at EXCEPT ![Aiawb] = "working"]
  /\ UNCHANGED <<dispatched, dirty, released, preReleased, inactive, bufVars, itemVars, applyVars, metaVars, holder, destroyed>>

\* P1 makes AIAWB a consumer of an image it has not released yet (addUser()).
SendToAiawb(n, s) ==
  /\ at[n] = "working" /\ n \in granted[s]
  /\ s \in Outs[n] \cap ToAiawb
  /\ n \notin LetGo(s)
  /\ s \notin joined /\ at[Aiawb] # "left"
  /\ joined' = joined \cup {s}
  /\ at' = [at EXCEPT ![Aiawb] = "working"]
  /\ UNCHANGED <<dispatched, dirty, released, preReleased, inactive, bufVars, itemVars, applyVars, metaVars, holder, destroyed>>

\* The streams a node shares with a node after it.
shared == [n \in Nodes |-> {s \in StreamsOf(n) :
                              \E m \in NodeUsers(s) : n \in Ahead(m)}]
Shared(n) == shared[n]

\* Wrong variant: the frame goes on before what was released is applied.
DispatchUnreleased(n) ==
  /\ at[n] = "working" /\ n \notin dispatched /\ applier # n
  /\ dispatched' = dispatched \cup {n}
  /\ UNCHANGED <<at, userVars, bufVars, itemVars, applyVars, metaVars, holder, destroyed>>

\* onDispatchFrame()
Dispatch(n) ==
  /\ at[n] = "working" /\ n \notin dispatched /\ applier # n /\ n \notin dirty
  /\ n \in EarlyDispatchers \/ \A s \in Shared(n) : n \in LetGo(s)
  /\ dispatched' = dispatched \cup {n}
  /\ UNCHANGED <<at, userVars, bufVars, itemVars, applyVars, metaVars, holder, destroyed>>

\* An actor drops its reference to the frame.
Leave(u) ==
  /\ at[u] = "working" /\ applier # u /\ u \notin dirty
  /\ u \in dispatched \cup {Aiawb}
  /\ \A s \in Streams : u \in Users(s) => u \in LetGo(s)
  /\ at' = [at EXCEPT ![u] = "left"]
  /\ UNCHANGED <<dispatched, userVars, bufVars, itemVars, applyVars, metaVars, holder, destroyed>>

-----------------------------------------------------------------------------
(* applyRelease() and applyPreRelease().                                   *)

\* After the frame is done, applyRelease() neither updates nor finds the callback.
LockApply(u, isPre) ==
  /\ applier = None /\ at[u] = "working" /\ u \in dirty
  /\ isPre => u \in PreReleasers
  /\ applier' = u
  /\ dirty' = dirty \ {u}
  /\ pre' = isPre
  /\ callback' = (isPre \/ ~mAlreadyApplyPreRelease)
  /\ IF u = Aiawb THEN step' = "sweep" /\ toVisit' = HalImages \cap mMap
     ELSE IF isPre \/ ~mAlreadyApplyPreRelease
     THEN step' = "update" /\ toVisit' = ioSet[u]
     ELSE step' = "deliver" /\ toVisit' = {}
  /\ UNCHANGED <<frameVars, joined, released, preReleased, inactive, current,
                 bufVars, itemVars, metaVars, holder, destroyed>>

\* handleAllUsersReleased() of the items of R: they leave the map, their
\* buffers are collected, except that those of AppMetas are let go.
Collect(R) ==
  /\ mMap' = mMap \ R
  /\ place' = [s \in Streams |->
                 IF s \notin R \/ place[s] # "frame" THEN place[s]
                 ELSE IF s \in AppMetas THEN "dropped" ELSE "collected"]

\* Wrong variant: the producers' bit is not marked.
ProducersReleasedUnmarked(s) ==
  /\ metaCollected' = metaCollected \cup ({s} \cap Metas)
  /\ left' = [k \in MetaKinds |-> IF s \in OutMetas(MetasOf[k]) THEN left[k] - 1 ELSE left[k]]
  /\ UNCHANGED producersReleased

\* handleProducersReleased()
ProducersReleased(s) ==
  LET new == s \notin producersReleased IN
  /\ producersReleased' = producersReleased \cup {s}
  /\ metaCollected' = IF new /\ s \in Metas /\ Producers(s) # {}
                      THEN metaCollected \cup {s} ELSE metaCollected
  /\ left' = [k \in MetaKinds |->
                IF new /\ s \in OutMetas(MetasOf[k]) THEN left[k] - 1 ELSE left[k]]

\* An IO entry whose item was reset is removed; otherwise its producers are
\* looked at, and then its users.
VisitProducers(s) ==
  /\ step = "update" /\ current = None /\ s \in toVisit
  /\ toVisit' = toVisit \ {s}
  /\ IF ~IsActive(s)
     THEN /\ ioSet' = [ioSet EXCEPT ![applier] = @ \ {s}]
          /\ UNCHANGED <<current, producersReleased, metaCollected, left>>
     ELSE /\ current' = s
          /\ IF HaveAllProducerUsersReleasedOrPreReleased(s)
             THEN ProducersReleased(s)
             ELSE UNCHANGED <<producersReleased, metaCollected, left>>
          /\ UNCHANGED ioSet
  /\ UNCHANGED <<frameVars, userVars, bufVars, mMap, notified, mAlreadyApplyPreRelease,
                 applier, step, pre, callback, announced, given, holder, destroyed>>

\* Wrong variant: the item is released with its producers.
VisitUsersOfProducers ==
  /\ step = "update" /\ current # None
  /\ current' = None
  /\ IF UserLetGo(current, applier)
     THEN /\ ioSet' = [ioSet EXCEPT ![applier] = @ \ {current}]
          /\ Collect(IF HaveAllProducerUsersReleasedOrPreReleased(current)
                     THEN {current} \cap mMap ELSE {})
     ELSE UNCHANGED <<ioSet, mMap, place>>
  /\ UNCHANGED <<frameVars, userVars, granted, producersReleased, notified, mAlreadyApplyPreRelease,
                 applier, step, pre, callback, toVisit, metaVars, holder, destroyed>>

VisitUsers ==
  /\ step = "update" /\ current # None
  /\ current' = None
  /\ IF UserLetGo(current, applier)
     THEN /\ ioSet' = [ioSet EXCEPT ![applier] = @ \ {current}]
          /\ Collect(IF HaveAllUsersReleasedOrPreReleased(current)
                     THEN {current} \cap mMap ELSE {})
     ELSE UNCHANGED <<ioSet, mMap, place>>
  /\ UNCHANGED <<frameVars, userVars, granted, producersReleased, notified, mAlreadyApplyPreRelease,
                 applier, step, pre, callback, toVisit, metaVars, holder, destroyed>>

\* mInFlightNodeCount is the number of nodes not notified; at 0 the frame is done.
FinishUpdate ==
  /\ step = "update" /\ current = None /\ toVisit = {}
  /\ step' = "deliver"
  /\ IF ioSet[applier] = {} /\ applier \notin notified
     THEN /\ notified' = notified \cup {applier}
          /\ mAlreadyApplyPreRelease' = (mAlreadyApplyPreRelease \/ notified' = Nodes)
     ELSE UNCHANGED <<notified, mAlreadyApplyPreRelease>>
  /\ UNCHANGED <<frameVars, userVars, bufVars, mMap, producersReleased, ioSet, applier, pre,
                 callback, toVisit, current, metaVars, holder, destroyed>>

\* AIAWB looks at every HAL image, without mItemMapLock.
SweepItem(s) ==
  /\ step = "sweep" /\ s \in toVisit
  /\ toVisit' = toVisit \ {s}
  /\ Collect(IF HaveAllUsersReleased(s) THEN {s} \cap mMap ELSE {})
  /\ UNCHANGED <<frameVars, userVars, granted, producersReleased, ioSet, notified,
                 mAlreadyApplyPreRelease, applier, step, pre, callback, current,
                 metaVars, holder, destroyed>>

SweepDone ==
  /\ step = "sweep" /\ toVisit = {}
  /\ step' = "deliver"
  /\ UNCHANGED <<frameVars, userVars, bufVars, itemVars, applier, pre, callback, toVisit, current,
                 metaVars, holder, destroyed>>

\* Wrong variant: the callback is asked for after the frame has been marked done.
DestinationIfNotDone(s) ==
  IF place[s] # "collected" THEN place[s]
  ELSE IF s \in AppImages THEN IF ~mAlreadyApplyPreRelease THEN "app" ELSE "dropped"
  ELSE IF pre THEN "dropped"
  ELSE IF s \in ToKeep THEN "kept" ELSE "hal"

\* Wrong variant: what is kept is returned as well.
DestinationIgnoresKeep(s) ==
  IF place[s] # "collected" THEN place[s]
  ELSE IF s \in AppImages THEN IF callback THEN "app" ELSE "dropped"
  ELSE IF pre THEN "dropped" ELSE "hal"

\* Where handleReleasedBuffers() puts what was collected.  applyPreRelease()
\* drops its references to HAL buffers, without a look at what is to be kept.
Destination(s) ==
  IF place[s] # "collected" THEN place[s]
  ELSE IF s \in AppImages THEN IF callback THEN "app" ELSE "dropped"
  ELSE IF pre THEN "dropped"
  ELSE IF s \in ToKeep THEN "kept" ELSE "hal"

\* onImageBufferReleased(), updateFrame() and the HAL result.
Deliver ==
  /\ step = "deliver"
  /\ place' = [s \in Streams |-> Destination(s)]
  /\ IF callback
     THEN given' = given \cup metaCollected /\ announced' = left
     ELSE UNCHANGED <<given, announced>>
  /\ metaCollected' = {}
  /\ applier' = None /\ step' = "idle" /\ pre' = FALSE /\ callback' = FALSE
  /\ UNCHANGED <<frameVars, userVars, granted, itemVars, toVisit, current, left, holder, destroyed>>

-----------------------------------------------------------------------------
(* The reprocessor that keeps the frame, and the end of the frame.          *)

IsReset == \A s \in Streams : place[s] = "taken" => ~IsActive(s)

\* transferPendingReleaseBuffers(): the metas first, then the images.
Transfer(kind, from, to) ==
  /\ holder = from /\ IsReset
  /\ holder' = to
  /\ place' = [s \in Streams |-> IF s \in kind /\ place[s] = "kept" THEN "taken" ELSE place[s]]
  /\ UNCHANGED <<frameVars, userVars, granted, itemVars, applyVars, metaVars, destroyed>>

\* "reset UsersManager before transfering ownership"
ResetUsers(s) ==
  /\ place[s] = "taken" /\ IsActive(s)
  /\ inactive' = inactive \cup {s}
  /\ UNCHANGED <<frameVars, dirty, joined, released, preReleased, bufVars, itemVars,
                 applyVars, metaVars, holder, destroyed>>

\* The history frame is dropped, with or without a transfer.
DropHistory ==
  /\ \/ holder = "holding"
     \/ holder = "images" /\ IsReset
  /\ holder' = "gone"
  /\ UNCHANGED <<frameVars, userVars, bufVars, itemVars, applyVars, metaVars, destroyed>>

\* onLastStrongRef(): what is kept, and the HAL images still in the map, are returned.
Destroy ==
  /\ \A n \in Nodes : at[n] = "left"
  /\ at[Aiawb] # "working" /\ holder = "gone" /\ ~destroyed
  /\ destroyed' = TRUE
  /\ place' = [s \in Streams |->
                 IF place[s] = "kept" \/ (place[s] = "frame" /\ s \in HalImages) THEN "hal"
                 ELSE IF place[s] = "frame" THEN "dropped" ELSE place[s]]
  /\ mMap' = {}
  /\ announced' = [k \in MetaKinds |-> 0]
  /\ UNCHANGED <<frameVars, userVars, granted, producersReleased, ioSet, notified,
                 mAlreadyApplyPreRelease, applyVars, metaCollected, left, given, holder>>

-----------------------------------------------------------------------------

NodeStep(n) ==
  \/ Arrive(n)
  \/ \E s \in Streams : GetBuffer(n, s)
  \/ \E s \in Streams : GetBufferFails(n, s)
  \/ \E s \in Streams, st \in Statuses(n) : MarkOnBuffer(n, s, st)
  \/ \E s \in Streams : SendToAiawb(n, s)
  \/ Dispatch(n)

ActorStep(u) ==
  \/ u \in Nodes /\ NodeStep(u)
  \/ \E s \in Streams, st \in Statuses(u) : MarkOnFrame(u, s, st)
  \/ \E isPre \in BOOLEAN : LockApply(u, isPre)
  \/ Leave(u)

ApplyStep ==
  \/ \E s \in Streams : VisitProducers(s)
  \/ VisitUsers
  \/ FinishUpdate
  \/ \E s \in Streams : SweepItem(s)
  \/ SweepDone
  \/ Deliver

HolderStep ==
  \/ Transfer(HalMetas, "holding", "metas")
  \/ Transfer(HalImages, "metas", "images")
  \/ \E s \in Streams : ResetUsers(s)
  \/ DropHistory

Next ==
  \/ \E u \in Actors : ActorStep(u)
  \/ ApplyStep
  \/ HolderStep
  \/ Destroy

Spec == Init /\ [][Next]_vars

\* Every user lets go of its streams, applies and drops the frame; a thread
\* inside apply runs on; the reprocessor does not hold a frame for ever.
Fairness ==
  /\ \A u \in Actors : WF_vars(ActorStep(u))
  /\ WF_vars(ApplyStep)
  /\ WF_vars(HolderStep)
  /\ WF_vars(Destroy)

FairSpec == Spec /\ Fairness

-----------------------------------------------------------------------------
(* Properties.                                                             *)

\* An item leaves the frame's map (updateNodeStatus(), the AIAWB sweep,
\* onLastStrongRef()) only when every user of its stream has let go of it,
\* AIAWB included if P1 sent it there meanwhile.
ReturnedWhenReleased == \A s \in Streams : s \notin mMap => Users(s) \subseteq LetGo(s)

\* A buffer a user was given stays with the frame until that user lets go.
HeldWhileUsed ==
  \A s \in Streams : \A u \in granted[s] \cup (Users(s) \ Nodes) :
    u \notin LetGo(s) => place[s] = "frame"

\* A node holds a buffer only after every user ahead of it, at any distance,
\* has let go of it (getBufferLocked()).
OneUserAtATime ==
  \A s \in Streams : \A n \in granted[s] : NodeUsers(s) \cap Ahead(n) \subseteq LetGo(s)

\* A node that has the frame can get every buffer it has not let go of yet:
\* BaseNode::flush() releases only what it can get.
BufferReachable ==
  \A n \in Nodes : \A s \in StreamsOf(n) :
    at[n] = "working" /\ n \notin LetGo(s) => s \in mMap /\ PriorUsersLetGo(s, n)

\* The number of output metas the app was told are left is the number it has
\* not been given, whoever applied in between.
LeftIsExact ==
  ~destroyed => \A k \in MetaKinds :
                  announced[k] = Cardinality(OutMetas(MetasOf[k]) \ given)

\* Once the frame is done only streams that AIAWB joined are left in it.
DoneMeansReleased == mAlreadyApplyPreRelease => mMap \subseteq joined

\* Every acquired buffer finds its way back: images of the app to the app,
\* HAL buffers to the HAL or to the reprocessor; applyPreRelease() drops some.
GoesBack ==
  destroyed => \A s \in Images \cup HalMetas :
    place[s] \in {"none", "failed"} \cup
                 (IF s \in AppImages THEN {"app"}
                  ELSE {"hal", "taken"} \cup (IF PreReleasers # {} THEN {"dropped"} ELSE {}))

\* A frame that ends has been seen to be done: applyRelease() has told the
\* PreReleaseRequestMgr that the capture is completed.
CompletionNoted == destroyed => mAlreadyApplyPreRelease

\* What is to be kept is kept as long as the frame lives, or taken.
KeptIfAsked == \A s \in ToKeep : place[s] \in {"hal", "dropped"} => destroyed

\* The users of a buffer, and when it goes back.
Life == INSTANCE BufferLife WITH
          Users0 <- [s \in Streams |-> NodeUsers(s)], Guest <- Aiawb,
          users <- [s \in Streams |-> Users(s)],
          letGo <- [s \in Streams |-> LetGo(s)], held <- mMap, ended <- destroyed

\* The frame implements the abstract life of its buffers.
ImplementsLife == Life!Spec

\* Every frame ends.
EveryFrameEnds == <>destroyed

-----------------------------------------------------------------------------
(* The inductive invariant.                                                *)

\* An entry leaves the NodeStatus of a node only when the node has let go.
ErasedMeansLetGo ==
  /\ \A n \in Nodes : ioSet[n] \subseteq StreamsOf(n)
  /\ \A n \in Nodes : \A s \in StreamsOf(n) : s \notin ioSet[n] => n \in LetGo(s)

\* An item nobody has to visit any more is one AIAWB will sweep.
NotStranded ==
  \A s \in mMap : s \in joined \/ \E n \in NodeUsers(s) : s \in ioSet[n]

\* Where a buffer is says whether its item is in the map.
PlaceFits ==
  /\ \A s \in mMap : place[s] \in {"none", "failed", "frame"}
  /\ \A s \in Streams : granted[s] # {} => place[s] \notin {"none", "failed"}
  /\ \A s \in Streams : granted[s] \subseteq NodeUsers(s)
  /\ \A s \in joined : granted[s] # {}
  /\ \A s \in inactive : place[s] = "taken"
  /\ \A s \in Streams : LetGo(s) \subseteq Users(s)

\* An actor that has left holds on to nothing; AIAWB is away until it joins.
LeftLetGo ==
  /\ \A u \in Actors : at[u] = "left" => \A s \in Streams : u \in Users(s) => u \in LetGo(s)
  /\ at[Aiawb] = "away" => joined = {}
  /\ destroyed => (\A n \in Nodes : at[n] = "left") /\ at[Aiawb] # "working"
  /\ destroyed => mMap = {}

\* A node has the frame when all before it have dispatched it, and they have
\* let go of what they share with it unless they dispatch early.
DispatchFits ==
  /\ \A n \in Nodes : at[n] # "away" => \A e \in Edges : e[2] = n => e[1] \in dispatched
  /\ \A n \in dispatched : at[n] # "away"
  /\ \A n \in dispatched \ EarlyDispatchers : \A s \in Shared(n) : n \in LetGo(s)

\* The frame is done when all nodes are.
DoneFits ==
  /\ \A n \in notified : ioSet[n] = {}
  /\ mAlreadyApplyPreRelease => notified = Nodes

\* The thread inside apply is a node at the entry it visits.
ApplyFits ==
  /\ step = "update" => applier \in Nodes
  /\ step # "idle" => applier \in Actors /\ at[applier] = "working"
  /\ step = "update" => toVisit \subseteq StreamsOf(applier)
  /\ current # None => step = "update" /\ current \in StreamsOf(applier)

\* What the safety of the users rests on.
UserInv ==
  /\ TypeOK /\ ReturnedWhenReleased /\ ErasedMeansLetGo /\ NotStranded /\ PlaceFits
  /\ LeftLetGo /\ DispatchFits /\ DoneFits /\ ApplyFits /\ OneUserAtATime

\* An entry its node has let go of is still to be visited, unless its item was
\* reset: the marks of a node bring it, or keep it, inside apply.
PendingVisit ==
  /\ \A n \in Nodes : \A s \in ioSet[n] : n \in LetGo(s) =>
        \/ s \in inactive
        \/ n \in dirty
        \/ step = "update" /\ applier = n /\ (s \in toVisit \/ current = s)
  /\ \A u \in dirty : at[u] = "working"

\* A node without entries is notified by the apply that took the last one, and
\* the last node to be notified completes the frame.
AllNotified ==
  /\ \A n \in Nodes : ioSet[n] = {} => n \in notified \/ (step = "update" /\ applier = n)
  /\ notified = Nodes /\ Nodes # {} => mAlreadyApplyPreRelease

\* What a thread inside apply has collected is delivered by that thread, images
\* of the app by one that found the callback.
CollectedFits ==
  /\ pre => PreReleasers # {}
  /\ step = "update" => callback
  /\ step = "sweep" => toVisit \subseteq HalImages
  /\ \A s \in Streams : place[s] = "collected" => step # "idle"
  /\ \A s \in AppImages : place[s] = "collected" => callback
  /\ metaCollected # {} => callback /\ step # "idle"

\* Where the buffers of each kind go, and when.
KindFits ==
  /\ \A s \in Streams : place[s] = "frame" => s \in mMap
  /\ \A s \in Streams : place[s] \in {"kept", "taken"} => s \in ToKeep
  /\ \A s \in AppImages : place[s] \notin {"hal", "dropped"}
  /\ \A s \in HalImages \cup HalMetas :
        place[s] # "app" /\ (place[s] = "dropped" => PreReleasers # {})
  /\ \A s \in ToKeep : place[s] = "hal" => destroyed
  /\ destroyed => \A s \in Streams : place[s] \notin {"frame", "collected", "kept"}

\* The counters of updateFrame() follow the producers' bits.
MetasCounted ==
  /\ \A k \in MetaKinds :
       /\ left[k] = Cardinality(OutMetas(MetasOf[k]) \ producersReleased)
       /\ \A s \in OutMetas(MetasOf[k]) :
            s \in producersReleased <=> s \in given \cup metaCollected
  /\ LeftIsExact

EndInv == PendingVisit /\ AllNotified /\ CollectedFits /\ KindFits /\ MetasCounted

\* Everything the safety proofs rest on.
IInv == UserInv /\ EndInv
=============================================================================
