------------------------- MODULE FrameBuffers_proofs -------------------------
(***************************************************************************)
(* Proofs about FrameBuffers, for every frame: any nodes, graph, streams   *)
(* and users.  The deltas come first: what any step may do to the marks,   *)
(* the maps and the IO entries.  The invariant follows from them part by   *)
(* part.                                                                   *)
(***************************************************************************)
EXTENDS FrameBuffers, FiniteSetTheorems, TLAPS

USE ActorsAssumption, EdgesAssumption, KindsAssumption, IOAssumption, ChoicesAssumption

\* The users of a stream are nodes, except for AIAWB.
LEMMA Basics ==
  /\ \A s \in Streams : Producers(s) \subseteq NodeUsers(s)
  /\ \A s \in Streams : NodeUsers(s) \subseteq Nodes
  /\ \A s \in Streams : NodeUsers(s) # {}
  /\ \A n \in Nodes : StreamsOf(n) \subseteq Streams
  /\ \A n \in Nodes : \A s \in Streams : s \in StreamsOf(n) <=> n \in NodeUsers(s)
  /\ \A n \in Nodes : Ahead(n) \subseteq Nodes
  BY DEF Producers, NodeUsers, producers, nodeUsers, StreamsOf, Ahead, ahead

\* Marks are never taken back, nobody stops being a user, and nothing comes
\* back into the map or into the IO entries of a node.
Grows ==
  /\ \A s \in Streams : LetGo(s) \subseteq LetGo(s)'
  /\ \A s \in Streams : released[s] \subseteq released'[s]
  /\ \A s \in Streams : preReleased[s] \subseteq preReleased'[s]
  /\ joined \subseteq joined'
  /\ mMap' \subseteq mMap
  /\ \A n \in Nodes : ioSet'[n] \subseteq ioSet[n]

LEMMA StepGrows ==
  ASSUME TypeOK, [Next]_vars
  PROVE  Grows
<1>. USE DEF Grows
<1>1. CASE UNCHANGED vars
  BY <1>1 DEF vars, userVars, itemVars, LetGo
<1>2. ASSUME NEW n \in Nodes, NodeStep(n)
      PROVE  Grows
  BY <1>2 DEF NodeStep, Arrive, GetBuffer, GetBufferFails, Asks, MarkOnBuffer, Mark, SendToAiawb,
     Dispatch, TypeOK, userVars, itemVars, LetGo
<1>3. ASSUME NEW u \in Actors, NEW s \in Streams, NEW st \in Statuses(u), MarkOnFrame(u, s, st)
      PROVE  Grows
  BY <1>3 DEF MarkOnFrame, Mark, TypeOK, itemVars, LetGo
<1>4. ASSUME NEW u \in Actors, NEW isPre \in BOOLEAN, LockApply(u, isPre)
      PROVE  Grows
  BY <1>4 DEF LockApply, itemVars, LetGo
<1>5. ASSUME NEW u \in Actors, Leave(u)
      PROVE  Grows
  BY <1>5 DEF Leave, userVars, itemVars, LetGo
<1>6. CASE ApplyStep
  BY <1>6 DEF ApplyStep, VisitProducers, VisitUsers, FinishUpdate, SweepItem, SweepDone, Deliver,
     Collect, TypeOK, userVars, itemVars, LetGo
<1>7. CASE HolderStep
  BY <1>7 DEF HolderStep, Transfer, ResetUsers, DropHistory, userVars, itemVars, LetGo
<1>8. CASE Destroy
  BY <1>8 DEF Destroy, userVars, LetGo
<1>. QED  BY <1>1, <1>2, <1>3, <1>4, <1>5, <1>6, <1>7, <1>8 DEF Next, ActorStep

\* AIAWB becomes a user of a stream while a node that was given its buffer
\* still holds on to it.
Joins ==
  /\ joined' # joined => mMap' = mMap /\ ioSet' = ioSet /\ granted' = granted
  /\ \A s \in joined' \ joined : \E n \in NodeUsers(s) : n \in granted[s] /\ n \notin LetGo(s)

LEMMA StepJoins ==
  ASSUME TypeOK, [Next]_vars
  PROVE  Joins
<1>. USE DEF Joins
<1>1. CASE UNCHANGED vars
  BY <1>1 DEF vars, userVars
<1>2. ASSUME NEW n \in Nodes, NodeStep(n)
      PROVE  Joins
  <2>1. ASSUME NEW s \in Streams, SendToAiawb(n, s)
        PROVE  Joins
    BY <2>1, <1>2, Basics DEF SendToAiawb, itemVars, bufVars, StreamsOf
  <2>. QED  BY <1>2, <2>1 DEF NodeStep, Arrive, GetBuffer, GetBufferFails, MarkOnBuffer, Dispatch,
            userVars
<1>3. ASSUME NEW u \in Actors, NEW s \in Streams, NEW st \in Statuses(u), MarkOnFrame(u, s, st)
      PROVE  Joins
  BY <1>3 DEF MarkOnFrame
<1>4. ASSUME NEW u \in Actors, NEW isPre \in BOOLEAN, LockApply(u, isPre)
      PROVE  Joins
  BY <1>4 DEF LockApply
<1>5. ASSUME NEW u \in Actors, Leave(u)
      PROVE  Joins
  BY <1>5 DEF Leave, userVars
<1>6. CASE ApplyStep
  BY <1>6 DEF ApplyStep, VisitProducers, VisitUsers, FinishUpdate, SweepItem, SweepDone, Deliver, userVars
<1>7. CASE HolderStep
  BY <1>7 DEF HolderStep, Transfer, ResetUsers, DropHistory, userVars
<1>8. CASE Destroy
  BY <1>8 DEF Destroy, userVars
<1>. QED  BY <1>1, <1>2, <1>3, <1>4, <1>5, <1>6, <1>7, <1>8 DEF Next, ActorStep

\* An item leaves the map when all of its users have let go.
Leaves == \A s \in mMap \ mMap' : Users(s) \subseteq LetGo(s)

LEMMA StepLeaves ==
  ASSUME TypeOK, LeftLetGo, [Next]_vars
  PROVE  Leaves
<1>. USE DEF Leaves
<1>1. CASE UNCHANGED vars
  BY <1>1 DEF vars, itemVars
<1>2. ASSUME NEW n \in Nodes, NodeStep(n)
      PROVE  Leaves
  BY <1>2 DEF NodeStep, Arrive, GetBuffer, GetBufferFails, MarkOnBuffer, SendToAiawb, Dispatch, itemVars
<1>3. ASSUME NEW u \in Actors, NEW s \in Streams, NEW st \in Statuses(u), MarkOnFrame(u, s, st)
      PROVE  Leaves
  BY <1>3 DEF MarkOnFrame, itemVars
<1>4. ASSUME NEW u \in Actors, NEW isPre \in BOOLEAN, LockApply(u, isPre)
      PROVE  Leaves
  BY <1>4 DEF LockApply, itemVars
<1>5. ASSUME NEW u \in Actors, Leave(u)
      PROVE  Leaves
  BY <1>5 DEF Leave, itemVars
<1>6. CASE ApplyStep
  BY <1>6 DEF ApplyStep, VisitProducers, VisitUsers, FinishUpdate, SweepItem, SweepDone, Deliver, itemVars,
     Collect, HaveAllUsersReleased, HaveAllUsersReleasedOrPreReleased, LetGo
<1>7. CASE HolderStep
  BY <1>7 DEF HolderStep, Transfer, ResetUsers, DropHistory, itemVars
<1>8. CASE Destroy
  <2>1. SUFFICES ASSUME NEW s \in mMap, NEW u \in Users(s)
                 PROVE  u \in LetGo(s)
    OBVIOUS
  <2>2. s \in Streams /\ u \in Actors /\ (u = Aiawb => s \in joined)
    BY Basics DEF TypeOK, Users, Actors
  <2>3. at[u] = "left"
    BY <1>8, <2>2 DEF Destroy, LeftLetGo, TypeOK, Actors
  <2>. QED  BY <2>2, <2>3 DEF LeftLetGo
<1>. QED  BY <1>1, <1>2, <1>3, <1>4, <1>5, <1>6, <1>7, <1>8 DEF Next, ActorStep

\* An entry is erased when the node has let go, or its item was reset; the
\* last user to let go takes the item out of the map.
Erases ==
  \A n \in Nodes : \A s \in ioSet[n] \ ioSet'[n] :
    \/ s \in inactive
    \/ /\ n \in LetGo(s)
       /\ s \in mMap' => ~(Users(s) \subseteq LetGo(s)) \/ s \in inactive
       /\ \A m \in Nodes \ {n} : ioSet'[m] = ioSet[m]

LEMMA StepErases ==
  ASSUME TypeOK, [Next]_vars
  PROVE  Erases
<1>. USE DEF Erases
<1>1. CASE UNCHANGED vars
  BY <1>1 DEF vars, itemVars
<1>2. ASSUME NEW n \in Nodes, NodeStep(n)
      PROVE  Erases
  BY <1>2 DEF NodeStep, Arrive, GetBuffer, GetBufferFails, MarkOnBuffer, SendToAiawb, Dispatch, itemVars
<1>3. ASSUME NEW u \in Actors, NEW s \in Streams, NEW st \in Statuses(u), MarkOnFrame(u, s, st)
      PROVE  Erases
  BY <1>3 DEF MarkOnFrame, itemVars
<1>4. ASSUME NEW u \in Actors, NEW isPre \in BOOLEAN, LockApply(u, isPre)
      PROVE  Erases
  BY <1>4 DEF LockApply, itemVars
<1>5. ASSUME NEW u \in Actors, Leave(u)
      PROVE  Erases
  BY <1>5 DEF Leave, itemVars
<1>6. CASE ApplyStep
  <2>1. ASSUME NEW s \in Streams, VisitProducers(s)
        PROVE  Erases
    BY <2>1 DEF VisitProducers, IsActive, TypeOK
  <2>2. CASE VisitUsers
    BY <2>2 DEF VisitUsers, UserLetGo, HaveAllUsersReleasedOrPreReleased, IsActive, Collect, TypeOK
  <2>. QED  BY <1>6, <2>1, <2>2 DEF ApplyStep, FinishUpdate, SweepItem, SweepDone, Deliver, itemVars
<1>7. CASE HolderStep
  BY <1>7 DEF HolderStep, Transfer, ResetUsers, DropHistory, itemVars
<1>8. CASE Destroy
  BY <1>8 DEF Destroy
<1>. QED  BY <1>1, <1>2, <1>3, <1>4, <1>5, <1>6, <1>7, <1>8 DEF Next, ActorStep

LEMMA ReturnedStep ==
  ASSUME TypeOK, ReturnedWhenReleased, Grows, Joins, Leaves
  PROVE  ReturnedWhenReleased'
<1>. SUFFICES ASSUME NEW s \in Streams, s \notin mMap'
              PROVE  (Users(s) \subseteq LetGo(s))'
  BY DEF ReturnedWhenReleased
<1>1. Users(s) \subseteq LetGo(s)
  BY DEF Leaves, ReturnedWhenReleased
<1>2. s \notin joined' \ joined
  BY <1>1 DEF Joins, Users
<1>. QED  BY <1>1, <1>2 DEF Grows, Users

LEMMA ErasedStep ==
  ASSUME TypeOK, ReturnedWhenReleased, ErasedMeansLetGo, PlaceFits, Grows, Erases
  PROVE  ErasedMeansLetGo'
<1>1. \A n \in Nodes : ioSet'[n] \subseteq StreamsOf(n)
  BY DEF ErasedMeansLetGo, Grows
<1>2. ASSUME NEW n \in Nodes, NEW s \in StreamsOf(n), s \notin ioSet'[n]
      PROVE  n \in LetGo(s)
  <2>1. CASE s \notin ioSet[n]
    BY <2>1 DEF ErasedMeansLetGo
  <2>2. CASE s \in inactive
    <3>1. s \in Streams /\ n \in Users(s)
      BY Basics DEF Users
    <3>2. s \notin mMap
      BY <2>2 DEF PlaceFits
    <3>. QED  BY <3>1, <3>2 DEF ReturnedWhenReleased
  <2>. QED  BY <1>2, <2>1, <2>2 DEF Erases
<1>. QED  BY <1>1, <1>2, Basics DEF ErasedMeansLetGo, Grows

LEMMA NotStrandedStep ==
  ASSUME TypeOK, ErasedMeansLetGo, NotStranded, PlaceFits, Grows, Erases
  PROVE  NotStranded'
<1>. SUFFICES ASSUME NEW s \in mMap', s \notin joined'
              PROVE  \E n \in NodeUsers(s) : s \in ioSet'[n]
  BY DEF NotStranded
<1>1. s \in mMap /\ s \in Streams /\ s \notin joined /\ s \notin inactive
  BY DEF Grows, TypeOK, PlaceFits
<1>2. PICK n \in NodeUsers(s) : s \in ioSet[n]
  BY <1>1 DEF NotStranded
<1>3. n \in Nodes
  BY <1>1, Basics
<1>4. CASE s \notin ioSet'[n]
  <2>1. /\ n \in LetGo(s)
        /\ ~(Users(s) \subseteq LetGo(s))
        /\ \A m \in Nodes \ {n} : ioSet'[m] = ioSet[m]
    BY <1>1, <1>2, <1>3, <1>4 DEF Erases
  <2>2. PICK u \in NodeUsers(s) : u \notin LetGo(s)
    BY <1>1, <2>1 DEF Users
  <2>3. u \in Nodes /\ s \in StreamsOf(u)
    BY <1>1, Basics
  <2>4. s \in ioSet[u]
    BY <2>2, <2>3 DEF ErasedMeansLetGo
  <2>. QED  BY <2>1, <2>2, <2>3, <2>4
<1>. QED  BY <1>2, <1>4

LEMMA TypeOKStep ==
  ASSUME TypeOK, ApplyFits, [Next]_vars
  PROVE  TypeOK'
<1>. USE DEF TypeOK, Places
<1>1. CASE UNCHANGED vars
  BY <1>1 DEF vars, frameVars, userVars, bufVars, itemVars, applyVars, metaVars
<1>2. ASSUME NEW n \in Nodes, NodeStep(n)
      PROVE  TypeOK'
  <2>1. n \in Actors
    BY DEF Actors
  <2>2. CASE Arrive(n)
    BY <2>1, <2>2 DEF Arrive, userVars, bufVars, itemVars, applyVars, metaVars
  <2>3. ASSUME NEW s \in Streams, GetBuffer(n, s)
        PROVE  TypeOK'
    BY <2>3 DEF GetBuffer, frameVars, userVars, itemVars, applyVars, metaVars
  <2>4. ASSUME NEW s \in Streams, GetBufferFails(n, s)
        PROVE  TypeOK'
    BY <2>1, <2>4 DEF GetBufferFails, Mark, frameVars, itemVars, applyVars, metaVars
  <2>5. ASSUME NEW s \in Streams, NEW st \in Statuses(n), MarkOnBuffer(n, s, st)
        PROVE  TypeOK'
    BY <2>1, <2>5 DEF MarkOnBuffer, Mark, frameVars, bufVars, itemVars, applyVars, metaVars
  <2>6. ASSUME NEW s \in Streams, SendToAiawb(n, s)
        PROVE  TypeOK'
    BY <2>6 DEF SendToAiawb, Actors, bufVars, itemVars, applyVars, metaVars
  <2>7. CASE Dispatch(n)
    BY <2>7 DEF Dispatch, userVars, bufVars, itemVars, applyVars, metaVars
  <2>. QED  BY <1>2, <2>2, <2>3, <2>4, <2>5, <2>6, <2>7 DEF NodeStep
<1>3. ASSUME NEW u \in Actors, NEW s \in Streams, NEW st \in Statuses(u), MarkOnFrame(u, s, st)
      PROVE  TypeOK'
  BY <1>3 DEF MarkOnFrame, Mark, frameVars, bufVars, itemVars, applyVars, metaVars
<1>4. ASSUME NEW u \in Actors, NEW isPre \in BOOLEAN, LockApply(u, isPre)
      PROVE  TypeOK'
  BY <1>4 DEF LockApply, Actors, Streams, Images, frameVars, bufVars, itemVars, metaVars
<1>5. ASSUME NEW u \in Actors, Leave(u)
      PROVE  TypeOK'
  BY <1>5 DEF Leave, userVars, bufVars, itemVars, applyVars, metaVars
<1>6. CASE ApplyStep
  <2>1. ASSUME NEW s \in Streams, VisitProducers(s)
        PROVE  TypeOK'
    BY <2>1 DEF VisitProducers, ProducersReleased, MetaKinds, ApplyFits,
       frameVars, userVars, bufVars
  <2>2. CASE VisitUsers
    BY <2>2 DEF VisitUsers, Collect, frameVars, userVars, metaVars
  <2>3. CASE FinishUpdate
    BY <2>3 DEF FinishUpdate, ApplyFits, frameVars, userVars, bufVars, metaVars
  <2>4. ASSUME NEW s \in Streams, SweepItem(s)
        PROVE  TypeOK'
    BY <2>4 DEF SweepItem, Collect, frameVars, userVars, metaVars
  <2>5. CASE SweepDone
    BY <2>5 DEF SweepDone, frameVars, userVars, bufVars, itemVars, metaVars
  <2>6. CASE Deliver
    BY <2>6 DEF Deliver, Destination, frameVars, userVars, itemVars
  <2>. QED  BY <1>6, <2>1, <2>2, <2>3, <2>4, <2>5, <2>6 DEF ApplyStep
<1>7. CASE HolderStep
  BY <1>7 DEF HolderStep, Transfer, ResetUsers, DropHistory, frameVars, userVars, bufVars, itemVars,
     applyVars, metaVars
<1>8. CASE Destroy
  BY <1>8 DEF Destroy, frameVars, userVars, applyVars
<1>. QED  BY <1>1, <1>2, <1>3, <1>4, <1>5, <1>6, <1>7, <1>8 DEF Next, ActorStep

LEMMA PlaceStep ==
  ASSUME TypeOK, PlaceFits, [Next]_vars
  PROVE  PlaceFits'
<1>. USE DEF TypeOK, PlaceFits
<1>1. CASE UNCHANGED vars
  BY <1>1 DEF vars, frameVars, userVars, bufVars, itemVars, Users, LetGo
<1>2. ASSUME NEW n \in Nodes, NodeStep(n)
      PROVE  PlaceFits'
  <2>1. CASE Arrive(n) \/ Dispatch(n)
    BY <2>1 DEF Arrive, Dispatch, userVars, bufVars, itemVars, Users, LetGo
  <2>2. ASSUME NEW s \in Streams, GetBuffer(n, s)
        PROVE  PlaceFits'
    <3>1. n \in NodeUsers(s) /\ s \notin inactive
      BY <2>2, Basics DEF GetBuffer, Asks
    <3>2. /\ place' = [place EXCEPT ![s] = "frame"]
          /\ granted' \in {granted, [granted EXCEPT ![s] = @ \cup {n}]}
          /\ UNCHANGED <<released, preReleased, inactive, joined, mMap>>
      BY <2>2 DEF GetBuffer, userVars, itemVars
    <3>3. \A t \in Streams : Users(t)' = Users(t) /\ LetGo(t)' = LetGo(t)
      BY <3>2 DEF Users, LetGo
    <3>4. \A t \in Streams : granted[t] \subseteq granted'[t] /\ granted'[t] \subseteq granted[t] \cup {n}
      BY <3>2
    <3>5. \A t \in Streams : t # s => granted'[t] = granted[t] /\ place'[t] = place[t]
      BY <3>2
    <3>6. place'[s] = "frame" /\ joined' = joined /\ mMap' = mMap /\ inactive' = inactive
      BY <3>2
    <3>7. \A t \in mMap' : place'[t] \in {"none", "failed", "frame"}
      BY <3>5, <3>6
    <3>8. \A t \in Streams : /\ granted'[t] # {} => place'[t] \notin {"none", "failed"}
                             /\ granted'[t] \subseteq NodeUsers(t)
      BY <3>1, <3>4, <3>5, <3>6
    <3>9. (\A t \in joined' : granted'[t] # {}) /\ (\A t \in inactive' : place'[t] = "taken")
      BY <3>1, <3>4, <3>5, <3>6, KindsAssumption DEF Streams, Images
    <3>10. \A t \in Streams : (LetGo(t) \subseteq Users(t))'
      BY <3>3
    <3>. QED  BY <3>7, <3>8, <3>9, <3>10
  <2>3. ASSUME NEW s \in Streams, GetBufferFails(n, s)
        PROVE  PlaceFits'
    <3>1. n \in Users(s)
      BY <2>3, Basics DEF GetBufferFails, Asks, Users
    <3>. QED  BY <2>3, <3>1 DEF GetBufferFails, Asks, Mark, itemVars, Users, LetGo, IsActive
  <2>4. ASSUME NEW s \in Streams, NEW st \in Statuses(n), MarkOnBuffer(n, s, st)
        PROVE  PlaceFits'
    BY <2>4 DEF MarkOnBuffer, Mark, bufVars, itemVars, Users, LetGo
  <2>5. ASSUME NEW s \in Streams, SendToAiawb(n, s)
        PROVE  PlaceFits'
    BY <2>5 DEF SendToAiawb, bufVars, itemVars, Users, LetGo
  <2>. QED  BY <1>2, <2>1, <2>2, <2>3, <2>4, <2>5 DEF NodeStep
<1>3. ASSUME NEW u \in Actors, NEW s \in Streams, NEW st \in Statuses(u), MarkOnFrame(u, s, st)
      PROVE  PlaceFits'
  BY <1>3 DEF MarkOnFrame, Mark, bufVars, itemVars, Users, LetGo
<1>4. ASSUME NEW u \in Actors, NEW isPre \in BOOLEAN, LockApply(u, isPre)
      PROVE  PlaceFits'
  BY <1>4 DEF LockApply, bufVars, itemVars, Users, LetGo
<1>5. ASSUME NEW u \in Actors, Leave(u)
      PROVE  PlaceFits'
  BY <1>5 DEF Leave, userVars, bufVars, itemVars, Users, LetGo
<1>6. CASE ApplyStep
  <2>1. CASE (\E s \in Streams : VisitProducers(s)) \/ FinishUpdate \/ SweepDone
    BY <2>1 DEF VisitProducers, FinishUpdate, SweepDone, userVars, bufVars, itemVars, Users, LetGo
  <2>2. CASE VisitUsers \/ (\E s \in Streams : SweepItem(s))
    BY <2>2 DEF VisitUsers, SweepItem, Collect, userVars, Users, LetGo
  <2>3. CASE Deliver
    BY <2>3 DEF Deliver, Destination, userVars, itemVars, Users, LetGo
  <2>. QED  BY <1>6, <2>1, <2>2, <2>3 DEF ApplyStep
<1>7. CASE HolderStep
  BY <1>7 DEF HolderStep, Transfer, ResetUsers, DropHistory, userVars, bufVars, itemVars, Users, LetGo
<1>8. CASE Destroy
  BY <1>8 DEF Destroy, userVars, Users, LetGo
<1>. QED  BY <1>1, <1>2, <1>3, <1>4, <1>5, <1>6, <1>7, <1>8 DEF Next, ActorStep

LEMMA LeftStep ==
  ASSUME TypeOK, LeftLetGo, Grows, [Next]_vars
  PROVE  LeftLetGo'
<1>. USE DEF TypeOK, LeftLetGo, Grows
<1>1. CASE UNCHANGED vars
  BY <1>1 DEF vars, frameVars, userVars, Users
<1>2. ASSUME NEW n \in Nodes, NodeStep(n)
      PROVE  LeftLetGo'
  <2>1. CASE Arrive(n)
    BY <2>1 DEF Arrive, Actors, userVars, Users
  <2>2. CASE Dispatch(n)
    BY <2>2 DEF Dispatch, userVars, Users
  <2>3. ASSUME NEW s \in Streams, GetBuffer(n, s) \/ GetBufferFails(n, s)
        PROVE  LeftLetGo'
    BY <2>3 DEF GetBuffer, GetBufferFails, frameVars, userVars, Users
  <2>4. ASSUME NEW s \in Streams, NEW st \in Statuses(n), MarkOnBuffer(n, s, st)
        PROVE  LeftLetGo'
    BY <2>4 DEF MarkOnBuffer, frameVars, Users
  <2>5. ASSUME NEW s \in Streams, SendToAiawb(n, s)
        PROVE  LeftLetGo'
    <3>1. at' = [at EXCEPT ![Aiawb] = "working"] /\ at[Aiawb] # "left" /\ at[n] = "working"
      BY <2>5 DEF SendToAiawb
    <3>2. joined' = joined \cup {s} /\ destroyed' = destroyed /\ LetGo(s)' = LetGo(s)
      BY <2>5 DEF SendToAiawb, LetGo
    <3>3. \A u \in Actors \ {Aiawb} : at'[u] = at[u] /\ \A t \in Streams : u \in Users(t)' => u \in Users(t)
      BY <3>1, <3>2 DEF Users
    <3>4. at'[Aiawb] = "working"
      BY <3>1 DEF Actors
    <3>5. ~destroyed
      BY <3>1
    <3>. QED  BY <3>2, <3>3, <3>4, <3>5
  <2>. QED  BY <1>2, <2>1, <2>2, <2>3, <2>4, <2>5 DEF NodeStep
<1>3. ASSUME NEW u \in Actors, NEW s \in Streams, NEW st \in Statuses(u), MarkOnFrame(u, s, st)
      PROVE  LeftLetGo'
  BY <1>3 DEF MarkOnFrame, frameVars, Users
<1>4. ASSUME NEW u \in Actors, NEW isPre \in BOOLEAN, LockApply(u, isPre)
      PROVE  LeftLetGo'
  BY <1>4 DEF LockApply, frameVars, Users
<1>5. ASSUME NEW u \in Actors, Leave(u)
      PROVE  LeftLetGo'
  BY <1>5 DEF Leave, Actors, userVars, Users
<1>6. CASE ApplyStep
  <2>1. UNCHANGED <<at, joined, released, preReleased, destroyed>>
    BY <1>6 DEF ApplyStep, VisitProducers, VisitUsers, FinishUpdate, SweepItem, SweepDone, Deliver,
       frameVars, userVars
  <2>. QED  BY <2>1 DEF Users
<1>7. CASE HolderStep
  BY <1>7 DEF HolderStep, Transfer, ResetUsers, DropHistory, frameVars, userVars, Users
<1>8. CASE Destroy
  BY <1>8 DEF Destroy, frameVars, userVars, Users
<1>. QED  BY <1>1, <1>2, <1>3, <1>4, <1>5, <1>6, <1>7, <1>8 DEF Next, ActorStep

LEMMA DispatchStep ==
  ASSUME TypeOK, DispatchFits, Grows, [Next]_vars
  PROVE  DispatchFits'
<1>. USE DEF TypeOK, DispatchFits
<1>1. \A n \in Nodes : \A s \in Shared(n) : s \in Streams
  BY Basics DEF Shared, shared
<1>2. CASE UNCHANGED <<at, dispatched>>
  BY <1>1, <1>2 DEF Grows
<1>3. ASSUME NEW n \in Nodes, Arrive(n)
      PROVE  DispatchFits'
  BY <1>3, <1>1 DEF Arrive, Grows, Actors
<1>4. ASSUME NEW n \in Nodes, Dispatch(n)
      PROVE  DispatchFits'
  BY <1>4, <1>1 DEF Dispatch, Grows
<1>5. ASSUME NEW n \in Nodes, NEW s \in Streams, SendToAiawb(n, s)
      PROVE  DispatchFits'
  BY <1>5, <1>1 DEF SendToAiawb, Grows, Actors
<1>6. ASSUME NEW u \in Actors, Leave(u)
      PROVE  DispatchFits'
  BY <1>6, <1>1 DEF Leave, Grows, Actors
<1>7. ASSUME NEW u \in Actors, ActorStep(u)
      PROVE  DispatchFits'
  BY <1>2, <1>3, <1>4, <1>5, <1>6, <1>7 DEF ActorStep, NodeStep, GetBuffer, GetBufferFails,
     MarkOnBuffer, MarkOnFrame, LockApply, frameVars
<1>8. CASE ApplyStep
  BY <1>2, <1>8 DEF ApplyStep, VisitProducers, VisitUsers, FinishUpdate, SweepItem, SweepDone, Deliver,
     frameVars
<1>9. CASE HolderStep \/ Destroy \/ UNCHANGED vars
  BY <1>2, <1>9 DEF HolderStep, Transfer, ResetUsers, DropHistory, Destroy, vars, frameVars
<1>. QED  BY <1>7, <1>8, <1>9 DEF Next

LEMMA DoneStep ==
  ASSUME TypeOK, DoneFits, ApplyFits, Grows, [Next]_vars
  PROVE  DoneFits'
<1>1. CASE FinishUpdate
  BY <1>1 DEF FinishUpdate, DoneFits, TypeOK, ApplyFits
<1>2. CASE UNCHANGED <<notified, mAlreadyApplyPreRelease>>
  BY <1>2 DEF DoneFits, Grows, TypeOK
<1>3. ASSUME NEW n \in Nodes, NodeStep(n)
      PROVE  UNCHANGED <<notified, mAlreadyApplyPreRelease>>
  BY <1>3 DEF NodeStep, Arrive, GetBuffer, GetBufferFails, MarkOnBuffer, SendToAiawb, Dispatch, itemVars
<1>4. ASSUME NEW u \in Actors, ActorStep(u)
      PROVE  UNCHANGED <<notified, mAlreadyApplyPreRelease>>
  BY <1>3, <1>4 DEF ActorStep, MarkOnFrame, LockApply, Leave, itemVars
<1>5. CASE ApplyStep
  BY <1>1, <1>2, <1>5 DEF ApplyStep, VisitProducers, VisitUsers, SweepItem, SweepDone, Deliver, itemVars
<1>6. CASE HolderStep \/ Destroy \/ UNCHANGED vars
  BY <1>2, <1>6 DEF HolderStep, Transfer, ResetUsers, DropHistory, Destroy, vars, itemVars
<1>. QED  BY <1>2, <1>4, <1>5, <1>6 DEF Next

LEMMA ApplyFitsStep ==
  ASSUME TypeOK, ErasedMeansLetGo, ApplyFits, [Next]_vars
  PROVE  ApplyFits'
<1>. USE DEF TypeOK, ApplyFits
<1>1. CASE UNCHANGED vars
  BY <1>1 DEF vars, frameVars, applyVars
<1>2. ASSUME NEW n \in Nodes, NodeStep(n)
      PROVE  ApplyFits'
  BY <1>2 DEF NodeStep, Arrive, GetBuffer, GetBufferFails, MarkOnBuffer, SendToAiawb, Dispatch,
     frameVars, applyVars, Actors
<1>3. ASSUME NEW u \in Actors, NEW s \in Streams, NEW st \in Statuses(u), MarkOnFrame(u, s, st)
      PROVE  ApplyFits'
  BY <1>3 DEF MarkOnFrame, frameVars, applyVars
<1>4. ASSUME NEW u \in Actors, NEW isPre \in BOOLEAN, LockApply(u, isPre)
      PROVE  ApplyFits'
  BY <1>4 DEF LockApply, ErasedMeansLetGo, Actors, frameVars
<1>5. ASSUME NEW u \in Actors, Leave(u)
      PROVE  ApplyFits'
  BY <1>5 DEF Leave, applyVars
<1>6. CASE ApplyStep
  BY <1>6 DEF ApplyStep, VisitProducers, VisitUsers, FinishUpdate, SweepItem, SweepDone, Deliver, frameVars
<1>7. CASE HolderStep \/ Destroy
  BY <1>7 DEF HolderStep, Transfer, ResetUsers, DropHistory, Destroy, frameVars, applyVars
<1>. QED  BY <1>1, <1>2, <1>3, <1>4, <1>5, <1>6, <1>7 DEF Next, ActorStep

LEMMA OneUserStep ==
  ASSUME TypeOK, OneUserAtATime, Grows, [Next]_vars
  PROVE  OneUserAtATime'
<1>1. CASE granted' = granted
  BY <1>1 DEF OneUserAtATime, Grows
<1>2. ASSUME NEW n \in Nodes, NEW s \in Streams, GetBuffer(n, s)
      PROVE  OneUserAtATime'
  <2>1. \A t \in Streams : \A m \in granted'[t] : m \in granted[t] \/ (m = n /\ PriorUsersLetGo(t, m))
    BY <1>2 DEF GetBuffer, TypeOK
  <2>. QED  BY <2>1 DEF OneUserAtATime, PriorUsersLetGo, Grows
<1>3. ASSUME NEW u \in Actors, ActorStep(u)
      PROVE  OneUserAtATime'
  BY <1>1, <1>2, <1>3 DEF ActorStep, NodeStep, Arrive, GetBufferFails, MarkOnBuffer, SendToAiawb,
     Dispatch, MarkOnFrame, LockApply, Leave, bufVars
<1>4. CASE ApplyStep
  BY <1>1, <1>4 DEF ApplyStep, VisitProducers, VisitUsers, FinishUpdate, SweepItem, SweepDone, Deliver,
     bufVars
<1>5. CASE HolderStep \/ Destroy \/ UNCHANGED vars
  BY <1>1, <1>5 DEF HolderStep, Transfer, ResetUsers, DropHistory, Destroy, vars, bufVars
<1>. QED  BY <1>3, <1>4, <1>5 DEF Next

-----------------------------------------------------------------------------

LEMMA LeftIsInt == [k \in MetaKinds |-> Cardinality(OutMetas(MetasOf[k]))] \in [MetaKinds -> Int]
<1>1. ASSUME NEW k \in MetaKinds
      PROVE  Cardinality(OutMetas(MetasOf[k])) \in Nat
  <2>1. IsFiniteSet(MetasOf[k])
    BY MetasAssumption DEF MetasOf, MetaKinds
  <2>2. OutMetas(MetasOf[k]) \subseteq MetasOf[k]
    BY DEF OutMetas
  <2>. QED  BY <2>1, <2>2, FS_Subset, FS_CardinalityType
<1>. QED  BY <1>1

LEMMA InitUserInv == Init => UserInv
<1>. SUFFICES ASSUME Init
              PROVE  UserInv
  OBVIOUS
<1>. USE DEF Init
<1>1. TypeOK
  BY LeftIsInt, Basics DEF TypeOK, Places, Actors
<1>2. ReturnedWhenReleased /\ ErasedMeansLetGo /\ OneUserAtATime /\ ApplyFits
  BY Basics DEF ReturnedWhenReleased, ErasedMeansLetGo, OneUserAtATime, ApplyFits, Actors
<1>3. NotStranded
  BY Basics DEF NotStranded
<1>4. PlaceFits
  BY DEF PlaceFits, LetGo
<1>5. LeftLetGo /\ DoneFits /\ DispatchFits
  BY DEF LeftLetGo, DoneFits, DispatchFits, Actors
<1>. QED  BY <1>1, <1>2, <1>3, <1>4, <1>5 DEF UserInv

\* UserInv is preserved by every step.
LEMMA UserInvStep ==
  ASSUME UserInv, [Next]_vars
  PROVE  UserInv'
<1>1. Grows /\ Joins /\ Leaves /\ Erases
  BY StepGrows, StepJoins, StepLeaves, StepErases DEF UserInv
<1>2. TypeOK' /\ ReturnedWhenReleased' /\ ErasedMeansLetGo'
  BY <1>1, TypeOKStep, ReturnedStep, ErasedStep DEF UserInv
<1>3. NotStranded' /\ PlaceFits' /\ LeftLetGo'
  BY <1>1, NotStrandedStep, PlaceStep, LeftStep DEF UserInv
<1>4. DoneFits' /\ ApplyFits' /\ OneUserAtATime' /\ DispatchFits'
  BY <1>1, DoneStep, ApplyFitsStep, OneUserStep, DispatchStep DEF UserInv
<1>. QED  BY <1>2, <1>3, <1>4 DEF UserInv

\* The invariant of a frame: its map, the IO entries of its nodes, the users
\* of its buffers and the places of the buffers agree.
LEMMA UserInvariance == Spec => []UserInv
  BY InitUserInv, UserInvStep, PTL DEF Spec

\* updateNodeStatus(), the AIAWB sweep and onLastStrongRef() take an item out
\* of the map only after every user of its buffer has let go.
THEOREM Returned == Spec => []ReturnedWhenReleased
<1>1. UserInv => ReturnedWhenReleased
  BY DEF UserInv
<1>. QED  BY <1>1, UserInvariance, PTL

\* A buffer given to a node by getBufferLocked(), or sent to AIAWB by P1, stays
\* with the frame until that user lets go of it.
THEOREM Held == Spec => []HeldWhileUsed
<1>1. UserInv => HeldWhileUsed
  <2>1. SUFFICES ASSUME UserInv, NEW s \in Streams, NEW u \in granted[s] \cup (Users(s) \ Nodes),
                        u \notin LetGo(s)
                 PROVE  place[s] = "frame"
    BY DEF HeldWhileUsed
  <2>2. u \in Users(s) /\ granted[s] # {}
    BY <2>1, Basics DEF UserInv, PlaceFits, Users
  <2>3. s \in mMap
    BY <2>1, <2>2 DEF UserInv, ReturnedWhenReleased
  <2>4. place[s] \in {"none", "failed", "frame"} /\ place[s] \notin {"none", "failed"}
    BY <2>1, <2>2, <2>3 DEF UserInv, PlaceFits
  <2>. QED  BY <2>4
<1>. QED  BY <1>1, UserInvariance, PTL

\* A node is given a buffer only after every user ahead of it in the graph, at
\* any distance, has let go of it (getBufferLocked()).
THEOREM OneUser == Spec => []OneUserAtATime
<1>1. UserInv => OneUserAtATime
  BY DEF UserInv
<1>. QED  BY <1>1, UserInvariance, PTL

\* When the frame is marked done, its map holds only streams AIAWB joined:
\* everything else has been collected.
THEOREM Done == Spec => []DoneMeansReleased
<1>1. UserInv => DoneMeansReleased
  <2>1. SUFFICES ASSUME UserInv, mAlreadyApplyPreRelease, NEW s \in mMap
                 PROVE  s \in joined
    BY DEF DoneMeansReleased
  <2>2. \A n \in Nodes : ioSet[n] = {}
    BY <2>1 DEF UserInv, DoneFits
  <2>3. s \in Streams /\ NodeUsers(s) \subseteq Nodes
    BY <2>1, Basics DEF UserInv, TypeOK
  <2>. QED  BY <2>1, <2>2, <2>3 DEF UserInv, NotStranded
<1>. QED  BY <1>1, UserInvariance, PTL

\* When no node dispatches early, a node that has the frame can get every
\* buffer it has not let go of (BaseNode::flush() asks getBufferLocked()).
THEOREM Reachable ==
  ASSUME EarlyDispatchers = {}
  PROVE  Spec => []BufferReachable
<1>1. UserInv => BufferReachable
  <2>1. SUFFICES ASSUME UserInv, NEW n \in Nodes, NEW s \in StreamsOf(n),
                        at[n] = "working", n \notin LetGo(s)
                 PROVE  s \in mMap /\ PriorUsersLetGo(s, n)
    BY DEF BufferReachable
  <2>2. s \in Streams /\ n \in NodeUsers(s)
    BY <2>1, Basics
  <2>3. s \in mMap
    BY <2>1, <2>2 DEF UserInv, ReturnedWhenReleased, Users
  <2>4. IsActive(s)
    BY <2>1, <2>3 DEF IsActive, UserInv, PlaceFits
  <2>5. Closed(dispatched \cup {n})
    BY <2>1 DEF Closed, UserInv, DispatchFits, TypeOK
  <2>6. Ahead(n) \subseteq dispatched
    <3>1. dispatched \cup {n} \in SUBSET Nodes
      BY <2>1 DEF UserInv, TypeOK
    <3>. QED  BY <2>1, <2>5, <3>1 DEF Ahead, ahead
  <2>7. ASSUME NEW m \in NodeUsers(s) \cap Ahead(n)
        PROVE  m \in LetGo(s)
    <3>1. m \in Nodes /\ m \in NodeUsers(s) /\ s \in StreamsOf(m)
      BY <2>2, Basics
    <3>2. n \in Nodes /\ m \in Ahead(n)
      OBVIOUS
    <3>3. s \in Shared(m)
      BY <2>2, <3>1, <3>2 DEF Shared, shared
    <3>. QED  BY <2>1, <2>6, <2>7, <3>3 DEF UserInv, DispatchFits
  <2>. QED  BY <2>3, <2>4, <2>7 DEF PriorUsersLetGo
<1>. QED  BY <1>1, UserInvariance, PTL

-----------------------------------------------------------------------------

\* A mark is one user letting go of one buffer.
LEMMA MarkLetsGo ==
  ASSUME UserInv, NEW s \in Streams, NEW u \in Users(s), NEW st,
         at[u] = "working", Mark(s, u, st), UNCHANGED <<joined, mMap, destroyed>>
  PROVE  Life!Next
<1>1. u \in Actors /\ ~destroyed
  BY Basics DEF UserInv, TypeOK, LeftLetGo, Users, Actors
<1>2. \A t \in Streams : LetGo(t)' = IF t = s THEN LetGo(s) \cup {u} ELSE LetGo(t)
  BY DEF Mark, LetGo, UserInv, TypeOK
<1>3. [t \in Streams |-> LetGo(t)]' = [[t \in Streams |-> LetGo(t)] EXCEPT ![s] = @ \cup {u}]
  BY <1>2
<1>4. [t \in Streams |-> Users(t)]' = [t \in Streams |-> Users(t)]
  BY DEF Users
<1>5. u \in [t \in Streams |-> Users(t)][s]
  OBVIOUS
<1>6. Life!LetGo(s)
  BY <1>1, <1>3, <1>4, <1>5 DEF Life!LetGo
<1>. QED  BY <1>6 DEF Life!Next

\* What is collected is given back.
LEMMA CollectGivesBack ==
  ASSUME UserInv, NEW s \in Streams, NEW R, R = {} \/ R = {s} \cap mMap,
         R # {} => Users(s) \subseteq LetGo(s),
         ~destroyed, Collect(R), UNCHANGED <<joined, released, preReleased, destroyed>>
  PROVE  [Life!Next]_Life!vars
<1>1. /\ [t \in Streams |-> Users(t)]' = [t \in Streams |-> Users(t)]
      /\ [t \in Streams |-> LetGo(t)]' = [t \in Streams |-> LetGo(t)]
  BY DEF Users, LetGo
<1>2. CASE R = {}
  BY <1>1, <1>2 DEF Collect, Life!vars
<1>3. CASE R # {}
  <2>1. s \in mMap /\ mMap' = mMap \ {s} /\ Users(s) \subseteq LetGo(s)
    BY <1>3 DEF Collect
  <2>2. Life!GiveBack(s)
    BY <1>1, <2>1 DEF Life!GiveBack, Life!Idle
  <2>. QED  BY <2>2 DEF Life!Next
<1>. QED  BY <1>2, <1>3

\* Nothing the abstract life sees changes.
LEMMA Stutters ==
  ASSUME UNCHANGED <<joined, released, preReleased, mMap, destroyed>>
  PROVE  UNCHANGED Life!vars
  BY DEF Life!vars, Users, LetGo

\* Every step of the frame is a step of the abstract life of its buffers, or none.
LEMMA StepImplements ==
  ASSUME UserInv, [Next]_vars
  PROVE  [Life!Next]_Life!vars
<1>1. CASE UNCHANGED vars
  BY <1>1, Stutters DEF vars, userVars, itemVars
<1>2. ASSUME NEW n \in Nodes, NodeStep(n)
      PROVE  [Life!Next]_Life!vars
  <2>1. CASE Arrive(n) \/ Dispatch(n) \/ \E s \in Streams : GetBuffer(n, s)
    BY <2>1, Stutters DEF Arrive, Dispatch, GetBuffer, userVars, itemVars
  <2>2. ASSUME NEW s \in Streams, GetBufferFails(n, s)
        PROVE  [Life!Next]_Life!vars
    <3>1. n \in Users(s) /\ at[n] = "working" /\ Mark(s, n, "RELEASE")
      BY <2>2, Basics DEF GetBufferFails, Asks, Users
    <3>2. UNCHANGED <<joined, mMap, destroyed>>
      BY <2>2 DEF GetBufferFails, itemVars
    <3>. QED  BY <3>1, <3>2, MarkLetsGo
  <2>3. ASSUME NEW s \in Streams, NEW st \in Statuses(n), MarkOnBuffer(n, s, st)
        PROVE  [Life!Next]_Life!vars
    <3>1. n \in Users(s) /\ at[n] = "working" /\ Mark(s, n, st)
      BY <2>3 DEF MarkOnBuffer, Users, UserInv, PlaceFits
    <3>2. UNCHANGED <<joined, mMap, destroyed>>
      BY <2>3 DEF MarkOnBuffer, itemVars
    <3>. QED  BY <3>1, <3>2, MarkLetsGo
  <2>4. ASSUME NEW s \in Streams, SendToAiawb(n, s)
        PROVE  [Life!Next]_Life!vars
    <3>1. n \in Users(s) /\ n \notin LetGo(s) /\ ~destroyed
      BY <2>4 DEF SendToAiawb, Users, UserInv, PlaceFits, LeftLetGo
    <3>2. s \in mMap
      BY <3>1 DEF UserInv, ReturnedWhenReleased
    <3>3. \A t \in Streams : Users(t)' = IF t = s THEN Users(s) \cup {Aiawb} ELSE Users(t)
      BY <2>4 DEF SendToAiawb, Users
    <3>4. [t \in Streams |-> Users(t)]' = [[t \in Streams |-> Users(t)] EXCEPT ![s] = @ \cup {Aiawb}]
      BY <3>3
    <3>5. [t \in Streams |-> LetGo(t)]' = [t \in Streams |-> LetGo(t)]
      BY <2>4 DEF SendToAiawb, LetGo
    <3>6. mMap' = mMap /\ destroyed' = destroyed
      BY <2>4 DEF SendToAiawb, itemVars
    <3>7. Life!Join(s)
      BY <3>1, <3>2, <3>4, <3>5, <3>6 DEF Life!Join, Life!Idle
    <3>. QED  BY <3>7 DEF Life!Next
  <2>. QED  BY <1>2, <2>1, <2>2, <2>3, <2>4 DEF NodeStep
<1>3. ASSUME NEW u \in Actors, NEW s \in Streams, NEW st \in Statuses(u), MarkOnFrame(u, s, st)
      PROVE  [Life!Next]_Life!vars
  <2>1. u \in Users(s) /\ at[u] = "working" /\ Mark(s, u, st) /\ UNCHANGED <<joined, mMap, destroyed>>
    BY <1>3 DEF MarkOnFrame, itemVars
  <2>. QED  BY <2>1, MarkLetsGo
<1>4. ASSUME NEW u \in Actors, Leave(u) \/ \E isPre \in BOOLEAN : LockApply(u, isPre)
      PROVE  [Life!Next]_Life!vars
  BY <1>4, Stutters DEF Leave, LockApply, userVars, itemVars
<1>5. CASE ApplyStep
  <2>1. CASE FinishUpdate \/ SweepDone \/ Deliver \/ \E s \in Streams : VisitProducers(s)
    BY <2>1, Stutters DEF FinishUpdate, SweepDone, Deliver, VisitProducers, userVars, itemVars
  <2>2. CASE VisitUsers
    <3>1. current \in Streams /\ ~destroyed
      BY <2>2 DEF VisitUsers, UserInv, TypeOK, ApplyFits, LeftLetGo, Actors
    <3>2. UNCHANGED <<joined, released, preReleased, destroyed>>
      BY <2>2 DEF VisitUsers, userVars
    <3>3. CASE UserLetGo(current, applier)
      <4>. DEFINE R == IF HaveAllUsersReleasedOrPreReleased(current) THEN {current} \cap mMap ELSE {}
      <4>1. Collect(R)
        BY <2>2, <3>3 DEF VisitUsers
      <4>2. (R = {} \/ R = {current} \cap mMap) /\ (R # {} => Users(current) \subseteq LetGo(current))
        BY DEF HaveAllUsersReleasedOrPreReleased
      <4>. HIDE DEF R
      <4>. QED  BY <3>1, <3>2, <4>1, <4>2, CollectGivesBack
    <3>4. CASE ~UserLetGo(current, applier)
      BY <2>2, <3>2, <3>4, Stutters DEF VisitUsers
    <3>. QED  BY <3>3, <3>4
  <2>3. ASSUME NEW s \in Streams, SweepItem(s)
        PROVE  [Life!Next]_Life!vars
    <3>. DEFINE R == IF HaveAllUsersReleased(s) THEN {s} \cap mMap ELSE {}
    <3>1. ~destroyed
      BY <2>3 DEF SweepItem, UserInv, ApplyFits, LeftLetGo, Actors
    <3>2. Collect(R) /\ UNCHANGED <<joined, released, preReleased, destroyed>>
      BY <2>3 DEF SweepItem, userVars
    <3>3. (R = {} \/ R = {s} \cap mMap) /\ (R # {} => Users(s) \subseteq LetGo(s))
      BY DEF HaveAllUsersReleased, LetGo
    <3>. HIDE DEF R
    <3>. QED  BY <3>1, <3>2, <3>3, CollectGivesBack
  <2>. QED  BY <1>5, <2>1, <2>2, <2>3 DEF ApplyStep
<1>6. CASE HolderStep
  BY <1>6, Stutters DEF HolderStep, Transfer, ResetUsers, DropHistory, userVars, itemVars
<1>7. CASE Destroy
  <2>1. \A s \in Streams : Users(s) \subseteq LetGo(s)
    <3>1. ASSUME NEW s \in Streams, NEW u \in Users(s)
          PROVE  u \in LetGo(s)
      <4>1. u \in Actors /\ (u = Aiawb => s \in joined)
        BY Basics DEF UserInv, TypeOK, Users, Actors
      <4>2. at[u] = "left"
        BY <1>7, <4>1 DEF Destroy, UserInv, LeftLetGo, TypeOK, Actors
      <4>. QED  BY <4>1, <4>2 DEF UserInv, LeftLetGo
    <3>. QED  BY <3>1
  <2>2. /\ [t \in Streams |-> Users(t)]' = [t \in Streams |-> Users(t)]
        /\ [t \in Streams |-> LetGo(t)]' = [t \in Streams |-> LetGo(t)]
    BY <1>7 DEF Destroy, userVars, Users, LetGo
  <2>3. Life!End
    BY <1>7, <2>1, <2>2 DEF Destroy, Life!End, Life!Idle
  <2>. QED  BY <2>3 DEF Life!Next
<1>. QED  BY <1>1, <1>2, <1>3, <1>4, <1>5, <1>6, <1>7 DEF Next, ActorStep

\* The frame implements the abstract life of its buffers: each is given back
\* once, after all its users have let go, and nobody takes it back again.
THEOREM Implements == Spec => ImplementsLife
<1>1. Init => Life!Init
  <2>1. SUFFICES ASSUME Init
                 PROVE  Life!Init
    OBVIOUS
  <2>2. \A s \in Streams : Users(s) = NodeUsers(s) /\ LetGo(s) = {}
    BY <2>1 DEF Init, Users, LetGo
  <2>. QED  BY <2>1, <2>2 DEF Init, Life!Init
<1>2. UserInv /\ [Next]_vars => [Life!Next]_Life!vars
  BY StepImplements
<1>. QED  BY <1>1, <1>2, UserInvariance, PTL DEF Spec, ImplementsLife, Life!Spec
-----------------------------------------------------------------------------
(***************************************************************************)
(* How a frame ends: every buffer goes back where it belongs, the app is   *)
(* told the exact number of metas left, what is to be kept is kept, and    *)
(* the frame is seen to be done.                                           *)
(***************************************************************************)

\* What markUserStatus() changes.
LEMMA MarkStep ==
  ASSUME TypeOK, NEW s \in Streams, NEW u, NEW st, Mark(s, u, st)
  PROVE  /\ dirty' = dirty \cup {u}
         /\ \A t \in Streams : LetGo(t)' \subseteq LetGo(t) \cup (IF t = s THEN {u} ELSE {})
  BY DEF Mark, LetGo, TypeOK

\* A user that marks a stream is at work, and changes nothing of apply; the
\* one that could not get a buffer leaves it failed.
Marks(u) ==
  /\ at[u] = "working" /\ dirty' = dirty \cup {u}
  /\ \A t \in Streams : LetGo(t)' \subseteq LetGo(t) \cup {u}
  /\ \A t \in Streams : \/ place'[t] = place[t]
                        \/ place[t] \in {"none", "failed"} /\ place'[t] = "failed"
  /\ UNCHANGED <<at, inactive, itemVars, applyVars, metaVars, holder, destroyed>>

LEMMA MarkingSteps ==
  ASSUME TypeOK
  PROVE  /\ \A n \in Nodes, s \in Streams : GetBufferFails(n, s) => Marks(n)
         /\ \A n \in Nodes, s \in Streams : \A st \in Statuses(n) :
               MarkOnBuffer(n, s, st) => Marks(n)
         /\ \A u \in Actors, s \in Streams : \A st \in Statuses(u) :
               MarkOnFrame(u, s, st) => Marks(u)
<1>1. ASSUME NEW n \in Nodes, NEW s \in Streams, GetBufferFails(n, s)
      PROVE  Marks(n)
  <2>1. \A t \in Streams : \/ place'[t] = place[t]
                           \/ place[t] \in {"none", "failed"} /\ place'[t] = "failed"
    BY <1>1 DEF GetBufferFails, TypeOK
  <2>. QED  BY <1>1, <2>1, MarkStep DEF GetBufferFails, Asks, Marks, frameVars
<1>2. ASSUME NEW n \in Nodes, NEW s \in Streams, NEW st \in Statuses(n), MarkOnBuffer(n, s, st)
      PROVE  Marks(n)
  BY <1>2, MarkStep DEF MarkOnBuffer, Marks, frameVars, bufVars
<1>3. ASSUME NEW u \in Actors, NEW s \in Streams, NEW st \in Statuses(u), MarkOnFrame(u, s, st)
      PROVE  Marks(u)
  BY <1>3, MarkStep DEF MarkOnFrame, Marks, frameVars, bufVars
<1>. QED  BY <1>1, <1>2, <1>3

\* Steps of an actor.
Acts ==
  \/ \E n \in Nodes : Arrive(n) \/ Dispatch(n)
  \/ \E n \in Nodes, s \in Streams : GetBuffer(n, s) \/ SendToAiawb(n, s)
  \/ \E u \in Actors : Marks(u)
  \/ \E u \in Actors, isPre \in BOOLEAN : LockApply(u, isPre)
  \/ \E u \in Actors : Leave(u)

\* Steps of the thread inside apply.
Applies ==
  \/ \E s \in Streams : VisitProducers(s) \/ SweepItem(s)
  \/ VisitUsers \/ FinishUpdate \/ SweepDone \/ Deliver

\* Steps of the frame's end.
Ends ==
  \/ Transfer(HalMetas, "holding", "metas") \/ Transfer(HalImages, "metas", "images")
  \/ \E s \in Streams : ResetUsers(s)
  \/ DropHistory \/ Destroy

LEMMA Cases ==
  ASSUME TypeOK, [Next]_vars
  PROVE  UNCHANGED vars \/ Acts \/ Applies \/ Ends
<1>1. Nodes \subseteq Actors
  BY DEF Actors
<1>2. CASE ApplyStep \/ HolderStep \/ Destroy \/ UNCHANGED vars
  BY <1>2 DEF ApplyStep, HolderStep, Applies, Ends
<1>3. ASSUME NEW u \in Actors, ActorStep(u)
      PROVE  Acts
  <2>1. CASE \E s \in Streams, st \in Statuses(u) : MarkOnFrame(u, s, st)
    BY <2>1, MarkingSteps DEF Acts
  <2>2. CASE u \in Nodes /\ NodeStep(u)
    <3>1. CASE \/ \E s \in Streams, st \in Statuses(u) : MarkOnBuffer(u, s, st)
               \/ \E s \in Streams : GetBufferFails(u, s)
      <4>1. Marks(u)
        BY <2>2, <3>1, MarkingSteps
      <4>. QED  BY <4>1 DEF Acts
    <3>. QED  BY <2>2, <3>1 DEF NodeStep, Acts
  <2>3. CASE Leave(u) \/ \E isPre \in BOOLEAN : LockApply(u, isPre)
    BY <2>3 DEF Acts
  <2>. QED  BY <1>3, <2>1, <2>2, <2>3 DEF ActorStep
<1>. QED  BY <1>2, <1>3 DEF Next

-----------------------------------------------------------------------------
(* The conjuncts of EndInv.                                                *)

LEMMA PendingStep ==
  ASSUME UserInv, EndInv, [Next]_vars
  PROVE  PendingVisit'
<1>. DEFINE Pending(n, s) == \/ s \in inactive
                             \/ n \in dirty
                             \/ step = "update" /\ applier = n /\ (s \in toVisit \/ current = s)
<1>0. TypeOK
  BY DEF UserInv
<1>1. /\ \A n \in Nodes : \A s \in ioSet[n] : n \in LetGo(s) => Pending(n, s)
      /\ \A u \in dirty : at[u] = "working"
  BY DEF EndInv, PendingVisit
<1>2. \A n \in Nodes : ioSet[n] \subseteq Streams
  BY <1>0 DEF TypeOK
<1>3. ASSUME \A s \in Streams : LetGo(s)' = LetGo(s), inactive \subseteq inactive',
             \A n \in Nodes : ioSet'[n] \subseteq ioSet[n],
             dirty' = dirty, UNCHANGED <<step, applier, toVisit, current>>,
             \A u \in dirty : at'[u] = "working"
      PROVE  PendingVisit'
  BY <1>1, <1>2, <1>3 DEF PendingVisit
<1>4. CASE UNCHANGED vars
  BY <1>1, <1>3, <1>4 DEF vars, frameVars, userVars, itemVars, applyVars, LetGo
<1>5. ASSUME NEW n \in Nodes, Arrive(n) \/ Dispatch(n) PROVE PendingVisit'
  <2>1. \A u \in dirty : at'[u] = "working"
    BY <1>0, <1>1, <1>5 DEF Arrive, Dispatch, TypeOK, Actors
  <2>. QED  BY <1>3, <1>5, <2>1 DEF Arrive, Dispatch, userVars, itemVars, applyVars, LetGo
<1>6. ASSUME NEW n \in Nodes, NEW s \in Streams, GetBuffer(n, s) PROVE PendingVisit'
  BY <1>1, <1>3, <1>6 DEF GetBuffer, frameVars, userVars, itemVars, applyVars, LetGo
<1>7. ASSUME NEW n \in Nodes, NEW s \in Streams, SendToAiawb(n, s) PROVE PendingVisit'
  <2>1. \A u \in dirty : at'[u] = "working"
    BY <1>0, <1>1, <1>7 DEF SendToAiawb, TypeOK, Actors
  <2>. QED  BY <1>3, <1>7, <2>1 DEF SendToAiawb, itemVars, applyVars, LetGo
<1>8. ASSUME NEW u \in Actors, Marks(u) PROVE PendingVisit'
  <2>1. UNCHANGED <<at, inactive, ioSet, step, applier, toVisit, current>>
    BY <1>8 DEF Marks, itemVars, applyVars
  <2>2. ASSUME NEW n \in Nodes, NEW s \in ioSet[n], n \in LetGo(s)' PROVE Pending(n, s)'
    BY <1>1, <1>2, <1>8, <2>1, <2>2 DEF Marks
  <2>3. \A v \in dirty' : at'[v] = "working"
    BY <1>1, <1>8, <2>1 DEF Marks
  <2>. QED  BY <2>1, <2>2, <2>3 DEF PendingVisit
<1>9. ASSUME NEW u \in Actors, NEW isPre \in BOOLEAN, LockApply(u, isPre) PROVE PendingVisit'
  <2>1. /\ UNCHANGED <<at, inactive, ioSet>> /\ dirty' = dirty \ {u}
        /\ \A s \in Streams : LetGo(s)' = LetGo(s)
        /\ step = "idle" \/ applier = None
        /\ applier' = u
    BY <1>9 DEF LockApply, frameVars, itemVars, LetGo
  <2>2. ASSUME NEW n \in Nodes, NEW s \in ioSet[n], n \in LetGo(s)' PROVE Pending(n, s)'
    <3>1. s \in inactive \/ n \in dirty
      BY <1>1, <1>2, <2>1, <2>2, <1>0 DEF LockApply, TypeOK, Actors
    <3>2. CASE n = u
      <4>1. ~mAlreadyApplyPreRelease
        BY <2>2 DEF UserInv, DoneFits
      <4>2. step' = "update" /\ toVisit' = ioSet[n]
        BY <1>9, <3>2, <4>1 DEF LockApply
      <4>. QED  BY <2>1, <2>2, <3>2, <4>2
    <3>. QED  BY <2>1, <3>1, <3>2
  <2>3. \A v \in dirty' : at'[v] = "working"
    BY <1>1, <2>1
  <2>. QED  BY <2>1, <2>2, <2>3 DEF PendingVisit
<1>10. ASSUME NEW u \in Actors, Leave(u) PROVE PendingVisit'
  <2>1. \A v \in dirty : at'[v] = "working"
    BY <1>0, <1>1, <1>10 DEF Leave, TypeOK
  <2>. QED  BY <1>3, <1>10, <2>1 DEF Leave, userVars, itemVars, applyVars, LetGo
<1>11. ASSUME NEW s \in Streams, VisitProducers(s) PROVE PendingVisit'
  <2>1. /\ UNCHANGED <<at, dirty, inactive, step, applier>> /\ step = "update" /\ current = None
        /\ toVisit' = toVisit \ {s} /\ \A t \in Streams : LetGo(t)' = LetGo(t)
    BY <1>11 DEF VisitProducers, frameVars, userVars, LetGo
  <2>2. CASE ~IsActive(s)
    BY <1>0, <1>1, <1>2, <1>11, <2>1, <2>2
       DEF VisitProducers, PendingVisit, IsActive, TypeOK, Streams
  <2>3. CASE IsActive(s)
    BY <1>0, <1>1, <1>2, <1>11, <2>1, <2>3
       DEF VisitProducers, PendingVisit, TypeOK, Streams
  <2>. QED  BY <2>2, <2>3
<1>12. CASE VisitUsers
  <2>1. /\ UNCHANGED <<at, dirty, inactive, step, applier, toVisit>> /\ step = "update"
        /\ current # None /\ current' = None /\ \A t \in Streams : LetGo(t)' = LetGo(t)
    BY <1>12 DEF VisitUsers, frameVars, userVars, LetGo
  <2>2. CASE UserLetGo(current, applier)
    <3>1. ioSet' = [ioSet EXCEPT ![applier] = @ \ {current}]
      BY <1>12, <2>2 DEF VisitUsers
    <3>. QED  BY <1>0, <1>1, <1>2, <2>1, <3>1 DEF PendingVisit, TypeOK
  <2>3. CASE ~UserLetGo(current, applier)
    <3>1. ioSet' = ioSet
      BY <1>12, <2>3 DEF VisitUsers
    <3>. QED  BY <1>0, <1>1, <1>2, <2>1, <2>3, <3>1 DEF PendingVisit, UserLetGo, IsActive
  <2>. QED  BY <2>2, <2>3
<1>13. CASE FinishUpdate
  <2>1. /\ UNCHANGED <<at, dirty, inactive, applier, ioSet, toVisit, current>>
        /\ toVisit = {} /\ current = None /\ \A t \in Streams : LetGo(t)' = LetGo(t)
    BY <1>13 DEF FinishUpdate, frameVars, userVars, LetGo
  <2>. QED  BY <1>1, <1>2, <2>1 DEF PendingVisit, UserInv, TypeOK
<1>14. ASSUME NEW s \in Streams, SweepItem(s) PROVE PendingVisit'
  <2>1. /\ UNCHANGED <<at, dirty, inactive, step, applier, ioSet, current>> /\ step = "sweep"
        /\ \A t \in Streams : LetGo(t)' = LetGo(t)
    BY <1>14 DEF SweepItem, frameVars, userVars, LetGo
  <2>. QED  BY <1>1, <1>2, <2>1 DEF PendingVisit
<1>15. CASE SweepDone \/ Deliver
  <2>1. /\ UNCHANGED <<at, dirty, inactive, ioSet>> /\ step # "update"
        /\ \A t \in Streams : LetGo(t)' = LetGo(t)
    BY <1>15 DEF SweepDone, Deliver, frameVars, userVars, itemVars, LetGo
  <2>. QED  BY <1>1, <1>2, <2>1 DEF PendingVisit
<1>16. CASE Transfer(HalMetas, "holding", "metas") \/ Transfer(HalImages, "metas", "images")
            \/ DropHistory \/ Destroy
  BY <1>1, <1>3, <1>16
     DEF Transfer, DropHistory, Destroy, frameVars, userVars, itemVars, applyVars, LetGo
<1>17. ASSUME NEW s \in Streams, ResetUsers(s) PROVE PendingVisit'
  BY <1>1, <1>3, <1>17 DEF ResetUsers, frameVars, itemVars, applyVars, LetGo
<1>18. Acts => PendingVisit'
  BY <1>5, <1>6, <1>7, <1>8, <1>9, <1>10 DEF Acts
<1>19. Applies => PendingVisit'
  BY <1>11, <1>12, <1>13, <1>14, <1>15 DEF Applies
<1>20. Ends => PendingVisit'
  BY <1>16, <1>17 DEF Ends
<1>. QED  BY Cases, <1>0, <1>4, <1>18, <1>19, <1>20

LEMMA NotifiedStep ==
  ASSUME UserInv, EndInv, [Next]_vars
  PROVE  AllNotified'
<1>0. TypeOK
  BY DEF UserInv
<1>1. /\ \A n \in Nodes : ioSet[n] = {} => n \in notified \/ (step = "update" /\ applier = n)
      /\ notified = Nodes /\ Nodes # {} => mAlreadyApplyPreRelease
  BY DEF EndInv, AllNotified
<1>2. ASSUME UNCHANGED <<ioSet, notified, mAlreadyApplyPreRelease, step, applier>>
      PROVE  AllNotified'
  BY <1>1, <1>2 DEF AllNotified
<1>3. ASSUME UNCHANGED <<ioSet, notified, mAlreadyApplyPreRelease>>, step # "update"
      PROVE  AllNotified'
  BY <1>1, <1>3 DEF AllNotified
<1>4. CASE UNCHANGED vars
  BY <1>2, <1>4 DEF vars, itemVars, applyVars
<1>5. ASSUME NEW n \in Nodes, Arrive(n) \/ Dispatch(n) PROVE AllNotified'
  BY <1>2, <1>5 DEF Arrive, Dispatch, itemVars, applyVars
<1>6. ASSUME NEW n \in Nodes, NEW s \in Streams, GetBuffer(n, s) \/ SendToAiawb(n, s)
      PROVE  AllNotified'
  BY <1>2, <1>6 DEF GetBuffer, SendToAiawb, itemVars, applyVars
<1>7. ASSUME NEW u \in Actors, Marks(u) PROVE AllNotified'
  BY <1>2, <1>7 DEF Marks, itemVars, applyVars
<1>8. ASSUME NEW u \in Actors, NEW isPre \in BOOLEAN, LockApply(u, isPre) PROVE AllNotified'
  BY <1>0, <1>3, <1>8 DEF LockApply, itemVars, UserInv, ApplyFits
<1>9. ASSUME NEW u \in Actors, Leave(u) PROVE AllNotified'
  BY <1>2, <1>9 DEF Leave, itemVars, applyVars
<1>10. ASSUME UNCHANGED <<notified, mAlreadyApplyPreRelease, step, applier>>, step = "update",
              \A n \in Nodes : n # applier => ioSet'[n] = ioSet[n]
       PROVE  AllNotified'
  BY <1>1, <1>10 DEF AllNotified
<1>11. ASSUME NEW s \in Streams, VisitProducers(s) PROVE AllNotified'
  BY <1>0, <1>10, <1>11 DEF VisitProducers, TypeOK
<1>12. CASE VisitUsers
  BY <1>0, <1>10, <1>12 DEF VisitUsers, TypeOK
<1>13. CASE FinishUpdate
  BY <1>1, <1>13 DEF FinishUpdate, AllNotified, UserInv, TypeOK
<1>14. ASSUME NEW s \in Streams, SweepItem(s) PROVE AllNotified'
  BY <1>2, <1>14 DEF SweepItem
<1>15. CASE SweepDone \/ Deliver
  BY <1>3, <1>15 DEF SweepDone, Deliver, itemVars
<1>16. CASE Transfer(HalMetas, "holding", "metas") \/ Transfer(HalImages, "metas", "images")
            \/ DropHistory \/ Destroy
  BY <1>2, <1>16 DEF Transfer, DropHistory, Destroy, itemVars, applyVars
<1>17. ASSUME NEW s \in Streams, ResetUsers(s) PROVE AllNotified'
  BY <1>2, <1>17 DEF ResetUsers, itemVars, applyVars
<1>18. Acts => AllNotified'
  BY <1>5, <1>6, <1>7, <1>8, <1>9 DEF Acts
<1>19. Applies => AllNotified'
  BY <1>11, <1>12, <1>13, <1>14, <1>15 DEF Applies
<1>20. Ends => AllNotified'
  BY <1>16, <1>17 DEF Ends
<1>. QED  BY Cases, <1>0, <1>4, <1>18, <1>19, <1>20

\* When every node has left, nobody is inside apply, and only what AIAWB joined
\* is still in the map.
LEMMA AllLeft ==
  ASSUME UserInv, PendingVisit, \A n \in Nodes : at[n] = "left", at[Aiawb] # "working"
  PROVE  /\ step = "idle"
         /\ \A n \in Nodes : ioSet[n] \subseteq inactive
         /\ mMap \subseteq joined
<1>1. \A u \in Actors : at[u] # "working"
  BY DEF Actors
<1>2. step = "idle"
  BY <1>1 DEF UserInv, ApplyFits
<1>3. ASSUME NEW n \in Nodes, NEW s \in ioSet[n]
      PROVE  s \in inactive
  <2>1. s \in Streams /\ n \in NodeUsers(s) /\ n \in Actors
    BY <1>3, Basics DEF UserInv, ErasedMeansLetGo, Actors
  <2>2. n \in LetGo(s)
    BY <2>1 DEF UserInv, LeftLetGo, Users
  <2>. QED  BY <1>1, <1>2, <2>1, <2>2 DEF PendingVisit
<1>4. ASSUME NEW s \in mMap
      PROVE  s \in joined
  <2>1. s \in Streams /\ s \notin inactive
    BY DEF UserInv, TypeOK, PlaceFits
  <2>2. NodeUsers(s) \subseteq Nodes
    BY <2>1, Basics
  <2>. QED  BY <1>3, <2>1, <2>2 DEF UserInv, NotStranded
<1>. QED  BY <1>2, <1>3, <1>4

\* Where what a thread inside apply has collected goes.
LEMMA Delivered ==
  ASSUME UserInv, EndInv, step # "idle", NEW s \in Streams
  PROVE  /\ Destination(s) # "collected"
         /\ Destination(s) = "frame" => place[s] = "frame"
         /\ Destination(s) = "taken" => place[s] = "taken"
         /\ Destination(s) \in {"none", "failed"} => Destination(s) = place[s]
         /\ Destination(s) = "kept" => s \in ToKeep /\ place[s] \in {"kept", "collected"}
         /\ s \in AppImages => Destination(s) \in {place[s], "app"}
         /\ s \in HalImages \cup HalMetas =>
              /\ Destination(s) = "app" => place[s] = "app"
              /\ Destination(s) = "dropped" => place[s] = "dropped" \/ PreReleasers # {}
              /\ Destination(s) = "hal" => place[s] = "hal" \/ s \notin ToKeep
<1>1. s \in AppImages => s \notin HalImages \cup HalMetas
  BY DEF Images, Metas
<1>2. (pre => PreReleasers # {}) /\ (s \in AppImages /\ place[s] = "collected" => callback)
  BY DEF EndInv, CollectedFits
<1>3. CASE place[s] # "collected"
  BY <1>3 DEF Destination, EndInv, KindFits
<1>4. CASE place[s] = "collected"
  <2>1. CASE s \in AppImages
    BY <1>1, <1>2, <1>4, <2>1 DEF Destination
  <2>2. CASE s \notin AppImages
    BY <1>2, <1>4, <2>2 DEF Destination
  <2>. QED  BY <2>1, <2>2
<1>. QED  BY <1>3, <1>4

LEMMA CollectedStep ==
  ASSUME UserInv, EndInv, [Next]_vars
  PROVE  CollectedFits'
<1>0. TypeOK /\ CollectedFits /\ ApplyFits
  BY DEF UserInv, EndInv
<1>. USE DEF CollectedFits
<1>1. ASSUME UNCHANGED <<pre, step, callback, toVisit, metaCollected>>,
             \A s \in Streams : place'[s] = "collected" => place[s] = "collected"
      PROVE  CollectedFits'
  BY <1>0, <1>1 DEF Streams, Images
<1>2. CASE UNCHANGED vars
  BY <1>1, <1>2 DEF vars, bufVars, applyVars, metaVars
<1>3. ASSUME NEW n \in Nodes, Arrive(n) \/ Dispatch(n) PROVE CollectedFits'
  BY <1>1, <1>3 DEF Arrive, Dispatch, bufVars, applyVars, metaVars
<1>4. ASSUME NEW n \in Nodes, NEW s \in Streams, GetBuffer(n, s) PROVE CollectedFits'
  BY <1>0, <1>1, <1>4 DEF GetBuffer, applyVars, metaVars, TypeOK
<1>5. ASSUME NEW n \in Nodes, NEW s \in Streams, SendToAiawb(n, s) PROVE CollectedFits'
  BY <1>1, <1>5 DEF SendToAiawb, bufVars, applyVars, metaVars
<1>6. ASSUME NEW u \in Actors, Marks(u) PROVE CollectedFits'
  BY <1>1, <1>6 DEF Marks, applyVars, metaVars
<1>7. ASSUME NEW u \in Actors, NEW isPre \in BOOLEAN, LockApply(u, isPre) PROVE CollectedFits'
  <2>1. step = "idle"
    BY <1>0, <1>7 DEF LockApply, ApplyFits
  <2>2. metaCollected = {} /\ \A s \in Streams : place[s] # "collected"
    BY <1>0, <2>1
  <2>3. UNCHANGED <<place, metaCollected>> /\ pre' = isPre /\ (isPre => u \in PreReleasers)
    BY <1>7 DEF LockApply, bufVars, metaVars
  <2>4. /\ step' = "update" => callback'
        /\ step' = "sweep" => toVisit' \subseteq HalImages
    BY <1>7 DEF LockApply
  <2>. QED  BY <2>2, <2>3, <2>4 DEF Streams, Images
<1>8. ASSUME NEW u \in Actors, Leave(u) PROVE CollectedFits'
  BY <1>1, <1>8 DEF Leave, bufVars, applyVars, metaVars
<1>9. ASSUME NEW s \in Streams, VisitProducers(s) PROVE CollectedFits'
  BY <1>0, <1>9 DEF VisitProducers, ProducersReleased, bufVars
<1>10. CASE VisitUsers
  BY <1>0, <1>10 DEF VisitUsers, metaVars
<1>11. CASE FinishUpdate
  BY <1>0, <1>11 DEF FinishUpdate, bufVars, metaVars
<1>12. ASSUME NEW s \in Streams, SweepItem(s) PROVE CollectedFits'
  <2>1. s \in HalImages /\ s \notin AppImages
    BY <1>0, <1>12 DEF SweepItem
  <2>2. \A t \in AppImages : place'[t] = place[t]
    BY <1>12, <2>1 DEF SweepItem, Collect, Streams, Images
  <2>. QED  BY <1>0, <1>12, <2>2 DEF SweepItem, metaVars
<1>13. CASE SweepDone
  BY <1>0, <1>13 DEF SweepDone, bufVars, metaVars
<1>14. CASE Deliver
  <2>1. \A s \in Streams : place'[s] # "collected"
    BY <1>14, Delivered DEF Deliver
  <2>. QED  BY <1>14, <2>1 DEF Deliver, Streams, Images
<1>15. CASE Transfer(HalMetas, "holding", "metas") \/ Transfer(HalImages, "metas", "images")
  BY <1>0, <1>1, <1>15 DEF Transfer, applyVars, metaVars
<1>16. CASE DropHistory \/ Destroy
  BY <1>0, <1>1, <1>16 DEF DropHistory, Destroy, bufVars, applyVars, metaVars
<1>17. ASSUME NEW s \in Streams, ResetUsers(s) PROVE CollectedFits'
  BY <1>1, <1>17 DEF ResetUsers, bufVars, applyVars, metaVars
<1>18. Acts => CollectedFits'
  BY <1>3, <1>4, <1>5, <1>6, <1>7, <1>8 DEF Acts
<1>19. Applies => CollectedFits'
  BY <1>9, <1>10, <1>11, <1>12, <1>13, <1>14 DEF Applies
<1>20. Ends => CollectedFits'
  BY <1>15, <1>16, <1>17 DEF Ends
<1>. QED  BY Cases, <1>0, <1>2, <1>18, <1>19, <1>20

LEMMA KindStep ==
  ASSUME UserInv, EndInv, [Next]_vars
  PROVE  KindFits'
<1>0. TypeOK /\ KindFits
  BY DEF UserInv, EndInv
<1>. USE DEF KindFits
<1>a. AppImages \subseteq Streams /\ HalImages \cup HalMetas \subseteq Streams /\ ToKeep \subseteq Streams
  BY DEF Streams, Images, Metas
<1>1. ASSUME UNCHANGED <<mMap, destroyed>>,
             \A s \in Streams : \/ place'[s] = place[s]
                                \/ place'[s] \in {"none", "failed"}
      PROVE  KindFits'
  BY <1>0, <1>1, <1>a
<1>2. CASE UNCHANGED vars
  BY <1>1, <1>2 DEF vars, bufVars, itemVars
<1>3. ASSUME NEW n \in Nodes, Arrive(n) \/ Dispatch(n) PROVE KindFits'
  BY <1>1, <1>3 DEF Arrive, Dispatch, bufVars, itemVars
<1>4. ASSUME NEW n \in Nodes, NEW s \in Streams, GetBuffer(n, s) PROVE KindFits'
  <2>1. s \in mMap /\ ~destroyed /\ UNCHANGED <<mMap, destroyed>>
    BY <1>4 DEF GetBuffer, Asks, itemVars, UserInv, LeftLetGo
  <2>2. place'[s] = "frame" /\ \A t \in Streams \ {s} : place'[t] = place[t]
    BY <1>0, <1>4 DEF GetBuffer, TypeOK
  <2>. QED  BY <1>0, <1>a, <2>1, <2>2
<1>5. ASSUME NEW n \in Nodes, NEW s \in Streams, SendToAiawb(n, s) PROVE KindFits'
  BY <1>1, <1>5 DEF SendToAiawb, bufVars, itemVars
<1>6. ASSUME NEW u \in Actors, Marks(u) PROVE KindFits'
  BY <1>1, <1>6 DEF Marks, itemVars
<1>7. ASSUME NEW u \in Actors, NEW isPre \in BOOLEAN, LockApply(u, isPre) PROVE KindFits'
  BY <1>1, <1>7 DEF LockApply, bufVars, itemVars
<1>8. ASSUME NEW u \in Actors, Leave(u) PROVE KindFits'
  BY <1>1, <1>8 DEF Leave, bufVars, itemVars
<1>9. ASSUME NEW s \in Streams, VisitProducers(s) PROVE KindFits'
  BY <1>1, <1>9 DEF VisitProducers, bufVars
<1>b. ASSUME NEW R, Collect(R), UNCHANGED destroyed
      PROVE  KindFits'
  <2>1. \A s \in Streams :
          \/ place'[s] = place[s] /\ (place[s] = "frame" => s \in mMap')
          \/ place[s] = "frame" /\ place'[s] = "collected"
          \/ place[s] = "frame" /\ s \in AppMetas /\ place'[s] = "dropped"
    BY <1>0, <1>b DEF Collect
  <2>2. AppMetas \cap (AppImages \cup HalImages \cup HalMetas \cup ToKeep) = {}
    BY DEF Images, Metas
  <2>. QED  BY <1>0, <1>a, <1>b, <2>1, <2>2
<1>10. CASE VisitUsers
  <2>1. CASE UserLetGo(current, applier)
    BY <1>b, <1>10, <2>1 DEF VisitUsers
  <2>2. CASE ~UserLetGo(current, applier)
    BY <1>1, <1>10, <2>2 DEF VisitUsers
  <2>. QED  BY <2>1, <2>2
<1>11. CASE FinishUpdate \/ SweepDone
  BY <1>1, <1>11 DEF FinishUpdate, SweepDone, bufVars, itemVars
<1>12. ASSUME NEW s \in Streams, SweepItem(s) PROVE KindFits'
  BY <1>b, <1>12 DEF SweepItem
<1>13. CASE Deliver
  <2>1. /\ \A s \in Streams : place'[s] = Destination(s)
        /\ UNCHANGED <<mMap, destroyed>> /\ step # "idle"
    BY <1>13 DEF Deliver, itemVars
  <2>2. \A s \in Streams : place'[s] = "frame" => s \in mMap'
    BY <1>0, <2>1, Delivered
  <2>3. \A s \in Streams : place'[s] \in {"kept", "taken"} => s \in ToKeep
    BY <1>0, <2>1, Delivered
  <2>4. \A s \in AppImages : place'[s] \notin {"hal", "dropped"}
    BY <1>0, <1>a, <2>1, Delivered
  <2>5. \A s \in HalImages \cup HalMetas :
          place'[s] # "app" /\ (place'[s] = "dropped" => PreReleasers # {})
    BY <1>0, <1>a, <2>1, Delivered
  <2>6. \A s \in ToKeep : place'[s] = "hal" => destroyed'
    BY <1>0, <1>a, <2>1, Delivered
  <2>7. destroyed' => \A s \in Streams : place'[s] \notin {"frame", "collected", "kept"}
    BY <1>0, <2>1, Delivered
  <2>. QED  BY <2>2, <2>3, <2>4, <2>5, <2>6, <2>7
<1>14. CASE Transfer(HalMetas, "holding", "metas") \/ Transfer(HalImages, "metas", "images")
  <2>1. /\ UNCHANGED <<mMap, destroyed>>
        /\ \A s \in Streams : \/ place'[s] = place[s]
                              \/ place[s] = "kept" /\ place'[s] = "taken"
    BY <1>14 DEF Transfer, itemVars
  <2>. QED  BY <1>0, <1>a, <2>1
<1>15. CASE DropHistory
  BY <1>1, <1>15 DEF DropHistory, bufVars, itemVars
<1>16. CASE Destroy
  <2>1. step = "idle" /\ mMap \subseteq joined
    BY <1>16, AllLeft DEF Destroy, EndInv
  <2>2. joined \subseteq HalImages
    BY <1>0 DEF TypeOK
  <2>3. \A s \in Streams : place[s] = "frame" => s \in HalImages
    BY <1>0, <2>1, <2>2
  <2>4. \A s \in Streams : place[s] # "collected"
    BY <2>1 DEF EndInv, CollectedFits
  <2>5. /\ destroyed'
        /\ \A s \in Streams :
             \/ place'[s] = place[s] /\ place[s] \notin {"frame", "kept"}
             \/ place[s] \in {"frame", "kept"} /\ place'[s] = "hal"
    BY <1>16, <2>3 DEF Destroy
  <2>6. AppImages \cap (HalImages \cup ToKeep) = {}
    BY DEF Images, Metas
  <2>. QED  BY <1>0, <1>a, <2>3, <2>4, <2>5, <2>6
<1>17. ASSUME NEW s \in Streams, ResetUsers(s) PROVE KindFits'
  BY <1>1, <1>17 DEF ResetUsers, bufVars, itemVars
<1>18. Acts => KindFits'
  BY <1>3, <1>4, <1>5, <1>6, <1>7, <1>8 DEF Acts
<1>19. Applies => KindFits'
  BY <1>9, <1>10, <1>11, <1>12, <1>13 DEF Applies
<1>20. Ends => KindFits'
  BY <1>14, <1>15, <1>16, <1>17 DEF Ends
<1>. QED  BY Cases, <1>0, <1>2, <1>18, <1>19, <1>20

\* The counters change only when the bit of the producers of a stream is set,
\* and when an apply is delivered.
LEMMA CountedStep ==
  ASSUME UserInv, EndInv, [Next]_vars
  PROVE  MetasCounted'
<1>0. TypeOK /\ MetasCounted /\ LeftIsExact /\ CollectedFits
  BY DEF UserInv, EndInv, MetasCounted
<1>1. ASSUME UNCHANGED <<left, producersReleased, given, metaCollected, announced, destroyed>>
      PROVE  MetasCounted'
  BY <1>0, <1>1 DEF MetasCounted, LeftIsExact
<1>2. CASE UNCHANGED vars
  BY <1>1, <1>2 DEF vars, itemVars, metaVars
<1>3. CASE Acts
  BY <1>1, <1>3 DEF Acts, Arrive, Dispatch, GetBuffer, SendToAiawb, Marks, LockApply, Leave,
     itemVars, metaVars
<1>4. ASSUME NEW s \in Streams, VisitProducers(s) PROVE MetasCounted'
  <2>1. CASE UNCHANGED <<producersReleased, metaCollected, left>>
    BY <1>1, <1>4, <2>1 DEF VisitProducers
  <2>2. CASE ProducersReleased(s)
    <3>1. CASE s \in producersReleased
      <4>1. metaCollected' = metaCollected /\ producersReleased' = producersReleased
        BY <2>2, <3>1 DEF ProducersReleased
      <4>2. \A k \in MetaKinds : left'[k] = left[k]
        BY <2>2, <3>1 DEF ProducersReleased
      <4>. QED  BY <1>0, <1>4, <4>1, <4>2 DEF VisitProducers, MetasCounted, LeftIsExact
    <3>2. CASE s \notin producersReleased
      <4>1. /\ producersReleased' = producersReleased \cup {s}
            /\ metaCollected' = IF s \in Metas /\ Producers(s) # {}
                                THEN metaCollected \cup {s} ELSE metaCollected
            /\ \A k \in MetaKinds :
                 left'[k] = IF s \in OutMetas(MetasOf[k]) THEN left[k] - 1 ELSE left[k]
        BY <2>2, <3>2 DEF ProducersReleased
      <4>2. UNCHANGED <<given, announced, destroyed>>
        BY <1>4 DEF VisitProducers
      <4>3. ASSUME NEW k \in MetaKinds
            PROVE  left'[k] = Cardinality(OutMetas(MetasOf[k]) \ producersReleased')
        <5>. DEFINE X == OutMetas(MetasOf[k]) \ producersReleased
        <5>1. left[k] = Cardinality(X)
          BY <1>0 DEF MetasCounted
        <5>2. CASE s \in OutMetas(MetasOf[k])
          <6>1. IsFiniteSet(MetasOf[k])
            BY MetasAssumption DEF MetasOf, MetaKinds
          <6>2. X \subseteq MetasOf[k]
            BY DEF OutMetas
          <6>3. IsFiniteSet(X)
            BY <6>1, <6>2, FS_Subset
          <6>4. s \in X
            BY <3>2, <5>2
          <6>5. Cardinality(X \ {s}) = Cardinality(X) - 1
            BY <6>3, <6>4, FS_RemoveElement
          <6>6. OutMetas(MetasOf[k]) \ producersReleased' = X \ {s}
            BY <4>1
          <6>. QED  BY <4>1, <5>1, <5>2, <6>5, <6>6
        <5>3. CASE s \notin OutMetas(MetasOf[k])
          <6>1. OutMetas(MetasOf[k]) \ producersReleased' = X
            BY <4>1, <5>3
          <6>. QED  BY <4>1, <5>1, <5>3, <6>1
        <5>. QED  BY <5>2, <5>3
      <4>4. ASSUME NEW k \in MetaKinds, NEW t \in OutMetas(MetasOf[k])
            PROVE  t \in producersReleased' <=> t \in given' \cup metaCollected'
        <5>1. t \in Metas /\ Producers(t) # {}
          BY DEF OutMetas, MetasOf, MetaKinds, Metas
        <5>2. t \in producersReleased <=> t \in given \cup metaCollected
          BY <1>0 DEF MetasCounted
        <5>. QED  BY <4>1, <4>2, <5>1, <5>2
      <4>5. LeftIsExact'
        BY <1>0, <4>2 DEF LeftIsExact
      <4>. QED  BY <4>3, <4>4, <4>5 DEF MetasCounted
    <3>. QED  BY <3>1, <3>2
  <2>. QED  BY <1>4, <2>1, <2>2 DEF VisitProducers
<1>5. CASE Deliver
  <2>1. UNCHANGED <<left, producersReleased, destroyed>> /\ metaCollected' = {}
    BY <1>5 DEF Deliver, itemVars
  <2>2. CASE callback
    <3>1. given' = given \cup metaCollected /\ announced' = left
      BY <1>5, <2>2 DEF Deliver
    <3>2. \A k \in MetaKinds :
            OutMetas(MetasOf[k]) \ given' = OutMetas(MetasOf[k]) \ producersReleased
      BY <1>0, <3>1 DEF MetasCounted
    <3>. QED  BY <1>0, <2>1, <3>1, <3>2 DEF MetasCounted, LeftIsExact
  <2>3. CASE ~callback
    <3>1. UNCHANGED <<given, announced, metaCollected>>
      BY <1>0, <1>5, <2>1, <2>3 DEF Deliver, CollectedFits
    <3>. QED  BY <1>1, <2>1, <3>1
  <2>. QED  BY <2>2, <2>3
<1>6. CASE VisitUsers \/ FinishUpdate \/ SweepDone \/ \E s \in Streams : SweepItem(s)
  BY <1>1, <1>6 DEF VisitUsers, FinishUpdate, SweepDone, SweepItem, itemVars, metaVars
<1>7. CASE Destroy
  <2>1. UNCHANGED <<left, producersReleased, given, metaCollected>> /\ destroyed'
    BY <1>7 DEF Destroy
  <2>. QED  BY <1>0, <2>1 DEF MetasCounted, LeftIsExact
<1>8. CASE Ends
  BY <1>1, <1>7, <1>8 DEF Ends, Transfer, ResetUsers, DropHistory, itemVars, metaVars
<1>9. Applies => MetasCounted'
  BY <1>4, <1>5, <1>6 DEF Applies
<1>. QED  BY Cases, <1>0, <1>2, <1>3, <1>8, <1>9

-----------------------------------------------------------------------------

LEMMA InitEndInv == Init => EndInv
<1>. SUFFICES ASSUME Init
              PROVE  EndInv
  OBVIOUS
<1>. USE DEF Init
<1>1. PendingVisit
  BY Basics DEF PendingVisit, LetGo
<1>2. AllNotified
  BY DEF AllNotified
<1>3. CollectedFits
  BY DEF CollectedFits, Streams, Images
<1>4. KindFits
  BY DEF KindFits, Streams, Images, Metas
<1>5. MetasCounted
  <2>1. \A k \in MetaKinds : OutMetas(MetasOf[k]) \ {} = OutMetas(MetasOf[k])
    OBVIOUS
  <2>. QED  BY <2>1 DEF MetasCounted, LeftIsExact
<1>. QED  BY <1>1, <1>2, <1>3, <1>4, <1>5 DEF EndInv

\* The whole invariant of a frame: who uses its buffers, and how it ends.
THEOREM Invariance == Spec => []IInv
<1>1. Init => IInv
  BY InitUserInv, InitEndInv DEF IInv
<1>2. IInv /\ [Next]_vars => IInv'
  BY UserInvStep, PendingStep, NotifiedStep, CollectedStep, KindStep, CountedStep DEF IInv, EndInv
<1>. QED  BY <1>1, <1>2, PTL DEF Spec

\* When onLastStrongRef() has run, every image of the app went to the app, and
\* every HAL buffer to the HAL or to the reprocessor, unless some node
\* pre-released it.
THEOREM GoesHome == Spec => []GoesBack
<1>1. IInv => GoesBack
  <2>1. SUFFICES ASSUME IInv, destroyed, NEW s \in Images \cup HalMetas
                 PROVE  place[s] \in {"none", "failed"} \cup
                          (IF s \in AppImages THEN {"app"}
                           ELSE {"hal", "taken"} \cup
                                (IF PreReleasers # {} THEN {"dropped"} ELSE {}))
    BY DEF GoesBack
  <2>2. place[s] \in Places /\ place[s] \notin {"frame", "collected", "kept"} /\ s \in Streams
    BY <2>1 DEF IInv, UserInv, TypeOK, EndInv, KindFits, Streams, Metas
  <2>3. CASE s \in AppImages
    <3>1. s \notin ToKeep
      BY <2>3 DEF Images, Metas
    <3>2. place[s] \notin {"hal", "dropped", "taken"}
      BY <2>1, <2>2, <2>3, <3>1 DEF IInv, EndInv, KindFits
    <3>. QED  BY <2>2, <2>3, <3>2 DEF Places
  <2>4. CASE s \notin AppImages
    <3>1. s \in HalImages \cup HalMetas
      BY <2>1, <2>4 DEF Images
    <3>2. place[s] # "app" /\ (place[s] = "dropped" => PreReleasers # {})
      BY <2>1, <3>1 DEF IInv, EndInv, KindFits
    <3>. QED  BY <2>2, <2>4, <3>2 DEF Places
  <2>. QED  BY <2>3, <2>4
<1>. QED  BY <1>1, Invariance, PTL

\* The numbers of metas left that updateFrame() carries are exact, in whatever
\* order the nodes apply.
THEOREM CountExact == Spec => []LeftIsExact
<1>1. IInv => LeftIsExact
  BY DEF IInv, EndInv, MetasCounted
<1>. QED  BY <1>1, Invariance, PTL

\* When no node pre-releases, what targetToKeep_* names stays with the frame
\* until it ends or the reprocessor takes it.
THEOREM KeptAsAsked ==
  ASSUME PreReleasers = {}
  PROVE  Spec => []KeptIfAsked
<1>1. IInv => KeptIfAsked
  <2>1. \A s \in ToKeep : s \in HalImages \cup HalMetas
    OBVIOUS
  <2>. QED  BY <2>1 DEF IInv, EndInv, KindFits, KeptIfAsked
<1>. QED  BY <1>1, Invariance, PTL

\* When nothing is to be kept, a frame that ends has been marked done: the
\* PreReleaseRequestMgr has been told that the capture is completed.
THEOREM CompletionSeen ==
  ASSUME ToKeep = {}, Nodes # {}
  PROVE  Spec => []CompletionNoted
<1>1. Init => CompletionNoted
  BY DEF Init, CompletionNoted
<1>2. ASSUME IInv, CompletionNoted, [Next]_vars
      PROVE  CompletionNoted'
  <2>1. mAlreadyApplyPreRelease => mAlreadyApplyPreRelease'
    <3>1. TypeOK
      BY <1>2 DEF IInv, UserInv
    <3>. QED  BY <1>2, <3>1, Cases DEF Acts, Applies, Ends, Arrive, Dispatch, GetBuffer, SendToAiawb,
              Marks, LockApply, Leave, VisitProducers, VisitUsers, FinishUpdate, SweepItem, SweepDone,
              Deliver, Transfer, ResetUsers, DropHistory, Destroy, vars, itemVars
  <2>2. CASE Destroy
    <3>1. step = "idle" /\ \A n \in Nodes : ioSet[n] \subseteq inactive
      BY <1>2, <2>2, AllLeft DEF Destroy, IInv, EndInv
    <3>2. inactive = {}
      BY <1>2 DEF IInv, UserInv, TypeOK, PlaceFits, EndInv, KindFits
    <3>3. \A n \in Nodes : n \in notified
      BY <1>2, <3>1, <3>2 DEF IInv, EndInv, AllNotified
    <3>4. notified = Nodes
      BY <1>2, <3>3 DEF IInv, UserInv, TypeOK
    <3>5. mAlreadyApplyPreRelease
      BY <1>2, <3>4 DEF IInv, EndInv, AllNotified
    <3>. QED  BY <2>1, <3>5 DEF CompletionNoted
  <2>3. CASE ~Destroy
    <3>1. destroyed' = destroyed
      <4>1. TypeOK
        BY <1>2 DEF IInv, UserInv
      <4>. QED  BY <1>2, <2>3, <4>1, Cases DEF Acts, Applies, Ends, Arrive, Dispatch, GetBuffer,
                SendToAiawb, Marks, LockApply, Leave, VisitProducers, VisitUsers, FinishUpdate,
                SweepItem, SweepDone, Deliver, Transfer, ResetUsers, DropHistory, vars
    <3>. QED  BY <1>2, <2>1, <3>1 DEF CompletionNoted
  <2>. QED  BY <2>2, <2>3
<1>. QED  BY <1>1, <1>2, Invariance, PTL DEF Spec
=============================================================================
