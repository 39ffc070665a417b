-------------------------- MODULE NodeLaunch_proofs --------------------------
(***************************************************************************)
(* IInv is an invariant of NodeLaunch for every number of nodes, every     *)
(* assignment of init orders and every set of waiting threads.  From it    *)
(* follow ThroughMeansLaunched, LaunchedInOrder, LaunchedOneByOne,         *)
(* FreeRunErrorReported and ReconfigAfterConfig.                           *)
(***************************************************************************)
EXTENDS NodeLaunch, TLAPS

(* A precheck lets the actor's state machine advance by one step only.      *)
LEMMA PrecheckGo ==
  ASSUME NEW s \in ActorState, NEW skip \in ActorState, NEW want \in ActorState,
         Precheck(s, skip, want) = "go"
  PROVE  s = want
BY DEF Precheck

(* What launchOneNode() of a node leaves alone, and how far it gets.        *)
LaunchFrame(n) ==
  /\ UNCHANGED <<inputVars, reconfiguring, jobVars, waitVars>>
  /\ step[n] \notin {"none", "deferred", "done"}
  /\ step'[n] \notin {"none", "deferred"}
  /\ \A k \in Nodes \ {n} : step'[k] = step[k] /\ result'[k] = result[k]
  /\ \A k \in Nodes \ {n} : mState'[k] = mState[k]
  /\ step'[n] # "done" => result'[n] = result[n]

LEMMA LaunchStepFrame ==
  ASSUME TypeOK, NEW n \in Nodes, LaunchStep(n)
  PROVE  LaunchFrame(n)
<1>. USE DEF TypeOK, LaunchFrame, Finish, actorVars
<1>1. CASE CallInit(n)  BY <1>1 DEF CallInit
<1>2. CASE CallConfig(n)  BY <1>2 DEF CallConfig
<1>3. ASSUME NEW r \in Results, InitReturns(n, r)
      PROVE  LaunchFrame(n)
  BY <1>3 DEF InitReturns
<1>4. ASSUME NEW r \in Results, ConfigReturns(n, r)
      PROVE  LaunchFrame(n)
  BY <1>4 DEF ConfigReturns
<1>5. ASSUME NEW r \in Results, SetNodeCallBack(n, r)
      PROVE  LaunchFrame(n)
  BY <1>5 DEF SetNodeCallBack
<1>. QED  BY <1>1, <1>2, <1>3, <1>4, <1>5 DEF LaunchStep

LEMMA LaunchStepTypes ==
  ASSUME TypeOK, NEW n \in Nodes, LaunchStep(n)
  PROVE  TypeOK'
<1>. USE DEF TypeOK, Finish, ActorState, Results, actorVars, inputVars, jobVars,
             waitVars, launchVars
<1>1. CASE CallInit(n)  BY <1>1 DEF CallInit
<1>2. CASE CallConfig(n)  BY <1>2 DEF CallConfig
<1>3. ASSUME NEW r \in Results, InitReturns(n, r)
      PROVE  TypeOK'
  BY <1>3 DEF InitReturns
<1>4. ASSUME NEW r \in Results, ConfigReturns(n, r)
      PROVE  TypeOK'
  BY <1>4 DEF ConfigReturns
<1>5. ASSUME NEW r \in Results, SetNodeCallBack(n, r)
      PROVE  TypeOK'
  BY <1>5 DEF SetNodeCallBack
<1>. QED  BY <1>1, <1>2, <1>3, <1>4, <1>5 DEF LaunchStep

LEMMA LaunchStepActors ==
  ASSUME TypeOK, ActorsFollowLaunch, NEW n \in Nodes, LaunchStep(n)
  PROVE  ActorsFollowLaunch'
<1>. USE DEF TypeOK, Finish, ActorsFollowLaunch, ReconfigAfterConfig, InNode,
             ActorState, actorVars
<1>1. CASE CallInit(n)  BY <1>1 DEF CallInit
<1>2. CASE CallConfig(n)  BY <1>2 DEF CallConfig
<1>3. ASSUME NEW r \in Results, InitReturns(n, r)
      PROVE  ActorsFollowLaunch'
  BY <1>3 DEF InitReturns
<1>4. ASSUME NEW r \in Results, ConfigReturns(n, r)
      PROVE  ActorsFollowLaunch'
  BY <1>4 DEF ConfigReturns
<1>5. ASSUME NEW r \in Results, SetNodeCallBack(n, r)
      PROVE  ActorsFollowLaunch'
  BY <1>5 DEF SetNodeCallBack
<1>. QED  BY <1>1, <1>2, <1>3, <1>4, <1>5 DEF LaunchStep

LEMMA LaunchStepInv ==
  ASSUME IInv, NEW n \in Nodes, LaunchStep(n)
  PROVE  IInv'
<1>. USE DEF LaunchFrame, inputVars, jobVars, waitVars
<1>0. LaunchFrame(n)  BY LaunchStepFrame DEF IInv
<1>1. TypeOK'  BY LaunchStepTypes DEF IInv
<1>2. ActorsFollowLaunch'  BY LaunchStepActors DEF IInv
<1>3. NothingLaunchedYet'  BY <1>0 DEF IInv, NothingLaunchedYet
<1>4. OrdersBehindAreDone'
  BY <1>0 DEF IInv, OrdersBehindAreDone, FreeRun, Finished
<1>5. FreeRunCollected'
  <2>1. FreeRun' = FreeRun /\ OrdersLeft' = OrdersLeft
    BY <1>0 DEF FreeRun, OrdersLeft
  <2>2. FreeRun \subseteq Nodes  BY DEF FreeRun
  <2>. QED  BY <1>0, <2>1, <2>2 DEF IInv, FreeRunCollected, Finished
<1>6. OnlyFrontRuns'
  <2>1. waiting \subseteq Nodes  BY DEF IInv, TypeOK
  <2>2. Started(n)  BY <1>0 DEF Started
  <2>3. \A k \in Nodes : Started(k)' => Started(k)
    BY <1>0, <2>2 DEF Started
  <2>4. \A k \in Nodes : IsFront(k)' <=> IsFront(k)  BY <1>0 DEF IsFront
  <2>. QED  BY <1>0, <2>1, <2>2, <2>3, <2>4 DEF IInv, OnlyFrontRuns
<1>7. WaitersFollowJob'  BY <1>0 DEF IInv, WaitersFollowJob
<1>8. (job = "done" => \A k \in Nodes : Finished(k))'
  BY <1>0 DEF IInv, Finished
<1>9. FreeRunErrorReported'
  BY <1>0 DEF IInv, FreeRunErrorReported, FreeRun, Finished
<1>. QED  BY <1>1, <1>2, <1>3, <1>4, <1>5, <1>6, <1>7, <1>8, <1>9 DEF IInv

(* Free-run launches start, and no ordered one has.                          *)
LEMMA LaunchFreeRunInv ==
  ASSUME IInv, LaunchFreeRun
  PROVE  IInv'
<1>. USE DEF inputVars, actorVars, launchVars, jobVars, waitVars
<1>1. TypeOK'
  BY DEF IInv, LaunchFreeRun, Launch, TypeOK, Results, ActorState, Finished
<1>2. ActorsFollowLaunch'
  BY DEF IInv, LaunchFreeRun, ActorsFollowLaunch, ReconfigAfterConfig,
     NothingLaunchedYet, TypeOK
<1>3. NothingLaunchedYet'
  BY DEF IInv, LaunchFreeRun, Launch, NothingLaunchedYet
<1>4. OrdersBehindAreDone'
  BY OrderAssumption DEF IInv, LaunchFreeRun, Launch, NothingLaunchedYet,
     OrdersBehindAreDone, FreeRun, Finished, Nodes
<1>5. FreeRunCollected'
  BY DEF IInv, LaunchFreeRun, Launch, FreeRunCollected, FreeRun, OrdersLeft, Finished
<1>6. OnlyFrontRuns'
  BY DEF IInv, LaunchFreeRun, Launch, OnlyFrontRuns, Started, IsFront
<1>7. WaitersFollowJob'
  BY DEF IInv, LaunchFreeRun, Launch, WaitersFollowJob, Threads
<1>8. (job = "done" => \A k \in Nodes : Finished(k))'
  BY DEF IInv, LaunchFreeRun, Launch, Finished
<1>9. FreeRunErrorReported'
  BY DEF IInv, LaunchFreeRun, Launch, FreeRunErrorReported, FreeRun, Finished
<1>. QED  BY <1>1, <1>2, <1>3, <1>4, <1>5, <1>6, <1>7, <1>8, <1>9 DEF IInv

(* The next order starts with every smaller one finished.                    *)
LEMMA LaunchGroupInv ==
  ASSUME IInv, NEW n \in Nodes, LaunchGroup(order[n])
  PROVE  IInv'
<1>. USE DEF inputVars, actorVars, launchVars, jobVars, waitVars
<1>a. order \in [Nodes -> Int] /\ current \in Int /\ FreeRun \subseteq Nodes
  BY OrderAssumption DEF Nodes, FreeRun, IInv, TypeOK
<1>b. /\ isAsync /\ order[n] > current
      /\ \A k \in Nodes \ FreeRun : order[k] > current => order[n] <= order[k]
  BY <1>a DEF LaunchGroup, IsNext, OrdersLeft, FreeRun
<1>c. \A k \in Group(order[n]) : k \in Nodes \ FreeRun /\ step[k] = "none"
  BY <1>a, <1>b DEF Group, LaunchGroup, IInv, OrdersBehindAreDone, Finished
<1>d. \A k \in Nodes \ Group(order[n]) : step'[k] = step[k]
  BY DEF LaunchGroup, Launch
<1>e. \A k \in Group(order[n]) : step'[k] = "init"
  BY <1>b, <1>c DEF LaunchGroup, Launch
<1>1. TypeOK'
  BY <1>a, <1>c DEF IInv, LaunchGroup, Launch, TypeOK, Results
<1>2. ActorsFollowLaunch'
  <2>. /\ \A k \in Group(order[n]) : k \notin reconfiguring
       /\ \A k \in Group(order[n]) :
            mState[k] \notin {"Configured", "Reconfiguring"}
    BY <1>c DEF IInv, ActorsFollowLaunch, ReconfigAfterConfig
  <2>. QED  BY <1>d DEF IInv, LaunchGroup, ActorsFollowLaunch,
               ReconfigAfterConfig, TypeOK
<1>3. NothingLaunchedYet'
  BY DEF IInv, LaunchGroup, Launch, Group, IsNext, NothingLaunchedYet
<1>4. OrdersBehindAreDone'
  <2>1. FreeRun' = FreeRun  BY DEF LaunchGroup, FreeRun
  <2>2. \A k \in FreeRun : step'[k] # "none"
    BY <1>a, <1>c, <1>d DEF LaunchGroup, IInv, OrdersBehindAreDone
  <2>3. ASSUME NEW k \in Nodes \ FreeRun
        PROVE  \/ order[k] > current' /\ step'[k] = "none"
               \/ order[k] <= current' /\ step'[k] = "done"
               \/ order[k] = current' /\ job' = "group" /\ k \in waiting'
    <3>1. CASE order[k] = order[n]  BY <3>1 DEF LaunchGroup, Group
    <3>2. CASE order[k] # order[n]
      <4>1. step'[k] = step[k]  BY <1>d, <3>2 DEF Group
      <4>2. current' = order[n] /\ job = "next"  BY DEF LaunchGroup
      <4>3. \/ order[k] > current /\ step[k] = "none"
            \/ order[k] <= current /\ step[k] = "done"
        BY <4>2 DEF IInv, OrdersBehindAreDone, Finished
      <4>. QED  BY <1>a, <1>b, <3>2, <4>1, <4>2, <4>3
    <3>. QED  BY <3>1, <3>2
  <2>. QED  BY <2>1, <2>2, <2>3 DEF OrdersBehindAreDone, Finished
<1>5. FreeRunCollected'
  BY DEF IInv, LaunchGroup, Launch, Group, IsNext, FreeRunCollected, FreeRun, OrdersLeft, Finished
<1>6. OnlyFrontRuns'
  BY <1>b DEF LaunchGroup, OnlyFrontRuns
<1>7. WaitersFollowJob'
  BY DEF IInv, LaunchGroup, Launch, Group, IsNext, WaitersFollowJob, Threads
<1>8. (job = "done" => \A k \in Nodes : Finished(k))'
  BY DEF IInv, LaunchGroup, Launch, Group, IsNext, Finished
<1>9. FreeRunErrorReported'
  BY DEF IInv, LaunchGroup, Launch, Group, IsNext, FreeRunErrorReported, FreeRun, Finished
<1>. QED  BY <1>1, <1>2, <1>3, <1>4, <1>5, <1>6, <1>7, <1>8, <1>9 DEF IInv

(* Only the front of the list is started by get().                           *)
LEMMA GetDeferredInv ==
  ASSUME IInv, NEW n \in Nodes, GetDeferred(n)
  PROVE  IInv'
<1>. USE DEF inputVars, actorVars, launchVars, jobVars, waitVars
<1>1. TypeOK'
  BY DEF IInv, GetDeferred, TypeOK, Results, ActorState, Finished
<1>2. ActorsFollowLaunch'
  BY DEF IInv, GetDeferred, ActorsFollowLaunch, ReconfigAfterConfig
<1>3. NothingLaunchedYet'
  BY DEF IInv, GetDeferred, NothingLaunchedYet
<1>4. OrdersBehindAreDone'
  BY DEF IInv, GetDeferred, OrdersBehindAreDone, FreeRun, Finished
<1>5. FreeRunCollected'
  BY DEF IInv, GetDeferred, FreeRunCollected, FreeRun, OrdersLeft, Finished
<1>6. OnlyFrontRuns'
  BY DEF IInv, GetDeferred, OnlyFrontRuns, Started, IsFront
<1>7. WaitersFollowJob'
  BY DEF IInv, GetDeferred, WaitersFollowJob, Threads
<1>8. (job = "done" => \A k \in Nodes : Finished(k))'
  BY DEF IInv, GetDeferred, Finished
<1>9. FreeRunErrorReported'
  BY DEF IInv, GetDeferred, FreeRunErrorReported, FreeRun, Finished
<1>. QED  BY <1>1, <1>2, <1>3, <1>4, <1>5, <1>6, <1>7, <1>8, <1>9 DEF IInv

(* Only finished nodes leave the list.                                       *)
LEMMA PopFrontInv ==
  ASSUME IInv, NEW n \in Nodes, PopFront(n)
  PROVE  IInv'
<1>. USE DEF inputVars, actorVars, launchVars, jobVars, waitVars
<1>1. TypeOK'
  BY DEF IInv, PopFront, TypeOK, Results, ActorState, Finished
<1>2. ActorsFollowLaunch'
  BY DEF IInv, PopFront, ActorsFollowLaunch, ReconfigAfterConfig
<1>3. NothingLaunchedYet'
  BY DEF IInv, PopFront, NothingLaunchedYet
<1>4. OrdersBehindAreDone'
  <2>1. order \in [Nodes -> Int] /\ current \in Int
    BY OrderAssumption DEF Nodes, IInv, TypeOK
  <2>2. FreeRun' = FreeRun  BY DEF PopFront, FreeRun
  <2>3. step[n] = "done"  BY DEF PopFront
  <2>. QED  BY <2>1, <2>2, <2>3 DEF IInv, PopFront, OrdersBehindAreDone, Finished
<1>5. FreeRunCollected'
  <2>1. FreeRun' = FreeRun /\ OrdersLeft' = OrdersLeft
    BY DEF PopFront, FreeRun, OrdersLeft
  <2>2. CASE job = "free"
    <3>1. n \in FreeRun /\ n \in waiting
      BY <2>2 DEF PopFront, IsFront, IInv, FreeRunCollected
    <3>2. FreeRun \ waiting' = (FreeRun \ waiting) \cup {n}
      BY <3>1 DEF PopFront
    <3>3. (groupErr' = "OK") <=> (groupErr = "OK" /\ result[n] = "OK")
      BY DEF PopFront
    <3>. QED  BY <2>1, <2>2, <3>1, <3>2, <3>3
              DEF PopFront, IInv, FreeRunCollected, Finished
  <2>3. CASE job # "free"  BY <2>3 DEF PopFront, FreeRunCollected
  <2>. QED  BY <2>2, <2>3
<1>6. OnlyFrontRuns'
  <2>. SUFFICES ASSUME ~isAsync
       PROVE  OnlyFrontRuns'
    BY DEF OnlyFrontRuns, PopFront
  <2>1. job = "free" /\ waiting \subseteq Nodes
    BY DEF IInv, TypeOK, PopFront, OnlyFrontRuns
  <2>2. n \in waiting /\ \A k \in waiting : n <= k  BY DEF PopFront, IsFront
  <2>3. \A m \in waiting' : n < m  BY <2>1, <2>2 DEF PopFront, Nodes
  <2>4. \A k \in Nodes \ waiting' : k = n \/ k \in Nodes \ waiting
    BY DEF PopFront
  <2>5. \A m \in waiting', k \in Nodes \ waiting' : k < m
    BY <2>1, <2>3, <2>4 DEF IInv, OnlyFrontRuns, PopFront
  <2>6. \A m \in waiting' : ~Started(m)
    BY <2>1, <2>2, <2>3 DEF IInv, OnlyFrontRuns, PopFront, IsFront, Nodes
  <2>7. \A m \in Nodes : Started(m)' <=> Started(m)
    BY DEF PopFront, Started
  <2>8. job' = "free" /\ waiting' \subseteq Nodes  BY <2>1 DEF PopFront
  <2>. QED  BY <2>5, <2>6, <2>7, <2>8 DEF OnlyFrontRuns
<1>7. WaitersFollowJob'
  BY DEF IInv, PopFront, WaitersFollowJob, Threads
<1>8. (job = "done" => \A k \in Nodes : Finished(k))'
  BY DEF IInv, PopFront, Finished
<1>9. FreeRunErrorReported'
  BY DEF IInv, PopFront, FreeRunErrorReported, FreeRun, Finished
<1>. QED  BY <1>1, <1>2, <1>3, <1>4, <1>5, <1>6, <1>7, <1>8, <1>9 DEF IInv

(* A group is over when its list is empty.                                   *)
LEMMA GroupLaunchedInv ==
  ASSUME IInv, GroupLaunched
  PROVE  IInv'
<1>. USE DEF inputVars, actorVars, launchVars, jobVars, waitVars
<1>1. TypeOK'
  BY DEF IInv, GroupLaunched, TypeOK, Results, ActorState, Finished
<1>2. ActorsFollowLaunch'
  BY DEF IInv, GroupLaunched, ActorsFollowLaunch, ReconfigAfterConfig
<1>3. NothingLaunchedYet'
  BY DEF IInv, GroupLaunched, NothingLaunchedYet
<1>4. OrdersBehindAreDone'
  BY DEF IInv, GroupLaunched, OrdersBehindAreDone, FreeRun, Finished
<1>5. FreeRunCollected'
  BY DEF IInv, GroupLaunched, FreeRunCollected, FreeRun, OrdersLeft, Finished
<1>6. OnlyFrontRuns'
  BY DEF IInv, GroupLaunched, OnlyFrontRuns, Started, IsFront
<1>7. WaitersFollowJob'
  BY DEF IInv, GroupLaunched, WaitersFollowJob, Threads
<1>8. (job = "done" => \A k \in Nodes : Finished(k))'
  BY DEF IInv, GroupLaunched, Finished
<1>9. FreeRunErrorReported'
  BY DEF IInv, GroupLaunched, FreeRunErrorReported, FreeRun, Finished
<1>. QED  BY <1>1, <1>2, <1>3, <1>4, <1>5, <1>6, <1>7, <1>8, <1>9 DEF IInv

(* When no order is left only free-run nodes are waited for.                 *)
LEMMA WaitFreeRunInv ==
  ASSUME IInv, WaitFreeRun
  PROVE  IInv'
<1>. USE DEF inputVars, actorVars, launchVars, jobVars, waitVars
<1>1. TypeOK'
  BY DEF IInv, WaitFreeRun, TypeOK, Results, FreeRun
<1>2. ActorsFollowLaunch'
  BY DEF IInv, WaitFreeRun, ActorsFollowLaunch, ReconfigAfterConfig
<1>3. NothingLaunchedYet'
  BY DEF IInv, WaitFreeRun, NothingLaunchedYet
<1>4. OrdersBehindAreDone'
  BY DEF IInv, WaitFreeRun, OrdersBehindAreDone, FreeRun, Finished
<1>5. FreeRunCollected'
  BY DEF IInv, WaitFreeRun, FreeRunCollected, FreeRun, OrdersLeft, Finished
<1>6. OnlyFrontRuns'
  <2>. SUFFICES ASSUME ~isAsync
       PROVE  OnlyFrontRuns'
    BY DEF OnlyFrontRuns, WaitFreeRun
  <2>1. job' = "free" /\ waiting' = Nodes  BY DEF WaitFreeRun, FreeRun
  <2>2. \A m \in Nodes : ~Started(m)' 
    BY DEF IInv, OnlyFrontRuns, WaitFreeRun, Started
  <2>. QED  BY <2>1, <2>2 DEF OnlyFrontRuns
<1>7. WaitersFollowJob'
  BY DEF IInv, WaitFreeRun, WaitersFollowJob, Threads
<1>8. (job = "done" => \A k \in Nodes : Finished(k))'
  BY DEF IInv, WaitFreeRun, Finished
<1>9. FreeRunErrorReported'
  BY DEF IInv, WaitFreeRun, FreeRunErrorReported, FreeRun, Finished
<1>. QED  BY <1>1, <1>2, <1>3, <1>4, <1>5, <1>6, <1>7, <1>8, <1>9 DEF IInv

(* configureNodes() returns with every node finished.                        *)
LEMMA ConfigureNodesReturnsInv ==
  ASSUME IInv, ConfigureNodesReturns
  PROVE  IInv'
<1>. USE DEF inputVars, actorVars, launchVars, jobVars, waitVars
<1>1. TypeOK'
  BY DEF IInv, ConfigureNodesReturns, TypeOK, Results, ActorState, Finished
<1>2. ActorsFollowLaunch'
  BY DEF IInv, ConfigureNodesReturns, ActorsFollowLaunch, ReconfigAfterConfig
<1>3. NothingLaunchedYet'
  BY DEF IInv, ConfigureNodesReturns, NothingLaunchedYet
<1>4. OrdersBehindAreDone'
  BY DEF IInv, ConfigureNodesReturns, OrdersBehindAreDone, FreeRun, Finished
<1>5. FreeRunCollected'
  BY DEF IInv, ConfigureNodesReturns, FreeRunCollected, FreeRun, OrdersLeft, Finished
<1>6. OnlyFrontRuns'
  BY DEF IInv, ConfigureNodesReturns, OnlyFrontRuns, Started, IsFront
<1>7. WaitersFollowJob'
  BY DEF IInv, ConfigureNodesReturns, WaitersFollowJob, Threads
<1>8. (job = "done" => \A k \in Nodes : Finished(k))'
  <2>1. order \in [Nodes -> Int] /\ current \in Int
    BY OrderAssumption DEF Nodes, IInv, TypeOK
  <2>2. /\ job = "free" /\ waiting = {} /\ OrdersLeft = {}
        /\ \A k \in FreeRun : Finished(k)
    BY DEF ConfigureNodesReturns, IInv, FreeRunCollected
  <2>3. \A k \in Nodes \ FreeRun : ~(order[k] > current)
    BY <2>2 DEF OrdersLeft
  <2>4. \A k \in Nodes : Finished(k)
    BY <2>1, <2>2, <2>3 DEF IInv, OrdersBehindAreDone
  <2>. QED  BY <2>4 DEF ConfigureNodesReturns, Finished
<1>9. FreeRunErrorReported'
  <2>1. FreeRun' = FreeRun  BY DEF ConfigureNodesReturns, FreeRun
  <2>2. (groupErr = "OK") <=> (\A k \in FreeRun : result[k] = "OK")
    BY DEF ConfigureNodesReturns, IInv, FreeRunCollected
  <2>. QED  BY <2>1, <2>2 DEF ConfigureNodesReturns, FreeRunErrorReported
<1>. QED  BY <1>1, <1>2, <1>3, <1>4, <1>5, <1>6, <1>7, <1>8, <1>9 DEF IInv

(* config() only makes the future.                                           *)
LEMMA EndConfigureInv ==
  ASSUME IInv, EndConfigure
  PROVE  IInv'
<1>. USE DEF inputVars, actorVars, launchVars, jobVars, waitVars
<1>1. TypeOK'
  BY DEF IInv, EndConfigure, TypeOK, Results, ActorState, Finished
<1>2. ActorsFollowLaunch'
  BY DEF IInv, EndConfigure, ActorsFollowLaunch, ReconfigAfterConfig
<1>3. NothingLaunchedYet'
  BY DEF IInv, EndConfigure, NothingLaunchedYet
<1>4. OrdersBehindAreDone'
  BY DEF IInv, EndConfigure, OrdersBehindAreDone, FreeRun, Finished
<1>5. FreeRunCollected'
  BY DEF IInv, EndConfigure, FreeRunCollected, FreeRun, OrdersLeft, Finished
<1>6. OnlyFrontRuns'
  BY DEF IInv, EndConfigure, OnlyFrontRuns, Started, IsFront
<1>7. WaitersFollowJob'
  BY DEF IInv, EndConfigure, WaitersFollowJob, Threads
<1>8. (job = "done" => \A k \in Nodes : Finished(k))'
  BY DEF IInv, EndConfigure, Finished
<1>9. FreeRunErrorReported'
  BY DEF IInv, EndConfigure, FreeRunErrorReported, FreeRun, Finished
<1>. QED  BY <1>1, <1>2, <1>3, <1>4, <1>5, <1>6, <1>7, <1>8, <1>9 DEF IInv

(* Waiting does not touch the launch, except to start a deferred job.        *)
LEMMA WaitStepInv ==
  ASSUME IInv, NEW t \in Threads, WaitStep(t)
  PROVE  IInv'
<1>. USE DEF inputVars, actorVars, launchVars, jobVars, waitVars
<1>1. TypeOK'
  BY DEF IInv, WaitStep, CallWait, LockAndLook, GetReturns, Leave, TypeOK, Results, ActorState, Finished
<1>2. ActorsFollowLaunch'
  BY DEF IInv, WaitStep, CallWait, LockAndLook, GetReturns, Leave, ActorsFollowLaunch, ReconfigAfterConfig
<1>3. NothingLaunchedYet'
  BY DEF IInv, WaitStep, CallWait, LockAndLook, GetReturns, Leave, NothingLaunchedYet
<1>4. OrdersBehindAreDone'
  BY DEF IInv, WaitStep, CallWait, LockAndLook, GetReturns, Leave, OrdersBehindAreDone, FreeRun, Finished
<1>5. FreeRunCollected'
  BY DEF IInv, WaitStep, CallWait, LockAndLook, GetReturns, Leave, FreeRunCollected, FreeRun, OrdersLeft, Finished
<1>6. OnlyFrontRuns'
  BY DEF IInv, WaitStep, CallWait, LockAndLook, GetReturns, Leave, OnlyFrontRuns, Started, IsFront
<1>7. WaitersFollowJob'
  <2>. USE DEF IInv, TypeOK, WaitersFollowJob
  <2>1. CASE CallWait(t)  BY <2>1 DEF CallWait
  <2>2. CASE LockAndLook(t)  BY <2>2 DEF LockAndLook
  <2>3. CASE GetReturns(t)  BY <2>3 DEF GetReturns
  <2>4. CASE Leave(t)  BY <2>4 DEF Leave
  <2>. QED  BY <2>1, <2>2, <2>3, <2>4 DEF WaitStep
<1>8. (job = "done" => \A k \in Nodes : Finished(k))'
  BY DEF IInv, WaitStep, CallWait, LockAndLook, GetReturns, Leave, Finished
<1>9. FreeRunErrorReported'
  BY DEF IInv, WaitStep, CallWait, LockAndLook, GetReturns, Leave, FreeRunErrorReported, FreeRun, Finished
<1>. QED  BY <1>1, <1>2, <1>3, <1>4, <1>5, <1>6, <1>7, <1>8, <1>9 DEF IInv

(* A session uninits a node of a context it has waited for.                  *)
LEMMA UninitInv ==
  ASSUME IInv, NEW t \in Threads, NEW n \in Nodes, Uninit(t, n)
  PROVE  IInv'
<1>. USE DEF inputVars, actorVars, launchVars, jobVars, waitVars
<1>1. TypeOK'
  BY DEF IInv, Uninit, InNode, TypeOK, Results, ActorState, Finished
<1>2. ActorsFollowLaunch'
  BY DEF IInv, Uninit, InNode, ActorsFollowLaunch, ReconfigAfterConfig
<1>3. NothingLaunchedYet'
  BY DEF IInv, Uninit, InNode, NothingLaunchedYet
<1>4. OrdersBehindAreDone'
  BY DEF IInv, Uninit, InNode, OrdersBehindAreDone, FreeRun, Finished
<1>5. FreeRunCollected'
  BY DEF IInv, Uninit, InNode, FreeRunCollected, FreeRun, OrdersLeft, Finished
<1>6. OnlyFrontRuns'
  BY DEF IInv, Uninit, InNode, OnlyFrontRuns, Started, IsFront
<1>7. WaitersFollowJob'
  BY DEF IInv, Uninit, InNode, WaitersFollowJob, Threads
<1>8. (job = "done" => \A k \in Nodes : Finished(k))'
  BY DEF IInv, Uninit, InNode, Finished
<1>9. FreeRunErrorReported'
  BY DEF IInv, Uninit, InNode, FreeRunErrorReported, FreeRun, Finished
<1>. QED  BY <1>1, <1>2, <1>3, <1>4, <1>5, <1>6, <1>7, <1>8, <1>9 DEF IInv

(* mLock keeps reconfig() out of a launch.                                   *)
LEMMA ReconfigInv ==
  ASSUME IInv, NEW n \in Nodes, Reconfig(n)
  PROVE  IInv'
<1>. USE DEF inputVars, actorVars, launchVars, jobVars, waitVars
<1>1. TypeOK'
  BY DEF IInv, Reconfig, InNode, TypeOK, Results, ActorState, Finished
<1>2. ActorsFollowLaunch'
  <2>1. mState[n] = "Configured"
    BY PrecheckGo DEF Reconfig, IInv, TypeOK, ActorState
  <2>. QED  BY <2>1 DEF IInv, TypeOK, Reconfig, ActorsFollowLaunch,
               ReconfigAfterConfig
<1>3. NothingLaunchedYet'
  BY DEF IInv, Reconfig, InNode, NothingLaunchedYet
<1>4. OrdersBehindAreDone'
  BY DEF IInv, Reconfig, InNode, OrdersBehindAreDone, FreeRun, Finished
<1>5. FreeRunCollected'
  BY DEF IInv, Reconfig, InNode, FreeRunCollected, FreeRun, OrdersLeft, Finished
<1>6. OnlyFrontRuns'
  BY DEF IInv, Reconfig, InNode, OnlyFrontRuns, Started, IsFront
<1>7. WaitersFollowJob'
  BY DEF IInv, Reconfig, InNode, WaitersFollowJob, Threads
<1>8. (job = "done" => \A k \in Nodes : Finished(k))'
  BY DEF IInv, Reconfig, InNode, Finished
<1>9. FreeRunErrorReported'
  BY DEF IInv, Reconfig, InNode, FreeRunErrorReported, FreeRun, Finished
<1>. QED  BY <1>1, <1>2, <1>3, <1>4, <1>5, <1>6, <1>7, <1>8, <1>9 DEF IInv

(* onConfig() of reconfig() returns.                                         *)
LEMMA ReconfigReturnsInv ==
  ASSUME IInv, NEW n \in Nodes, NEW r \in Results, ReconfigReturns(n, r)
  PROVE  IInv'
<1>. USE DEF inputVars, actorVars, launchVars, jobVars, waitVars
<1>1. TypeOK'
  BY DEF IInv, ReconfigReturns, TypeOK, Results, ActorState, Finished
<1>2. ActorsFollowLaunch'
  BY DEF IInv, ReconfigReturns, ActorsFollowLaunch, ReconfigAfterConfig
<1>3. NothingLaunchedYet'
  BY DEF IInv, ReconfigReturns, NothingLaunchedYet
<1>4. OrdersBehindAreDone'
  BY DEF IInv, ReconfigReturns, OrdersBehindAreDone, FreeRun, Finished
<1>5. FreeRunCollected'
  BY DEF IInv, ReconfigReturns, FreeRunCollected, FreeRun, OrdersLeft, Finished
<1>6. OnlyFrontRuns'
  BY DEF IInv, ReconfigReturns, OnlyFrontRuns, Started, IsFront
<1>7. WaitersFollowJob'
  BY DEF IInv, ReconfigReturns, WaitersFollowJob, Threads
<1>8. (job = "done" => \A k \in Nodes : Finished(k))'
  BY DEF IInv, ReconfigReturns, Finished
<1>9. FreeRunErrorReported'
  BY DEF IInv, ReconfigReturns, FreeRunErrorReported, FreeRun, Finished
<1>. QED  BY <1>1, <1>2, <1>3, <1>4, <1>5, <1>6, <1>7, <1>8, <1>9 DEF IInv

-----------------------------------------------------------------------------
LEMMA InitInv ==
  Init => IInv
<1>1. ASSUME Init PROVE TypeOK
  <2>1. isAsync \in BOOLEAN /\ isMultiThread \in BOOLEAN /\ futures \in BOOLEAN
    BY <1>1, Zenon DEF Init
  <2>2. mState \in [Nodes -> ActorState]  BY <1>1 DEF Init, ActorState
  <2>. QED  BY <1>1, <2>1, <2>2 DEF Init, TypeOK, Results
<1>2. ASSUME Init PROVE ActorsFollowLaunch
  BY <1>2 DEF Init, ActorsFollowLaunch, ReconfigAfterConfig
<1>3. ASSUME Init
      PROVE  /\ NothingLaunchedYet /\ OrdersBehindAreDone /\ FreeRunCollected
             /\ OnlyFrontRuns /\ WaitersFollowJob /\ FreeRunErrorReported
  BY <1>3 DEF Init, NothingLaunchedYet, OrdersBehindAreDone, FreeRunCollected,
     OnlyFrontRuns, Started, WaitersFollowJob, FreeRunErrorReported
<1>4. Init => job # "done"  BY DEF Init
<1>. QED  BY <1>1, <1>2, <1>3, <1>4 DEF IInv

LEMMA NextInv ==
  IInv /\ [Next]_vars => IInv'
<1>. SUFFICES ASSUME IInv, [Next]_vars
     PROVE  IInv'
  OBVIOUS
<1>1. CASE EndConfigure  BY <1>1, EndConfigureInv
<1>2. CASE ConfigureNodes
  BY <1>2, LaunchFreeRunInv, LaunchGroupInv, GetDeferredInv, PopFrontInv,
     GroupLaunchedInv, WaitFreeRunInv, ConfigureNodesReturnsInv
     DEF ConfigureNodes
<1>3. ASSUME NEW n \in Nodes,
             \/ LaunchStep(n)
             \/ Reconfig(n)
             \/ \E r \in Results : ReconfigReturns(n, r)
      PROVE  IInv'
  BY <1>3, LaunchStepInv, ReconfigInv, ReconfigReturnsInv
<1>4. ASSUME NEW t \in Threads, WaitStep(t) \/ \E n \in Nodes : Uninit(t, n)
      PROVE  IInv'
  BY <1>4, WaitStepInv, UninitInv
<1>5. CASE UNCHANGED vars
  BY <1>5 DEF vars, inputVars, actorVars, launchVars, jobVars, waitVars, IInv,
     TypeOK, ActorsFollowLaunch, ReconfigAfterConfig, NothingLaunchedYet,
     OrdersBehindAreDone, FreeRunCollected, OnlyFrontRuns, WaitersFollowJob,
     FreeRunErrorReported, FreeRun, OrdersLeft, Finished, Started, IsFront
<1>. QED  BY <1>1, <1>2, <1>3, <1>4, <1>5 DEF Next

(* The invariant of the launch, for every pipeline and every caller.        *)
THEOREM Invariance == Spec => []IInv
<1>1. Init => IInv  BY InitInv
<1>2. IInv /\ [Next]_vars => IInv'  BY NextInv
<1>. QED  BY <1>1, <1>2, PTL DEF Spec

(* Nobody comes through waitUntilConfigDone() while a node is still being   *)
(* launched or waits to be.                                                 *)
THEOREM NobodyEarly == Spec => []ThroughMeansLaunched
<1>1. IInv => ThroughMeansLaunched
  BY DEF IInv, WaitersFollowJob, ThroughMeansLaunched
<1>. QED  BY <1>1, Invariance, PTL

(* With parallel nodes, init orders are respected: by the invariant a node  *)
(* that has started has an order that configureNodes() has reached, and     *)
(* every node of a smaller one has finished.                                *)
THEOREM InOrder == Spec => []LaunchedInOrder
<1>1. ASSUME IInv, isAsync, NEW m \in Nodes, NEW n \in Nodes,
             order[m] >= 0, order[m] < order[n], Started(n)
      PROVE  Finished(m)
  <2>1. order \in [Nodes -> Int] /\ current \in Int
    BY <1>1, OrderAssumption DEF Nodes, IInv, TypeOK
  <2>2. m \in Nodes \ FreeRun /\ n \in Nodes \ FreeRun
    BY <1>1, <2>1 DEF FreeRun
  <2>3. CASE job = "done"  BY <1>1, <2>3 DEF IInv
  <2>4. CASE job \in {"next", "group", "free"}
    <3>1. order[n] <= current
      BY <1>1, <2>1, <2>2, <2>4 DEF IInv, OrdersBehindAreDone, Started
    <3>. QED  BY <1>1, <2>1, <2>2, <2>4, <3>1 DEF IInv, OrdersBehindAreDone
  <2>5. job \in {"next", "group", "free", "done"}
    BY <1>1 DEF IInv, TypeOK, NothingLaunchedYet, Started
  <2>. QED  BY <2>3, <2>4, <2>5
<1>2. IInv => LaunchedInOrder  BY <1>1 DEF LaunchedInOrder
<1>. QED  BY <1>2, Invariance, PTL

(* Without parallel nodes, one node is launched at a time, in topological   *)
(* order.                                                                   *)
THEOREM OneByOne == Spec => []LaunchedOneByOne
<1>1. ASSUME IInv, ~isAsync, NEW m \in Nodes, NEW n \in Nodes,
             m < n, Started(n)
      PROVE  Finished(m)
  <2>1. CASE job = "done"  BY <1>1, <2>1 DEF IInv
  <2>2. CASE job = "free"
    <3>1. m \in FreeRun  BY <1>1 DEF FreeRun
    <3>2. m \notin waiting
      BY <1>1, <2>2 DEF IInv, OnlyFrontRuns, IsFront, Nodes
    <3>. QED  BY <1>1, <2>2, <3>1, <3>2 DEF IInv, FreeRunCollected
  <2>. QED  BY <1>1, <2>1, <2>2 DEF IInv, OnlyFrontRuns
<1>2. IInv => LaunchedOneByOne  BY <1>1 DEF LaunchedOneByOne
<1>. QED  BY <1>2, Invariance, PTL

(* What is reported covers every free-run node.                             *)
THEOREM ErrorReported == Spec => []FreeRunErrorReported
<1>1. IInv => FreeRunErrorReported  BY DEF IInv
<1>. QED  BY <1>1, Invariance, PTL

(* reconfig() never meets a launch.                                         *)
THEOREM ReconfigAlone == Spec => []ReconfigAfterConfig
<1>1. IInv => ReconfigAfterConfig  BY DEF IInv, ActorsFollowLaunch
<1>. QED  BY <1>1, Invariance, PTL
=============================================================================
