----------------------------- MODULE NodeLaunch -----------------------------
(***************************************************************************)
(* How the nodes of a pipeline are launched: endConfigure() hands          *)
(* configureNodes() to a future, which launches init() and config() of     *)
(* every NodeActor, concurrently or one after the other, and every         *)
(* operation of the context that needs the nodes first waits for that      *)
(* future in waitUntilConfigDone().                                        *)
(*                                                                         *)
(* Nodes are numbered in the topological order of the PipelineDAG, so the  *)
(* front of a std::list<LaunchOneNode> is its least member.  A result is   *)
(* "OK" or "error".  handleLaunchNodeTimeout() only reports: after it the  *)
(* future is waited for without a limit, so timeouts change no state.      *)
(***************************************************************************)
EXTENDS Integers, FiniteSets

CONSTANTS
  NumNodes,    \* nodes of the pipeline
  order,       \* setInitOrder() of each node; -1 is free run
  Callers,     \* threads that call waitUntilConfigDone()
  Owner        \* the thread that configures; it waits too if !isMultiThread

ASSUME NumNodesAssumption == NumNodes \in Nat
ASSUME OrderAssumption == order \in [1 .. NumNodes -> Int]
ASSUME ThreadsAssumption == Owner \notin Callers /\ "nobody" \notin Callers \cup {Owner}

Nodes   == 1 .. NumNodes
Threads == Callers \cup {Owner}
Nobody  == "nobody"
Results == {"OK", "error"}

ActorState == {"NoInit", "Initializing", "Initialized",
               "Configuring", "Configured", "Reconfiguring"}

\* The values of the enum the PRECHECK_STATE macro compares.
Rank == [s \in ActorState |->
           CASE s = "NoInit" -> 0 [] s = "Initializing" -> 1
             [] s = "Initialized" -> 2 [] s = "Configuring" -> 3
             [] s = "Configured" -> 4 [] s = "Reconfiguring" -> 5]

VARIABLES
  isAsync,        \* endConfigure()'s parallelConfig: launch nodes concurrently
  isMultiThread,  \* endConfigure()'s isMultiThread: configure on a new thread
  mState,         \* NodeActorImpl::mState
  reconfiguring,  \* nodes whose reconfig() is inside onConfig()
  step,           \* where launchOneNode() of each node is
  result,         \* what it returned
  job,            \* where configureNodes() is
  current,        \* the init order launched last
  waiting,        \* the list waitForNodesLaunched() is working on
  groupErr,       \* its err
  err,            \* configureNodes()'s err
  futures,        \* mAsyncConfigFutures is not empty
  configLock,     \* holder of mAsyncConfigLock
  at              \* where each thread is in waitUntilConfigDone()

actorVars  == <<mState, reconfiguring>>
launchVars == <<step, result>>
jobVars    == <<job, current, waiting, groupErr, err>>
waitVars   == <<futures, configLock, at>>
inputVars  == <<isAsync, isMultiThread>>
vars == <<inputVars, actorVars, launchVars, jobVars, waitVars>>

TypeOK ==
  /\ isAsync \in BOOLEAN
  /\ isMultiThread \in BOOLEAN
  /\ mState \in [Nodes -> ActorState]
  /\ reconfiguring \in SUBSET Nodes
  /\ step \in [Nodes -> {"none", "deferred", "init", "inInit", "config",
                         "inConfig", "callback", "done"}]
  /\ result \in [Nodes -> Results]
  /\ job \in {"none", "deferred", "begin", "next", "group", "free", "done"}
  /\ current \in Int
  /\ waiting \in SUBSET Nodes
  /\ groupErr \in Results
  /\ err \in Results
  /\ futures \in BOOLEAN
  /\ configLock \in Threads \cup {Nobody}
  /\ at \in [Threads -> {"idle", "lock", "get", "through"}]

Init ==
  /\ isAsync \in BOOLEAN
  /\ isMultiThread \in BOOLEAN
  /\ mState = [n \in Nodes |-> "NoInit"]
  /\ reconfiguring = {}
  /\ step = [n \in Nodes |-> "none"]
  /\ result = [n \in Nodes |-> "OK"]
  /\ job = "none"
  /\ current = -1
  /\ waiting = {}
  /\ groupErr = "OK"
  /\ err = "OK"
  /\ futures = FALSE
  /\ configLock = Nobody
  /\ at = [t \in Threads |-> "idle"]

-----------------------------------------------------------------------------
(* NodeActorImpl.  mLock is held over the whole of each operation.          *)

InNode(n) == n \in reconfiguring \/ step[n] \in {"inInit", "inConfig"}

\* Wrong variant: the expected state is not compared.
PrecheckSkipOnly(state, skip, expected) ==
  IF Rank[state] >= Rank[skip] THEN "skip" ELSE "go"

\* PRECHECK_STATE: "skip" answers OK, "bad" answers INVALID_OPERATION.
Precheck(state, skip, expected) ==
  IF Rank[state] >= Rank[skip] THEN "skip"
  ELSE IF state # expected THEN "bad" ELSE "go"

Finish(n, r) == /\ step' = [step EXCEPT ![n] = "done"]
                /\ result' = [result EXCEPT ![n] = r]

\* reconfig(), called by a session that reconfigures a node.
Reconfig(n) ==
  /\ ~InNode(n)
  /\ Precheck(mState[n], "Reconfiguring", "Configured") = "go"
  /\ mState' = [mState EXCEPT ![n] = "Reconfiguring"]
  /\ reconfiguring' = reconfiguring \cup {n}
  /\ UNCHANGED <<inputVars, launchVars, jobVars, waitVars>>

\* A failed onConfig() leaves the state Reconfiguring.
ReconfigReturns(n, r) ==
  /\ n \in reconfiguring
  /\ mState' = IF r = "OK" THEN [mState EXCEPT ![n] = "Configured"] ELSE mState
  /\ reconfiguring' = reconfiguring \ {n}
  /\ UNCHANGED <<inputVars, launchVars, jobVars, waitVars>>

-----------------------------------------------------------------------------
(* launchOneNode(): init(), config(), setNodeCallBack().                    *)

CallInit(n) ==
  /\ step[n] = "init"
  /\ ~InNode(n)
  /\ LET check == Precheck(mState[n], "Initializing", "NoInit")
     IN  IF check = "go"
           THEN /\ mState' = [mState EXCEPT ![n] = "Initializing"]
                /\ step' = [step EXCEPT ![n] = "inInit"]
                /\ result' = result
           ELSE /\ mState' = mState
                /\ IF check = "skip"
                     THEN step' = [step EXCEPT ![n] = "config"] /\ result' = result
                     ELSE Finish(n, "error")
  /\ UNCHANGED <<inputVars, reconfiguring, jobVars, waitVars>>

InitReturns(n, r) ==
  /\ step[n] = "inInit"
  /\ IF r = "OK"
       THEN /\ mState' = [mState EXCEPT ![n] = "Initialized"]
            /\ step' = [step EXCEPT ![n] = "config"]
            /\ result' = result
       ELSE mState' = mState /\ Finish(n, r)
  /\ UNCHANGED <<inputVars, reconfiguring, jobVars, waitVars>>

CallConfig(n) ==
  /\ step[n] = "config"
  /\ ~InNode(n)
  /\ LET check == Precheck(mState[n], "Configuring", "Initialized")
     IN  IF check = "go"
           THEN /\ mState' = [mState EXCEPT ![n] = "Configuring"]
                /\ step' = [step EXCEPT ![n] = "inConfig"]
                /\ result' = result
           ELSE /\ mState' = mState
                /\ IF check = "skip"
                     THEN step' = [step EXCEPT ![n] = "callback"] /\ result' = result
                     ELSE Finish(n, "error")
  /\ UNCHANGED <<inputVars, reconfiguring, jobVars, waitVars>>

ConfigReturns(n, r) ==
  /\ step[n] = "inConfig"
  /\ IF r = "OK"
       THEN /\ mState' = [mState EXCEPT ![n] = "Configured"]
            /\ step' = [step EXCEPT ![n] = "callback"]
            /\ result' = result
       ELSE mState' = mState /\ Finish(n, r)
  /\ UNCHANGED <<inputVars, reconfiguring, jobVars, waitVars>>

SetNodeCallBack(n, r) ==
  /\ step[n] = "callback"
  /\ Finish(n, r)
  /\ UNCHANGED <<inputVars, actorVars, jobVars, waitVars>>

LaunchStep(n) ==
  \/ CallInit(n) \/ CallConfig(n)
  \/ \E r \in Results : InitReturns(n, r) \/ ConfigReturns(n, r)
                          \/ SetNodeCallBack(n, r)

-----------------------------------------------------------------------------
(* configureNodes().                                                        *)

FreeRun   == {n \in Nodes : ~isAsync \/ order[n] < 0}
Group(o)  == {n \in Nodes \ FreeRun : order[n] = o}
OrdersLeft == {order[n] : n \in {k \in Nodes \ FreeRun : order[k] > current}}
IsNext(o) == o \in OrdersLeft /\ \A p \in OrdersLeft : o <= p

\* launchNodes(): a thread per node, or a deferred call that get() will make.
Launch(S) ==
  step' = [n \in Nodes |-> IF n \notin S THEN step[n]
                           ELSE IF isAsync THEN "init" ELSE "deferred"]

LaunchFreeRun ==
  /\ job = "begin"
  /\ Launch(FreeRun)
  /\ job' = "next"
  /\ UNCHANGED <<inputVars, actorVars, result, current, waiting, groupErr, err,
                 waitVars>>

\* Wrong variant: a group is launched and not waited for.
LaunchGroupOnly(o) ==
  /\ job = "next"
  /\ IsNext(o)
  /\ Launch(Group(o))
  /\ current' = o
  /\ UNCHANGED <<inputVars, actorVars, result, job, waiting, groupErr, err,
                 waitVars>>

LaunchGroup(o) ==
  /\ job = "next"
  /\ IsNext(o)
  /\ Launch(Group(o))
  /\ current' = o
  /\ waiting' = Group(o)
  /\ groupErr' = "OK"
  /\ job' = "group"
  /\ UNCHANGED <<inputVars, actorVars, result, err, waitVars>>

IsFront(n) == n \in waiting /\ \A k \in waiting : n <= k

\* waitForNodesLaunched(): future.get() of the front runs a deferred launch.
GetDeferred(n) ==
  /\ job \in {"group", "free"}
  /\ IsFront(n)
  /\ step[n] = "deferred"
  /\ step' = [step EXCEPT ![n] = "init"]
  /\ UNCHANGED <<inputVars, actorVars, result, jobVars, waitVars>>

\* Wrong variant: the last result wins.
PopFrontLastWins(n) ==
  /\ job \in {"group", "free"}
  /\ IsFront(n)
  /\ step[n] = "done"
  /\ waiting' = waiting \ {n}
  /\ groupErr' = result[n]
  /\ UNCHANGED <<inputVars, actorVars, launchVars, job, current, err, waitVars>>

PopFront(n) ==
  /\ job \in {"group", "free"}
  /\ IsFront(n)
  /\ step[n] = "done"
  /\ waiting' = waiting \ {n}
  /\ groupErr' = IF result[n] # "OK" THEN result[n] ELSE groupErr
  /\ UNCHANGED <<inputVars, actorVars, launchVars, job, current, err, waitVars>>

GroupLaunched ==
  /\ job = "group"
  /\ waiting = {}
  /\ err' = IF groupErr # "OK" THEN groupErr ELSE err
  /\ job' = "next"
  /\ UNCHANGED <<inputVars, actorVars, launchVars, current, waiting, groupErr,
                 waitVars>>

WaitFreeRun ==
  /\ job = "next"
  /\ OrdersLeft = {}
  /\ waiting' = FreeRun
  /\ groupErr' = "OK"
  /\ job' = "free"
  /\ UNCHANGED <<inputVars, actorVars, launchVars, current, err, waitVars>>

\* Wrong variant: the free-run nodes are not waited for.
ReturnEarly ==
  /\ job = "free"
  /\ err' = groupErr
  /\ job' = "done"
  /\ UNCHANGED <<inputVars, actorVars, launchVars, current, waiting, groupErr,
                 waitVars>>

\* err of the ordered groups is overwritten; then notifyConfigDone(err).
ConfigureNodesReturns ==
  /\ job = "free"
  /\ waiting = {}
  /\ err' = groupErr
  /\ job' = "done"
  /\ UNCHANGED <<inputVars, actorVars, launchVars, current, waiting, groupErr,
                 waitVars>>

ConfigureNodes ==
  \/ LaunchFreeRun \/ GroupLaunched \/ WaitFreeRun \/ ConfigureNodesReturns
  \/ \E n \in Nodes : LaunchGroup(order[n]) \/ GetDeferred(n) \/ PopFront(n)

-----------------------------------------------------------------------------
(* config() and waitUntilConfigDone().                                      *)

EndConfigure ==
  /\ job = "none"
  /\ job' = IF isMultiThread THEN "begin" ELSE "deferred"
  /\ futures' = TRUE
  /\ at' = [at EXCEPT ![Owner] = IF isMultiThread THEN "idle" ELSE "lock"]
  /\ UNCHANGED <<inputVars, actorVars, launchVars, current, waiting, groupErr,
                 err, configLock>>

\* Before config() the callers find no mpInFlightRequest and give up.
CallWait(t) ==
  /\ at[t] = "idle"
  /\ job # "none"
  /\ at' = [at EXCEPT ![t] = IF futures THEN "lock" ELSE "through"]
  /\ UNCHANGED <<inputVars, actorVars, launchVars, jobVars, futures, configLock>>

\* The second look, under mAsyncConfigLock; get() starts a deferred job.
LockAndLook(t) ==
  /\ at[t] = "lock"
  /\ configLock = Nobody
  /\ IF futures
       THEN /\ configLock' = t
            /\ at' = [at EXCEPT ![t] = "get"]
            /\ job' = IF job = "deferred" THEN "begin" ELSE job
       ELSE /\ at' = [at EXCEPT ![t] = "through"]
            /\ UNCHANGED <<configLock, job>>
  /\ UNCHANGED <<inputVars, actorVars, launchVars, current, waiting, groupErr,
                 err, futures>>

\* Wrong variant: mAsyncConfigLock is not given back.
GetKeepsLock(t) ==
  /\ at[t] = "get"
  /\ job = "done"
  /\ futures' = FALSE
  /\ configLock' = configLock
  /\ at' = [at EXCEPT ![t] = "through"]
  /\ UNCHANGED <<inputVars, actorVars, launchVars, jobVars>>

GetReturns(t) ==
  /\ at[t] = "get"
  /\ job = "done"
  /\ futures' = FALSE
  /\ configLock' = Nobody
  /\ at' = [at EXCEPT ![t] = "through"]
  /\ UNCHANGED <<inputVars, actorVars, launchVars, jobVars>>

Leave(t) ==
  /\ at[t] = "through"
  /\ at' = [at EXCEPT ![t] = "idle"]
  /\ UNCHANGED <<inputVars, actorVars, launchVars, jobVars, futures, configLock>>

\* uninit(), by a session that has waited for this context.
Uninit(t, n) ==
  /\ at[t] = "through"
  /\ ~InNode(n)
  /\ mState[n] # "NoInit"
  /\ mState' = [mState EXCEPT ![n] = "NoInit"]
  /\ UNCHANGED <<inputVars, reconfiguring, launchVars, jobVars, waitVars>>

WaitStep(t) == CallWait(t) \/ LockAndLook(t) \/ GetReturns(t) \/ Leave(t)

Next ==
  \/ EndConfigure
  \/ ConfigureNodes
  \/ \E n \in Nodes : \/ LaunchStep(n)
                      \/ Reconfig(n)
                      \/ \E r \in Results : ReconfigReturns(n, r)
  \/ \E t \in Threads : WaitStep(t) \/ \E n \in Nodes : Uninit(t, n)

Spec == Init /\ [][Next]_vars

\* Every thread runs, and a node's init() and config() return.
FairSpec ==
  /\ Spec
  /\ WF_vars(ConfigureNodes)
  /\ \A n \in Nodes : WF_vars(LaunchStep(n))
  /\ \A n \in Nodes : WF_vars(\E r \in Results : ReconfigReturns(n, r))
  /\ \A t \in Threads : WF_vars(LockAndLook(t) \/ GetReturns(t))

-----------------------------------------------------------------------------
(* Properties.                                                              *)

Started(n)  == step[n] \notin {"none", "deferred"}
Finished(n) == step[n] = "done"

(* With parallel nodes, no node of an init order >= 0 is inside init() or   *)
(* config() before every node of a smaller order >= 0 has returned, however *)
(* the threads of the launches interleave.                                  *)
LaunchedInOrder ==
  isAsync => \A m, n \in Nodes :
    order[m] >= 0 /\ order[m] < order[n] /\ Started(n) => Finished(m)

(* Without parallel nodes one node is launched at a time, in topological    *)
(* order, on whichever thread called get().                                 *)
LaunchedOneByOne ==
  ~isAsync => \A m, n \in Nodes : m < n /\ Started(n) => Finished(m)

(* A thread that has come through waitUntilConfigDone() finds no launch     *)
(* running or still to run, whether it waited for the future, queued behind *)
(* the thread that did, or found the futures already cleared.               *)
ThroughMeansLaunched ==
  \A t \in Threads : at[t] = "through" => \A n \in Nodes : Finished(n)

(* What configureNodes() reports covers the nodes it waited for last: an    *)
(* error of a free-run node, so of any node without parallel nodes, is      *)
(* never lost on the way to setConfigDone() and the first waiter.           *)
FreeRunErrorReported ==
  job = "done" => (err = "OK" <=> \A n \in FreeRun : result[n] = "OK")

(* mLock keeps a session's reconfig() out of a node that is launching, and  *)
(* only a node whose config() succeeded is ever reconfigured.               *)
ReconfigAfterConfig ==
  \A n \in reconfiguring : /\ mState[n] = "Reconfiguring"
                           /\ step[n] \in {"callback", "done"}

(* Every thread in waitUntilConfigDone() gets through: some thread runs the *)
(* deferred job, and nobody waits for a future that has been taken.         *)
EveryWaiterGetsThrough ==
  \A t \in Threads : at[t] \in {"lock", "get"} ~> at[t] = "through"

(* The inductive invariant of NodeLaunch_proofs: what is true of the nodes  *)
(* at each point of configureNodes(), of what it has collected, and of the  *)
(* threads that wait for it.                                                *)
ActorsFollowLaunch ==
  /\ \A n \in Nodes : mState[n] \in {"Configured", "Reconfiguring"} =>
                        step[n] \in {"callback", "done"}
  /\ ReconfigAfterConfig

NothingLaunchedYet ==
  job \in {"none", "deferred", "begin"} =>
    /\ \A n \in Nodes : step[n] = "none"
    /\ current = -1

OrdersBehindAreDone ==
  job \in {"next", "group", "free"} =>
    /\ \A n \in FreeRun : step[n] # "none"
    /\ \A n \in Nodes \ FreeRun :
         \/ order[n] > current /\ step[n] = "none"
         \/ order[n] <= current /\ Finished(n)
         \/ order[n] = current /\ job = "group" /\ n \in waiting

FreeRunCollected ==
  job = "free" =>
    /\ OrdersLeft = {}
    /\ waiting \subseteq FreeRun
    /\ \A n \in FreeRun \ waiting : Finished(n)
    /\ groupErr = "OK" <=> \A n \in FreeRun \ waiting : result[n] = "OK"

OnlyFrontRuns ==
  ~isAsync =>
    /\ job # "group"
    /\ (\E n \in Nodes : Started(n)) => job \in {"free", "done"}
    /\ job = "free" =>
         /\ \A m \in waiting, k \in Nodes \ waiting : k < m
         /\ \A n \in waiting : Started(n) => IsFront(n)

WaitersFollowJob ==
  /\ ~futures => job \in {"none", "done"}
  /\ \A t \in Threads : at[t] # "idle" => job # "none"
  /\ \A t \in Threads : at[t] = "through" => job = "done"

IInv ==
  /\ TypeOK
  /\ ActorsFollowLaunch
  /\ NothingLaunchedYet
  /\ OrdersBehindAreDone
  /\ FreeRunCollected
  /\ OnlyFrontRuns
  /\ WaitersFollowJob
  /\ job = "done" => \A n \in Nodes : Finished(n)
  /\ FreeRunErrorReported

=============================================================================
