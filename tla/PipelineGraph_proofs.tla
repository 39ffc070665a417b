------------------------- MODULE PipelineGraph_proofs -------------------------
(***************************************************************************)
(* Proofs about the way of a frame through the graph of module             *)
(* PipelineContext: that its roots agree, that a join waits for all its    *)
(* predecessors, that a flush is contagious, and that a frame which is no  *)
(* longer in flight has been everywhere.  For every finite graph without   *)
(* cycles.                                                                 *)
(***************************************************************************)
EXTENDS PipelineContext_proofs, FiniteSetTheorems

-----------------------------------------------------------------------------
(* The steps that touch a frame at a node *)

\* A root is given the frame only once, in a pass of the sender.
LEMMA RootStep ==
  ASSUME FlushInv, GraphInv, NEW r \in Roots, FlushRoot(r) \/ QueueRoot(r)
  PROVE  /\ r \in Nodes /\ frame \in Frames /\ frame' = frame
         /\ sender = "pass" /\ sender' = "pass"
         /\ st[frame][r] = "none" /\ handed[frame][r] = "none"
         /\ \A g \in Frames, k \in Nodes : g # frame \/ k # r =>
               st'[g][k] = st[g][k] /\ handed'[g][k] = handed[g][k]
         /\ \/ FlushRoot(r) /\ st'[frame][r] = "flushing" /\ handed'[frame][r] = "flush"
            \/ QueueRoot(r) /\ st'[frame][r] = "queued" /\ handed'[frame][r] = "queue"
         /\ UNCHANGED <<left, visit, mInAdjReqCnt, listVars, failed>>
<1> USE NumFramesAssumption, NoNodeAssumption DEF FlushInv, TypeOK
<1>1. r \in Nodes /\ frame \in Frames /\ sender = "pass" /\ r \in remaining /\ calling = NoNode
  BY DEF FlushRoot, QueueRoot, AtRoot, Roots, Frames
<1>2. handed[frame][r] = "none"
  BY <1>1 DEF GraphInv, RootsAsSent
<1>3. st[frame][r] = "none"
  BY <1>1, <1>2 DEF GraphInv, StandsAsHanded
<1>4. CASE FlushRoot(r)
  BY <1>1, <1>2, <1>3, <1>4 DEF FlushRoot, Hand
<1>5. CASE QueueRoot(r)
  BY <1>1, <1>2, <1>3, <1>5 DEF QueueRoot, Hand
<1> QED BY <1>4, <1>5

\* A node that dispatches a frame was not counted, so the next node has not
\* been given the frame; it is given it if this is the last predecessor.
LEMMA DispatchStep ==
  ASSUME FlushInv, GraphInv, NEW f \in Frames, NEW n \in Nodes, NEW m \in Nodes,
         DispatchTo(f, n, m)
  PROVE  /\ n \in In(m) /\ m \in Out(n) /\ m \notin Roots /\ n # m
         /\ st[f][n] = "out" /\ handed[f][n] # "none"
         /\ n \notin Came(f, m)
         /\ st[f][m] = "none" /\ handed[f][m] = "none"
         /\ \A g \in Frames, k \in Nodes : g # f \/ k # m =>
               st'[g][k] = st[g][k] /\ handed'[g][k] = handed[g][k]
         /\ \/ /\ ~AllCame(f, m)
               /\ UNCHANGED <<st, handed, visit>>
            \/ /\ AllCame(f, m)
               /\ visit' = [visit EXCEPT ![f][n] = m]
               /\ \/ Flushed(f) /\ st'[f][m] = "flushing" /\ handed'[f][m] = "flush"
                  \/ ~Flushed(f) /\ st'[f][m] = "toQueue" /\ handed'[f][m] = "none"
<1> USE DEF FlushInv, TypeOK
<1>1. m \in left[f][n] /\ st[f][n] = "out"
  BY DEF DispatchTo
<1>2. m \in Out(n) /\ handed[f][n] # "none"
  BY <1>1 DEF GraphInv, FollowsEdges, StandsAsHanded
<1>3. n \in In(m) /\ m \notin Roots
  BY <1>2 DEF In, Out, Roots
<1>4. n \notin Came(f, m)
  BY <1>1 DEF Came, HasDispatched
<1>5. st[f][m] = "none"
  BY <1>3, <1>4 DEF GraphInv, JoinsCount
<1>6. handed[f][m] = "none"
  BY <1>5 DEF GraphInv, StandsAsHanded
<1>7. n # m
  BY <1>1, <1>5
<1>8. \/ ~AllCame(f, m) /\ UNCHANGED <<st, handed, visit>>
      \/ /\ AllCame(f, m)
         /\ visit' = [visit EXCEPT ![f][n] = m]
         /\ Flushed(f)
         /\ Hand(f, m, "flush")
      \/ /\ AllCame(f, m)
         /\ visit' = [visit EXCEPT ![f][n] = m]
         /\ ~Flushed(f)
         /\ st' = [st EXCEPT ![f][m] = "toQueue"]
         /\ UNCHANGED handed
  BY Zenon DEF DispatchTo
<1>9. CASE ~AllCame(f, m) /\ UNCHANGED <<st, handed, visit>>
  BY <1>1, <1>2, <1>3, <1>4, <1>5, <1>6, <1>7, <1>9
<1>10. CASE /\ AllCame(f, m)
            /\ visit' = [visit EXCEPT ![f][n] = m]
            /\ Flushed(f)
            /\ Hand(f, m, "flush")
  BY <1>1, <1>2, <1>3, <1>4, <1>5, <1>6, <1>7, <1>10 DEF Hand
<1>11. CASE /\ AllCame(f, m)
            /\ visit' = [visit EXCEPT ![f][n] = m]
            /\ ~Flushed(f)
            /\ st' = [st EXCEPT ![f][m] = "toQueue"]
            /\ UNCHANGED handed
  BY <1>1, <1>2, <1>3, <1>4, <1>5, <1>6, <1>7, <1>11
<1> QED BY <1>8, <1>9, <1>10, <1>11

\* The other steps of the nodes change at most where the frame stands at one
\* node, k: it moves on from there.
LEMMA MoveStep ==
  ASSUME FlushInv, GraphInv, NEW f \in Frames, FrameStep(f),
         ~\E n \in Nodes, m \in Nodes : DispatchTo(f, n, m)
  PROVE  /\ UNCHANGED mInAdjReqCnt
         /\ \/ UNCHANGED <<st, handed, left, mRequestMap, failed>>
            \/ \E k \in Nodes :
                 /\ \A g \in Frames, i \in Nodes : g # f \/ i # k =>
                       st'[g][i] = st[g][i] /\ handed'[g][i] = handed[g][i]
                 /\ \/ /\ NodeReturns(f, k)
                       /\ st[f][k] \in {"queued", "flushing"} /\ st'[f][k] = "out"
                       /\ UNCHANGED <<handed, failed>>
                    \/ /\ st[f][k] = "out" /\ st'[f][k] = "done" /\ left[f][k] = {}
                       /\ UNCHANGED <<handed, left, mRequestMap, failed>>
                    \/ /\ st[f][k] = "toQueue" /\ st'[f][k] = "queued"
                       /\ handed[f][k] = "none" /\ handed'[f][k] = "queue"
                       /\ UNCHANGED <<left, mRequestMap, failed>>
                    \/ /\ st[f][k] = "toQueue" /\ st'[f][k] = "done"
                       /\ UNCHANGED <<handed, left, mRequestMap>>
                       /\ failed' = failed \cup {f}
<1> USE DEF FlushInv, TypeOK
<1>1. CASE ReleaseFrame(f)
  BY <1>1 DEF ReleaseFrame, nodeVars
<1>2. ASSUME NEW k \in Nodes, NodeReturns(f, k)
      PROVE  /\ UNCHANGED <<mInAdjReqCnt, handed, failed>>
             /\ st[f][k] \in {"queued", "flushing"} /\ st'[f][k] = "out"
             /\ \A g \in Frames, i \in Nodes : g # f \/ i # k => st'[g][i] = st[g][i]
  BY <1>2 DEF NodeReturns
<1>3. ASSUME NEW k \in Nodes, DispatchReturns(f, k)
      PROVE  /\ UNCHANGED <<mInAdjReqCnt, handed, left, mRequestMap, failed>>
             /\ st[f][k] = "out" /\ st'[f][k] = "done" /\ left[f][k] = {}
             /\ \A g \in Frames, i \in Nodes : g # f \/ i # k => st'[g][i] = st[g][i]
  BY <1>3 DEF DispatchReturns, listVars
<1>4. ASSUME NEW n \in Nodes, NEW k \in Nodes, QueueNext(f, n, k)
      PROVE  /\ UNCHANGED <<mInAdjReqCnt, left, mRequestMap, failed>>
             /\ st[f][k] = "toQueue" /\ st'[f][k] = "queued"
             /\ handed[f][k] = "none" /\ handed'[f][k] = "queue"
             /\ \A g \in Frames, i \in Nodes : g # f \/ i # k =>
                   st'[g][i] = st[g][i] /\ handed'[g][i] = handed[g][i]
  BY <1>4 DEF QueueNext, Hand, listVars, GraphInv, StandsAsHanded
<1>5. ASSUME NEW n \in Nodes, NEW k \in Nodes, NextRejects(f, n, k)
      PROVE  /\ UNCHANGED <<mInAdjReqCnt, handed, left, mRequestMap>>
             /\ st[f][k] = "toQueue" /\ st'[f][k] = "done"
             /\ failed' = failed \cup {f}
             /\ \A g \in Frames, i \in Nodes : g # f \/ i # k =>
                   st'[g][i] = st[g][i] /\ handed'[g][i] = handed[g][i]
  BY <1>5 DEF NextRejects, listVars
<1>6. ASSUME NEW n \in Nodes, NEW k \in Nodes, FlushNextReturns(f, n, k)
      PROVE  UNCHANGED <<mInAdjReqCnt, st, handed, left, mRequestMap, failed>>
  BY <1>6 DEF FlushNextReturns, listVars
<1>7. CASE \E k \in Nodes : NodeReturns(f, k)
  BY <1>2, <1>7
<1>8. CASE \E k \in Nodes : DispatchReturns(f, k)
  BY <1>3, <1>8
<1>9. CASE \E n \in Nodes, k \in Nodes : QueueNext(f, n, k)
  <2>1. PICK n \in Nodes, k \in Nodes : QueueNext(f, n, k)
    BY <1>9
  <2> QED BY <2>1, <1>4
<1>10. CASE \E n \in Nodes, k \in Nodes : NextRejects(f, n, k)
  <2>1. PICK n \in Nodes, k \in Nodes : NextRejects(f, n, k)
    BY <1>10
  <2> HIDE DEF FlushInv, TypeOK
  <2> QED BY <2>1, <1>5
<1>11. CASE \E n \in Nodes, k \in Nodes : FlushNextReturns(f, n, k)
  BY <1>6, <1>11
<1> QED
  BY <1>1, <1>7, <1>8, <1>9, <1>10, <1>11 DEF FrameStep

\* Where the steps of a frame leave the predecessors counted so far.
LEMMA SameCame ==
  ASSUME FlushInv, GraphInv, [Next]_vars,
         ~\E f \in Frames, n \in Nodes, m \in Nodes : DispatchTo(f, n, m),
         NEW g \in Frames, NEW k \in Nodes
  PROVE  Came(g, k)' = Came(g, k)
<1> SUFFICES ASSUME NEW i \in In(k)
             PROVE  HasDispatched(g, i, k)' <=> HasDispatched(g, i, k)
  BY DEF Came, In
<1> i \in Nodes /\ k \in Out(i)
  BY DEF In, Out
<1>1. CASE UNCHANGED nodeVars
  BY <1>1 DEF nodeVars, HasDispatched
<1>2. ASSUME NEW r \in Roots, FlushRoot(r) \/ QueueRoot(r)
      PROVE  HasDispatched(g, i, k)' <=> HasDispatched(g, i, k)
  BY <1>2, RootStep DEF HasDispatched
<1>3. ASSUME NEW f \in Frames, FrameStep(f)
      PROVE  HasDispatched(g, i, k)' <=> HasDispatched(g, i, k)
  <2>1. CASE UNCHANGED <<st, handed, left, mRequestMap, failed>>
    BY <2>1 DEF HasDispatched
  <2>2. ASSUME NEW j \in Nodes, NodeReturns(f, j),
               st[f][j] \in {"queued", "flushing"}, st'[f][j] = "out",
               UNCHANGED handed,
               \A h \in Frames, l \in Nodes : h # f \/ l # j => st'[h][l] = st[h][l]
        PROVE  HasDispatched(g, i, k)' <=> HasDispatched(g, i, k)
    BY <2>2 DEF HasDispatched, NodeReturns, FlushInv, TypeOK
  <2>3. ASSUME NEW j \in Nodes, UNCHANGED <<handed, left>>,
               st[f][j] = "out" /\ st'[f][j] = "done",
               \A h \in Frames, l \in Nodes : h # f \/ l # j => st'[h][l] = st[h][l]
        PROVE  HasDispatched(g, i, k)' <=> HasDispatched(g, i, k)
    BY <2>3 DEF HasDispatched
  <2>4. ASSUME NEW j \in Nodes, UNCHANGED left, st[f][j] = "toQueue",
               st'[f][j] = "queued" \/ handed'[f][j] = "none",
               \A h \in Frames, l \in Nodes : h # f \/ l # j =>
                  st'[h][l] = st[h][l] /\ handed'[h][l] = handed[h][l]
        PROVE  HasDispatched(g, i, k)' <=> HasDispatched(g, i, k)
    BY <2>4 DEF HasDispatched
  <2>5. \A j \in Nodes : st[f][j] = "toQueue" => handed[f][j] = "none"
    BY DEF GraphInv, StandsAsHanded
  <2> QED
    BY <1>3, MoveStep, <2>1, <2>2, <2>3, <2>4, <2>5
<1>4. CASE SetFlushing \/ FlushInProgress \/ UNCHANGED vars
  BY <1>1, <1>4, FlusherFrame DEF vars
<1> QED
  BY Steps, SenderAtNodes, <1>1, <1>2, <1>3, <1>4

LEMMA OneMoreCame ==
  ASSUME FlushInv, GraphInv, NEW f \in Frames, NEW n \in Nodes, NEW m \in Nodes,
         DispatchTo(f, n, m), NEW g \in Frames, NEW k \in Nodes
  PROVE  Came(g, k)' = IF g = f /\ k = m THEN Came(f, m) \cup {n} ELSE Came(g, k)
<1>1. left' = [left EXCEPT ![f][n] = left[f][n] \ {m}]
  BY DEF DispatchTo
<1>2. \A i \in Nodes :
         HasDispatched(g, i, k)' <=> HasDispatched(g, i, k) \/ (g = f /\ i = n /\ k = m)
  <2> TAKE i \in Nodes
  <2> USE DispatchStep DEF HasDispatched, FlushInv, TypeOK
  <2>1. CASE g # f \/ (i # m /\ i # n)
    BY <1>1, <2>1
  <2>2. CASE g = f /\ i = m
    BY <1>1, <2>2
  <2>3. CASE g = f /\ i = n
    BY <1>1, <2>3
  <2> QED BY <2>1, <2>2, <2>3
<1>3. n \in In(m)
  BY DispatchStep
<1> QED
  BY <1>2, <1>3 DEF Came, In

LEMMA CameFinite ==
  ASSUME NEW f \in Frames, NEW m \in Nodes
  PROVE  /\ IsFiniteSet(In(m)) /\ Came(f, m) \subseteq In(m)
         /\ IsFiniteSet(Came(f, m))
         /\ Cardinality(Came(f, m)) \in Nat /\ Cardinality(In(m)) \in Nat
<1>1. In(m) \subseteq Nodes /\ Came(f, m) \subseteq In(m)
  BY DEF In, Came
<1>2. IsFiniteSet(In(m)) /\ IsFiniteSet(Came(f, m))
  BY <1>1, NodesAssumption, FS_Subset
<1> QED BY <1>1, <1>2, FS_CardinalityType

\* The counter of onDispatchFrame() says when the last predecessor has come.
LEMMA LastOne ==
  ASSUME FlushInv, GraphInv, NEW f \in Frames, NEW n \in Nodes, NEW m \in Nodes,
         DispatchTo(f, n, m)
  PROVE  /\ Cardinality(Came(f, m) \cup {n}) = mInAdjReqCnt[f][m] + 1
         /\ AllCame(f, m) <=> Came(f, m) \cup {n} = In(m)
<1>1. n \in In(m) /\ n \notin Came(f, m)
  BY DispatchStep
<1>2. mInAdjReqCnt[f][m] = Cardinality(Came(f, m))
  BY DEF GraphInv, JoinsCount
<1>3. Cardinality(Came(f, m) \cup {n}) = Cardinality(Came(f, m)) + 1
  BY <1>1, CameFinite, FS_AddElement
<1>4. Came(f, m) \cup {n} \subseteq In(m)
  BY <1>1, CameFinite
<1>5. /\ Cardinality(Came(f, m) \cup {n}) <= Cardinality(In(m))
      /\ Cardinality(Came(f, m) \cup {n}) = Cardinality(In(m)) => Came(f, m) \cup {n} = In(m)
  BY <1>4, CameFinite, FS_Subset
<1>6. AllCame(f, m) <=> Cardinality(Came(f, m) \cup {n}) >= Cardinality(In(m))
  BY <1>2, <1>3 DEF AllCame
<1>7. AllCame(f, m) <=> Cardinality(Came(f, m) \cup {n}) = Cardinality(In(m))
  BY <1>3, <1>5, <1>6, CameFinite
<1>8. Cardinality(Came(f, m) \cup {n}) = mInAdjReqCnt[f][m] + 1
  BY <1>2, <1>3
<1> QED
  BY <1>5, <1>7, <1>8, Zenon

-----------------------------------------------------------------------------
(* The conjuncts of GraphInv, one at a time *)

LEMMA JoinsStep ==
  ASSUME FlushInv, GraphInv, [Next]_vars
  PROVE  JoinsCount'
<1> SUFFICES ASSUME NEW g \in Frames, NEW k \in Nodes
             PROVE  /\ mInAdjReqCnt'[g][k] = Cardinality(Came(g, k)')
                    /\ k \notin Roots => (st'[g][k] # "none" <=> Came(g, k)' = In(k))
  BY DEF JoinsCount
<1> DEFINE Kept == /\ mInAdjReqCnt'[g][k] = mInAdjReqCnt[g][k]
                   /\ k \notin Roots => (st'[g][k] # "none" <=> st[g][k] # "none")
<1>1. ASSUME NEW f \in Frames, NEW n \in Nodes, NEW m \in Nodes, DispatchTo(f, n, m)
      PROVE  /\ mInAdjReqCnt'[g][k] = Cardinality(Came(g, k)')
             /\ k \notin Roots => (st'[g][k] # "none" <=> Came(g, k)' = In(k))
  <2>1. mInAdjReqCnt' = [mInAdjReqCnt EXCEPT ![f][m] = mInAdjReqCnt[f][m] + 1]
    BY <1>1 DEF DispatchTo
  <2>2. CASE g = f /\ k = m
    <3>1. Came(g, k)' = Came(f, m) \cup {n}
      BY <1>1, <2>2, OneMoreCame
    <3>2. mInAdjReqCnt'[g][k] = mInAdjReqCnt[f][m] + 1
      BY <2>1, <2>2 DEF FlushInv, TypeOK
    <3>3. st'[g][k] # "none" <=> AllCame(f, m)
      BY <1>1, <2>2, DispatchStep
    <3> QED BY <1>1, <2>2, <3>1, <3>2, <3>3, LastOne
  <2>3. CASE g # f \/ k # m
    <3>1. Came(g, k)' = Came(g, k)
      BY <1>1, <2>3, OneMoreCame
    <3>2. mInAdjReqCnt'[g][k] = mInAdjReqCnt[g][k]
      BY <2>1, <2>3 DEF FlushInv, TypeOK
    <3>3. st'[g][k] = st[g][k]
      BY <1>1, <2>3, DispatchStep
    <3> QED BY <3>1, <3>2, <3>3 DEF GraphInv, JoinsCount
  <2> QED BY <2>2, <2>3
<1>2. CASE ~\E f \in Frames, n \in Nodes, m \in Nodes : DispatchTo(f, n, m)
  <2>1. Kept
    <3>1. CASE UNCHANGED nodeVars
      BY <3>1 DEF nodeVars
    <3>2. ASSUME NEW r \in Roots, FlushRoot(r) \/ QueueRoot(r) PROVE Kept
      BY <3>2, RootStep
    <3>3. ASSUME NEW f \in Frames, FrameStep(f) PROVE Kept
      BY <1>2, <3>3, MoveStep
    <3>4. CASE SetFlushing \/ FlushInProgress \/ UNCHANGED vars
      BY <3>1, <3>4, FlusherFrame DEF vars
    <3> QED BY Steps, SenderAtNodes, <3>1, <3>2, <3>3, <3>4
  <2>2. Came(g, k)' = Came(g, k)
    BY <1>2, SameCame
  <2> QED BY <2>1, <2>2 DEF GraphInv, JoinsCount
<1> QED BY <1>1, <1>2

\* A frame never goes back to where a node has not seen it, and what has gone
\* wrong, or was aborted, stays so.
LEMMA Monotone ==
  ASSUME FlushInv, GraphInv, [Next]_vars
  PROVE  /\ failed \subseteq failed' /\ aborted \subseteq aborted'
         /\ \A g \in Frames, k \in Nodes : st[g][k] # "none" => st'[g][k] # "none"
<1>1. CASE Sender
  <2>1. failed \subseteq failed' /\ aborted \subseteq aborted'
    BY <1>1 DEF Sender, SendFrameBegin, RegisterRequest, KickBarrier, BeginPass,
       AcquireKickLock, EndPass, FlushRoot, FlushRootReturns, QueueRoot,
       RootBusy, RootError
  <2>2. ASSUME NEW r \in Roots, FlushRoot(r) \/ QueueRoot(r)
        PROVE  \A g \in Frames, k \in Nodes : st[g][k] # "none" => st'[g][k] # "none"
    BY <2>2, RootStep
  <2> QED BY <1>1, <2>1, <2>2, SenderAtNodes DEF nodeVars
<1>2. ASSUME NEW f \in Frames, FrameStep(f)
      PROVE  /\ failed \subseteq failed' /\ aborted \subseteq aborted'
             /\ \A g \in Frames, k \in Nodes : st[g][k] # "none" => st'[g][k] # "none"
  <2>1. CASE \E n \in Nodes, m \in Nodes : DispatchTo(f, n, m)
    <3>1. PICK n \in Nodes, m \in Nodes : DispatchTo(f, n, m)
      BY <2>1
    <3>2. UNCHANGED <<failed, aborted>>
      BY <3>1 DEF DispatchTo
    <3> QED BY <3>1, <3>2, DispatchStep
  <2>2. CASE ~\E n \in Nodes, m \in Nodes : DispatchTo(f, n, m)
    BY <1>2, <2>2, MoveStep, NodeFrame
  <2> QED BY <2>1, <2>2
<1>3. CASE SetFlushing \/ FlushInProgress
  <2>1. aborted \subseteq aborted'
    BY <1>3 DEF SetFlushing, FlushInProgress, DispatcherBeginFlush, Abort, LockKick,
       UnlockKick, FlushNode, Drained, DispatcherEndFlush, EndFlush
  <2> QED BY <1>3, <2>1, FlusherFrame DEF nodeVars
<1>4. CASE UNCHANGED vars
  BY <1>4 DEF vars, nodeVars
<1> QED BY Steps, <1>1, <1>2, <1>3, <1>4

\* Nobody but the sender gives a frame to a root.
LEMMA RootsLeftAlone ==
  ASSUME FlushInv, GraphInv, NEW f \in Frames, FrameStep(f),
         NEW g \in Frames, NEW r \in Roots
  PROVE  handed'[g][r] = handed[g][r]
<1> r \in Nodes
  BY DEF Roots
<1>1. ASSUME NEW n \in Nodes, NEW m \in Nodes, DispatchTo(f, n, m)
      PROVE  handed'[g][r] = handed[g][r]
  BY <1>1, DispatchStep
<1>2. \A k \in Nodes : st[f][k] = "toQueue" => k # r
  BY DEF GraphInv, StandsAsHanded
<1>3. CASE ~\E n \in Nodes, m \in Nodes : DispatchTo(f, n, m)
  BY <1>2, <1>3, MoveStep
<1> QED BY <1>1, <1>3

LEMMA FreshStep ==
  ASSUME FlushInv, GraphInv, [Next]_vars
  PROVE  Fresh'
<1> USE NumFramesAssumption DEF Fresh
<1>1. CASE UNCHANGED nodeVars
  <2>1. \/ frame' = frame /\ (sender' = "register" => sender = "register")
        \/ frame' = frame + 1
    <3>1. CASE Sender
      BY <3>1 DEF Sender, SendFrameBegin, RegisterRequest, KickBarrier, BeginPass,
         AcquireKickLock, EndPass, FlushRoot, FlushRootReturns, QueueRoot,
         RootBusy, RootError
    <3> QED BY <3>1, Steps, NodeFrame, FlusherFrame DEF vars, sendVars
  <2>2. frame \in Nat
    BY DEF FlushInv, TypeOK
  <2> QED BY <1>1, <2>1, <2>2 DEF nodeVars, GraphInv, Frames
<1>2. ASSUME NEW r \in Roots, FlushRoot(r) \/ QueueRoot(r) PROVE Fresh'
  <2>1. frame \in Nat
    BY DEF FlushInv, TypeOK
  <2> QED BY <1>2, <2>1, RootStep DEF GraphInv
<1>3. ASSUME NEW f \in Frames, FrameStep(f) PROVE Fresh'
  <2>1. UNCHANGED <<frame, sender>>
    BY <1>3, NodeFrame DEF sendVars
  <2>2. ASSUME NEW n \in Nodes, NEW m \in Nodes, DispatchTo(f, n, m) PROVE Fresh'
    BY <2>1, <2>2, DispatchStep DEF GraphInv
  <2>3. CASE ~\E n \in Nodes, m \in Nodes : DispatchTo(f, n, m)
    BY <1>3, <2>1, <2>3, MoveStep DEF GraphInv
  <2> QED BY <2>2, <2>3
<1> QED
  BY Steps, SenderAtNodes, FlusherFrame, <1>1, <1>2, <1>3 DEF vars

LEMMA StandsStep ==
  ASSUME FlushInv, GraphInv, [Next]_vars
  PROVE  StandsAsHanded'
<1> SUFFICES ASSUME NEW g \in Frames, NEW k \in Nodes
             PROVE  IF handed'[g][k] = "none"
                    THEN \/ st'[g][k] = "none"
                         \/ /\ k \notin Roots
                            /\ st'[g][k] = "done" => g \in failed'
                            /\ st'[g][k] \in {"toQueue", "done"}
                    ELSE st'[g][k] \in {"queued", "flushing", "out", "done"}
  BY DEF StandsAsHanded
<1> DEFINE Stands == IF handed'[g][k] = "none"
                     THEN \/ st'[g][k] = "none"
                          \/ /\ k \notin Roots
                             /\ st'[g][k] = "done" => g \in failed'
                             /\ st'[g][k] \in {"toQueue", "done"}
                     ELSE st'[g][k] \in {"queued", "flushing", "out", "done"}
<1>1. /\ IF handed[g][k] = "none"
         THEN \/ st[g][k] = "none"
              \/ /\ k \notin Roots
                 /\ st[g][k] = "done" => g \in failed
                 /\ st[g][k] \in {"toQueue", "done"}
         ELSE st[g][k] \in {"queued", "flushing", "out", "done"}
      /\ failed \subseteq failed'
  BY Monotone DEF GraphInv, StandsAsHanded
<1>2. CASE UNCHANGED nodeVars
  BY <1>1, <1>2 DEF nodeVars
<1>3. ASSUME NEW r \in Roots, FlushRoot(r) \/ QueueRoot(r) PROVE Stands
  BY <1>1, <1>3, RootStep
<1>4. ASSUME NEW f \in Frames, FrameStep(f) PROVE Stands
  <2>1. ASSUME NEW n \in Nodes, NEW m \in Nodes, DispatchTo(f, n, m) PROVE Stands
    BY <1>1, <2>1, DispatchStep
  <2>2. CASE ~\E n \in Nodes, m \in Nodes : DispatchTo(f, n, m)
    BY <1>1, <1>4, <2>2, MoveStep
  <2> QED BY <2>1, <2>2
<1> QED
  BY Steps, SenderAtNodes, FlusherFrame, <1>2, <1>3, <1>4 DEF vars

LEMMA EdgesStep ==
  ASSUME FlushInv, GraphInv, [Next]_vars
  PROVE  FollowsEdges'
<1> SUFFICES ASSUME NEW g \in Frames, NEW k \in Nodes
             PROVE  /\ left'[g][k] \subseteq Out(k)
                    /\ left'[g][k] # {} => st'[g][k] = "out"
                    /\ visit'[g][k] \in Out(k) \cup {NoNode}
  BY DEF FollowsEdges
<1> DEFINE Follows == /\ left'[g][k] \subseteq Out(k)
                      /\ left'[g][k] # {} => st'[g][k] = "out"
                      /\ visit'[g][k] \in Out(k) \cup {NoNode}
<1>1. /\ left[g][k] \subseteq Out(k)
      /\ left[g][k] # {} => st[g][k] = "out"
      /\ visit[g][k] \in Out(k) \cup {NoNode}
  BY DEF GraphInv, FollowsEdges
<1>2. CASE UNCHANGED nodeVars
  BY <1>1, <1>2 DEF nodeVars
<1>3. ASSUME NEW r \in Roots, FlushRoot(r) \/ QueueRoot(r) PROVE Follows
  BY <1>1, <1>3, RootStep
<1>4. ASSUME NEW f \in Frames, FrameStep(f) PROVE Follows
  <2>1. ASSUME NEW n \in Nodes, NEW m \in Nodes, DispatchTo(f, n, m) PROVE Follows
    <3>1. left'[g][k] = IF g = f /\ k = n THEN left[f][n] \ {m} ELSE left[g][k]
      BY <2>1 DEF DispatchTo, FlushInv, TypeOK
    <3>2. visit'[g][k] = visit[g][k] \/ (g = f /\ k = n /\ visit'[g][k] = m /\ m \in Out(n))
      <4>1. visit' = visit \/ visit' = [visit EXCEPT ![f][n] = m]
        BY <2>1, DispatchOutcome
      <4>2. visit \in [Frames -> [Nodes -> Nodes \cup {NoNode}]] /\ m \in Out(n)
        BY <2>1, DispatchStep DEF FlushInv, TypeOK
      <4> QED BY <4>1, <4>2
    <3>3. st[g][k] = "out" => st'[g][k] = "out"
      BY <2>1, DispatchStep
    <3> QED BY <1>1, <3>1, <3>2, <3>3
  <2>2. CASE ~\E n \in Nodes, m \in Nodes : DispatchTo(f, n, m)
    <3>1. visit'[g][k] \in {visit[g][k], NoNode}
      <4>1. visit' = visit \/ \E n \in Nodes : visit' = [visit EXCEPT ![f][n] = NoNode]
        BY <1>4, <2>2 DEF FrameStep, ReleaseFrame, NodeReturns, DispatchReturns,
           QueueNext, NextRejects, FlushNextReturns, Visited, nodeVars
      <4>2. visit \in [Frames -> [Nodes -> Nodes \cup {NoNode}]]
        BY DEF FlushInv, TypeOK
      <4> QED BY <4>1, <4>2
    <3>2. \/ left'[g][k] = left[g][k] /\ (left[g][k] # {} => st'[g][k] = st[g][k])
          \/ left'[g][k] = Out(k) /\ st'[g][k] = "out"
      <4>1. ASSUME NEW j \in Nodes, NodeReturns(f, j)
            PROVE  left'[g][k] = IF g = f /\ k = j THEN Out(j) ELSE left[g][k]
        BY <4>1 DEF NodeReturns, FlushInv, TypeOK
      <4> QED BY <1>1, <1>4, <2>2, <4>1, MoveStep
    <3> QED BY <1>1, <3>1, <3>2
  <2> QED BY <2>1, <2>2
<1> QED
  BY Steps, SenderAtNodes, FlusherFrame, <1>2, <1>3, <1>4 DEF vars

\* What the sender knows of the roots when it gives the frame to one of them.
LEMMA AtTheRoots ==
  ASSUME FlushInv, GraphInv, NEW r \in Roots, FlushRoot(r) \/ QueueRoot(r)
  PROVE  /\ r \in todo /\ todo \subseteq remaining /\ remaining \subseteq Roots
         /\ \A q \in remaining : handed[frame][q] = "none"
         /\ FlushRoot(r) => \A q \in Roots : handed[frame][q] # "queue"
         /\ QueueRoot(r) => /\ sendStatus # FRAME_FLUSHING
                            /\ \A q \in Roots : handed[frame][q] # "flush"
<1>1. /\ sender = "pass" /\ calling = NoNode
      /\ r \in todo /\ todo \subseteq remaining /\ remaining \subseteq Roots
      /\ sendStatus \in {NotSent, FRAME_SENDING, FRAME_FLUSHING}
  BY DEF FlushRoot, QueueRoot, AtRoot, FlushInv, TypeOK
<1>2. \A q \in remaining : handed[frame][q] = "none"
  <2>1. \A q \in remaining : q # calling
    BY <1>1, NoNodeAssumption DEF Roots
  <2> QED BY <1>1, <2>1 DEF GraphInv, RootsAsSent
<1>3. ASSUME FlushRoot(r), NEW q \in Roots PROVE handed[frame][q] # "queue"
  <2>1. sendStatus # FRAME_SENDING
    BY <1>3 DEF FlushRoot, FlushesAtRoot
  <2> QED BY <1>1, <1>2, <2>1 DEF GraphInv, RootsAsSent
<1>4. ASSUME QueueRoot(r)
      PROVE  /\ sendStatus # FRAME_FLUSHING
             /\ \A q \in Roots : handed[frame][q] # "flush"
  <2>1. sendStatus # FRAME_FLUSHING
    BY <1>1, <1>4 DEF QueueRoot, FlushesAtRoot, GraphInv, FlushedInOnePass
  <2> QED BY <1>1, <1>2, <2>1 DEF GraphInv, RootsAsSent
<1> QED BY <1>1, <1>2, <1>3, <1>4

LEMMA RootsAlikeStep ==
  ASSUME FlushInv, GraphInv, [Next]_vars
  PROVE  RootsAlike'
<1> USE DEF RootsAlike
<1>1. CASE UNCHANGED nodeVars
  BY <1>1 DEF nodeVars, GraphInv
<1>2. ASSUME NEW r \in Roots, FlushRoot(r) \/ QueueRoot(r) PROVE RootsAlike'
  <2>1. Roots \subseteq Nodes
    BY DEF Roots
  <2> QED BY <1>2, <2>1, RootStep, AtTheRoots DEF GraphInv
<1>3. ASSUME NEW f \in Frames, FrameStep(f) PROVE RootsAlike'
  BY <1>3, RootsLeftAlone DEF GraphInv
<1> QED
  BY Steps, SenderAtNodes, FlusherFrame, <1>1, <1>2, <1>3 DEF vars

LEMMA RootsAsSentStep ==
  ASSUME FlushInv, GraphInv, [Next]_vars
  PROVE  RootsAsSent'
<1> USE DEF RootsAsSent, GraphInv
<1> Roots \subseteq Nodes /\ NoNode \notin Roots
  BY NoNodeAssumption DEF Roots
<1> frame \in 0 .. NumFrames /\ (sender # "idle" => frame \in Frames)
  BY NumFramesAssumption DEF FlushInv, TypeOK, Frames
<1> remaining \subseteq Roots
  BY DEF FlushInv, TypeOK
<1>1. CASE Sender
  <2>1. CASE SendFrameBegin
    BY <2>1 DEF SendFrameBegin
  <2>2. CASE RegisterRequest
    BY <2>2 DEF RegisterRequest, Fresh, nodeVars
  <2>3. CASE KickBarrier
    BY <2>3 DEF KickBarrier, nodeVars
  <2>4. CASE AcquireKickLock
    BY <2>4 DEF AcquireKickLock, nodeVars, NotSent, FRAME_SENDING, FRAME_FLUSHING
  <2>5. CASE BeginPass
    BY <2>5 DEF BeginPass, nodeVars
  <2>6. CASE EndPass
    BY <2>6 DEF EndPass, nodeVars
  <2>7. ASSUME NEW r \in Roots, FlushRoot(r) PROVE RootsAsSent'
    <3>1. UNCHANGED <<sender, remaining, sendStatus>> /\ calling' = r
      BY <2>7 DEF FlushRoot
    <3> QED BY <2>7, <3>1, RootStep, AtTheRoots
  <2>8. ASSUME NEW r \in Roots, FlushRootReturns(r) PROVE RootsAsSent'
    <3>1. /\ calling = r /\ sender = "pass" /\ handed[frame][r] = "flush"
          /\ sendStatus # FRAME_SENDING
      BY <2>8 DEF FlushRootReturns, CallingIsFlushed, FlushedInOnePass
    <3>2. /\ remaining' = remaining \ {r}
          /\ sendStatus' = FRAME_FLUSHING
          /\ UNCHANGED <<frame, sender, handed>>
      BY <2>8, <3>1 DEF FlushRootReturns, Accepted, nodeVars, FlushInv, TypeOK
    <3>3. \A q \in Roots \ remaining' : handed[frame][q] = "flush"
      BY <3>1, <3>2, <2>8 DEF FlushRootReturns, FlushInv, TypeOK
    <3> QED BY <3>1, <3>2, <3>3 DEF NotSent, FRAME_SENDING, FRAME_FLUSHING
  <2>9. ASSUME NEW r \in Roots, QueueRoot(r) PROVE RootsAsSent'
    <3>1. /\ remaining' = remaining \ {r}
          /\ sendStatus' = FRAME_SENDING
          /\ UNCHANGED <<frame, sender, calling>>
      BY <2>9, AtTheRoots DEF QueueRoot, Accepted, FlushInv, TypeOK
    <3>2. \A q \in Roots \ remaining : handed[frame][q] = "queue"
      BY <2>9, RootStep, AtTheRoots DEF FlushInv, TypeOK
    <3>3. \A q \in Roots \ remaining' : handed'[frame][q] = "queue"
      <4>1. ~FlushRoot(r)
        BY <2>9 DEF FlushRoot, QueueRoot
      <4>2. /\ handed'[frame][r] = "queue"
            /\ \A q \in Roots : q # r => handed'[frame][q] = handed[frame][q]
        BY <2>9, <4>1, RootStep
      <4> QED BY <3>1, <3>2, <4>2
    <3> QED
      BY <2>9, <3>1, <3>3, RootStep, AtTheRoots DEF NotSent, FRAME_SENDING, FRAME_FLUSHING
  <2>10. ASSUME NEW r \in Roots, RootBusy(r) \/ RootError(r) PROVE RootsAsSent'
    BY <2>10 DEF RootBusy, RootError, nodeVars
  <2> QED
    BY <1>1, <2>1, <2>2, <2>3, <2>4, <2>5, <2>6, <2>7, <2>8, <2>9, <2>10 DEF Sender
<1>2. ASSUME NEW f \in Frames, FrameStep(f) PROVE RootsAsSent'
  BY <1>2, RootsLeftAlone, NodeFrame DEF sendVars
<1>3. CASE SetFlushing \/ FlushInProgress \/ UNCHANGED vars
  BY <1>3, FlusherFrame DEF vars, sendVars, nodeVars
<1> QED BY Steps, <1>1, <1>2, <1>3

LEMMA OnePassStep ==
  ASSUME FlushInv, GraphInv, [Next]_vars
  PROVE  FlushedInOnePass'
<1> USE DEF FlushedInOnePass, GraphInv
<1> sendStatus \in {NotSent, FRAME_SENDING, FRAME_FLUSHING}
  BY DEF FlushInv, TypeOK
<1> DEFINE SameNeed == isNeededToFlush(frame)' = isNeededToFlush(frame)
<1>1. CASE Sender
  <2>1. frame' = frame /\ UNCHANGED numVars => SameNeed
    BY <1>1, SenderFrame DEF flushVars, numVars, isNeededToFlush, Number
  <2>2. CASE SendFrameBegin \/ RegisterRequest \/ KickBarrier
    BY <2>2 DEF SendFrameBegin, RegisterRequest, KickBarrier
  <2>3. CASE AcquireKickLock
    BY <2>3 DEF AcquireKickLock, CallingIsFlushed, NotSent, FRAME_SENDING, FRAME_FLUSHING
  <2>4. CASE BeginPass
    BY <2>4 DEF BeginPass
  <2>5. CASE EndPass
    BY <2>5 DEF EndPass
  <2>6. ASSUME NEW r \in Roots, FlushRoot(r) PROVE FlushedInOnePass'
    BY <2>1, <2>6 DEF FlushRoot, AtRoot, FlushesAtRoot
  <2>7. ASSUME NEW r \in Roots, FlushRootReturns(r) PROVE FlushedInOnePass'
    <3>1. /\ sender = "pass" /\ calling # NoNode
      BY <2>7, NoNodeAssumption DEF FlushRootReturns, CallingIsFlushed, Roots
    <3>2. /\ isNeededToFlush(frame) /\ sendStatus # FRAME_SENDING /\ todo = remaining
      BY <3>1
    <3>3. /\ UNCHANGED <<frame, sender, numVars>>
          /\ remaining' = remaining \ {r} /\ todo' = todo \ {r}
          /\ sendStatus' = FRAME_FLUSHING
      BY <2>7, <3>2 DEF FlushRootReturns, Accepted
    <3> QED BY <2>1, <3>1, <3>2, <3>3 DEF FRAME_SENDING, FRAME_FLUSHING
  <2>8. ASSUME NEW r \in Roots, QueueRoot(r) PROVE FlushedInOnePass'
    <3>1. sendStatus' = FRAME_SENDING /\ calling' = NoNode
      BY <2>8, AtTheRoots DEF QueueRoot, AtRoot, Accepted
    <3> QED BY <3>1 DEF FRAME_SENDING, FRAME_FLUSHING
  <2>9. ASSUME NEW r \in Roots, RootBusy(r) PROVE FlushedInOnePass'
    BY <2>1, <2>9 DEF RootBusy, AtRoot, FlushesAtRoot
  <2>10. ASSUME NEW r \in Roots, RootError(r) PROVE FlushedInOnePass'
    BY <2>10 DEF RootError
  <2> QED
    BY <1>1, <2>2, <2>3, <2>4, <2>5, <2>6, <2>7, <2>8, <2>9, <2>10 DEF Sender
<1>2. ASSUME NEW f \in Frames, FrameStep(f) PROVE FlushedInOnePass'
  <2>1. SameNeed
    BY <1>2, NodeFrame DEF sendVars, numVars, flushVars, isNeededToFlush, Number
  <2> QED BY <1>2, <2>1, NodeFrame DEF sendVars
<1>3. CASE SetFlushing \/ EndFlush
  BY <1>3 DEF SetFlushing, EndFlush, sendVars
<1>4. CASE \/ DispatcherBeginFlush \/ Abort \/ LockKick \/ UnlockKick \/ Drained
           \/ DispatcherEndFlush \/ \E n \in Nodes : FlushNode(n)
  <2>1. UNCHANGED <<mIsFlushing, mFlushRequestNo, sendVars, numVars>>
    BY <1>4 DEF DispatcherBeginFlush, Abort, LockKick, UnlockKick, Drained,
       DispatcherEndFlush, FlushNode
  <2>2. SameNeed
    BY <2>1 DEF sendVars, numVars, isNeededToFlush, Number
  <2> QED BY <2>1, <2>2 DEF sendVars
<1>5. CASE UNCHANGED vars
  <2>1. SameNeed
    BY <1>5 DEF vars, sendVars, numVars, flushVars, isNeededToFlush, Number
  <2> QED BY <1>5, <2>1 DEF vars, sendVars
<1> QED BY Steps, <1>1, <1>2, <1>3, <1>4, <1>5 DEF FlushInProgress

LEMMA CallingStep ==
  ASSUME FlushInv, GraphInv, [Next]_vars
  PROVE  CallingIsFlushed'
<1> USE DEF CallingIsFlushed, GraphInv
<1>1. CASE Sender
  <2>1. CASE SendFrameBegin \/ RegisterRequest \/ KickBarrier \/ AcquireKickLock
    BY <2>1 DEF SendFrameBegin, RegisterRequest, KickBarrier, AcquireKickLock
  <2>2. CASE BeginPass \/ EndPass
    BY <2>2 DEF BeginPass, EndPass
  <2>3. ASSUME NEW r \in Roots, FlushRoot(r) PROVE CallingIsFlushed'
    <3>1. calling' = r
      BY <2>3 DEF FlushRoot
    <3>2. ~QueueRoot(r)
      BY <2>3 DEF FlushRoot, QueueRoot
    <3> QED BY <2>3, <3>1, <3>2, RootStep
  <2>4. ASSUME NEW r \in Roots,
               FlushRootReturns(r) \/ QueueRoot(r) \/ RootBusy(r) \/ RootError(r)
        PROVE  CallingIsFlushed'
    BY <2>4 DEF FlushRootReturns, QueueRoot, RootBusy, RootError, AtRoot
  <2> QED BY <1>1, <2>1, <2>2, <2>3, <2>4 DEF Sender
<1>2. ASSUME NEW f \in Frames, FrameStep(f) PROVE CallingIsFlushed'
  <2>1. calling # NoNode => calling \in Roots /\ frame \in Frames
    BY NumFramesAssumption DEF FlushInv, TypeOK, Frames
  <2> QED BY <1>2, <2>1, RootsLeftAlone, NodeFrame DEF sendVars
<1>3. CASE SetFlushing \/ FlushInProgress \/ UNCHANGED vars
  BY <1>3, FlusherFrame DEF vars, sendVars, nodeVars
<1> QED BY Steps, <1>1, <1>2, <1>3

LEMMA ReachedStep ==
  ASSUME FlushInv, GraphInv, [Next]_vars
  PROVE  RootsReached'
<1> USE NumFramesAssumption DEF HeldBySender
<1> frame \in 0 .. NumFrames /\ (sender # "idle" => frame \in Frames)
  BY DEF FlushInv, TypeOK, Frames
<1> SUFFICES ASSUME NEW f \in 1 .. frame', ~HeldBySender(f)', f \notin failed',
                    NEW r \in Roots
             PROVE  st'[f][r] # "none"
  BY DEF RootsReached
<1>1. r \in Nodes /\ f \notin failed
  BY Monotone DEF Roots
<1>2. CASE f \in 1 .. frame /\ ~HeldBySender(f)
  <2>1. f \in Frames /\ st[f][r] # "none"
    BY <1>1, <1>2 DEF GraphInv, RootsReached, Frames
  <2> QED BY <1>1, <2>1, Monotone
<1>3. CASE EndPass /\ f = frame
  <2>1. sender = "pass" /\ remaining = {} /\ calling = NoNode
    BY <1>3 DEF EndPass
  <2>2. handed[frame][r] # "none"
    <3>1. sendStatus \in {NotSent, FRAME_SENDING, FRAME_FLUSHING}
      BY DEF FlushInv, TypeOK
    <3> QED BY <2>1, <3>1 DEF GraphInv, RootsAsSent
  <2>3. st[frame][r] # "none"
    BY <1>1, <2>1, <2>2 DEF GraphInv, StandsAsHanded
  <2> QED BY <1>1, <1>3, <2>1, <2>3, Monotone
<1>4. CASE Sender
  <2>1. ASSUME NEW q \in Roots, RootError(q) PROVE f \in 1 .. frame /\ ~HeldBySender(f)
    BY <2>1 DEF RootError, AtRoot
  <2>2. CASE SendFrameBegin
    BY <1>2, <2>2 DEF SendFrameBegin
  <2>3. CASE EndPass
    BY <1>2, <1>3, <2>3 DEF EndPass
  <2>4. CASE RegisterRequest \/ KickBarrier \/ AcquireKickLock \/ BeginPass
    BY <1>2, <2>4 DEF RegisterRequest, KickBarrier, AcquireKickLock, BeginPass
  <2>5. ASSUME NEW q \in Roots,
               FlushRoot(q) \/ FlushRootReturns(q) \/ QueueRoot(q) \/ RootBusy(q)
        PROVE  f \in 1 .. frame /\ ~HeldBySender(f)
    <3>1. UNCHANGED <<frame, sender>>
      BY <2>5 DEF FlushRoot, FlushRootReturns, QueueRoot, RootBusy
    <3> QED BY <3>1
  <2> QED
    BY <1>2, <1>4, <2>1, <2>2, <2>3, <2>4, <2>5 DEF Sender
<1>5. CASE UNCHANGED <<frame, sender>>
  BY <1>2, <1>5
<1> QED
  BY Steps, NodeFrame, FlusherFrame, <1>4, <1>5 DEF vars, sendVars

\* abort() is called before a flush has gone past it, and a dispatcher that
\* flushes a frame for the flag alone does so before abort().
LEMMA CoversStep ==
  ASSUME FlushInv, GraphInv, [Next]_vars
  PROVE  FlushCovers'
<1> mRequest \subseteq Frames
  BY DEF FlushInv, TypeOK
<1> SUFFICES ASSUME NEW g \in mRequest', NEW k \in Nodes, handed'[g][k] = "flush"
             PROVE  g \in aborted' \/ flusher' = "abort"
  BY DEF FlushCovers
<1>1. aborted \subseteq aborted'
  BY Monotone
<1>2. CASE g \in mRequest /\ handed[g][k] = "flush" /\ (flusher = "abort" => flusher' = "abort")
  BY <1>1, <1>2 DEF GraphInv, FlushCovers
<1>3. CASE Sender
  <2> USE SenderFrame, <1>3 DEF flushVars
  <2>1. ASSUME NEW r \in Roots, FlushRoot(r) PROVE g \in aborted' \/ flusher' = "abort"
    <3>1. frame \in aborted' /\ mRequest' = mRequest
      BY <2>1 DEF FlushRoot, listVars
    <3> QED BY <1>2, <2>1, <3>1, RootStep
  <2>2. ASSUME NEW r \in Roots, QueueRoot(r) PROVE g \in aborted' \/ flusher' = "abort"
    <3>1. mRequest' = mRequest /\ ~FlushRoot(r)
      BY <2>2 DEF QueueRoot, FlushRoot, listVars
    <3> QED BY <1>2, <2>2, <3>1, RootStep
  <2>3. CASE UNCHANGED <<nodeVars, aborted>>
    <3>1. handed' = handed
      BY <2>3 DEF nodeVars
    <3>2. CASE RegisterRequest
      <4>1. g # frame
        BY <3>1, <3>2, NumFramesAssumption
        DEF RegisterRequest, GraphInv, Fresh, FlushInv, TypeOK, Frames
      <4> QED BY <1>2, <3>1, <3>2, <4>1 DEF RegisterRequest
    <3>3. CASE mRequest' = mRequest
      BY <1>2, <3>1, <3>3
    <3> QED
      BY <3>2, <3>3 DEF Sender, SendFrameBegin, KickBarrier, BeginPass,
         AcquireKickLock, EndPass, FlushRoot, FlushRootReturns, QueueRoot,
         RootBusy, RootError, listVars
  <2> QED BY SenderAtNodes, <2>1, <2>2, <2>3
<1>4. ASSUME NEW f \in Frames, FrameStep(f) PROVE g \in aborted' \/ flusher' = "abort"
  <2>1. UNCHANGED <<flusher, aborted>>
    BY <1>4, NodeFrame DEF flushVars
  <2>2. g \in mRequest
    BY <1>4 DEF FrameStep, ReleaseFrame, NodeReturns, DispatchReturns, DispatchTo,
       QueueNext, NextRejects, FlushNextReturns, listVars
  <2>3. ASSUME NEW n \in Nodes, NEW m \in Nodes, DispatchTo(f, n, m),
               handed[g][k] # "flush"
        PROVE  g \in aborted' \/ flusher' = "abort"
    <3>1. g = f /\ Flushed(f) /\ st[f][n] = "out"
      BY <2>2, <2>3, DispatchStep
    <3>2. CASE f \in aborted
      BY <1>1, <3>1, <3>2
    <3>3. CASE mInFlush
      <4>1. flusher \in {"abort", "kick", "kicking", "sweep", "drain", "endDispatcher"}
        BY <3>3 DEF FlushInv, FlagsFollowFlusher
      <4>2. Present(f, n)
        BY <3>1 DEF Present
      <4> QED BY <2>1, <3>1, <4>1, <4>2 DEF FlushInv, PresentIsAborted
    <3> QED BY <3>1, <3>2, <3>3 DEF Flushed
  <2>4. CASE ~\E n \in Nodes, m \in Nodes : DispatchTo(f, n, m)
    <3>1. handed[g][k] = "flush"
      BY <1>4, <2>2, <2>4, MoveStep
    <3> QED BY <1>2, <2>1, <2>2, <3>1
  <2> QED BY <1>2, <2>1, <2>2, <2>3, <2>4
<1>5. CASE Abort
  BY <1>5 DEF Abort, listVars
<1>6. CASE \/ SetFlushing \/ DispatcherBeginFlush \/ LockKick \/ UnlockKick \/ Drained
           \/ DispatcherEndFlush \/ EndFlush \/ \E n \in Nodes : FlushNode(n)
  <2>1. flusher # "abort" /\ UNCHANGED <<mRequest, handed>>
    BY <1>6 DEF SetFlushing, DispatcherBeginFlush, LockKick, UnlockKick, Drained,
       DispatcherEndFlush, EndFlush, FlushNode, listVars, nodeVars
  <2> QED BY <1>2, <2>1
<1>7. CASE UNCHANGED vars
  BY <1>2, <1>7 DEF vars, listVars, nodeVars, flushVars
<1> QED BY Steps, <1>3, <1>4, <1>5, <1>6, <1>7 DEF FlushInProgress

LEMMA UnlistedStep ==
  ASSUME FlushInv, GraphInv, [Next]_vars
  PROVE  ReleasedIsUnlisted'
<1> USE DEF FlushInv, TypeOK
<1> SUFFICES ASSUME NEW g \in Frames, NEW k \in Nodes,
                    handed'[g][k] # "none", st'[g][k] \in {"out", "done"}
             PROVE  g \notin mRequestMap'[k]
  BY DEF ReleasedIsUnlisted
<1>1. handed[g][k] # "none" /\ st[g][k] \in {"out", "done"} => g \notin mRequestMap[k]
  BY DEF GraphInv, ReleasedIsUnlisted
<1> HIDE DEF FlushInv, TypeOK
<1>2. ASSUME NEW r \in Roots, FlushRoot(r) \/ QueueRoot(r) PROVE g \notin mRequestMap'[k]
  BY <1>1, <1>2, RootStep DEF listVars
<1>3. CASE Sender /\ UNCHANGED nodeVars
  <2>1. CASE RegisterRequest
    <3>1. g # frame
      BY <1>3, <2>1, NumFramesAssumption DEF nodeVars, RegisterRequest, GraphInv, Fresh
    <3> QED BY <1>1, <1>3, <2>1, <3>1 DEF RegisterRequest, nodeVars
  <2>2. CASE UNCHANGED mRequestMap
    BY <1>1, <1>3, <2>2 DEF nodeVars
  <2> QED
    BY <1>3, <2>1, <2>2 DEF Sender, SendFrameBegin, KickBarrier, BeginPass,
       AcquireKickLock, EndPass, FlushRoot, FlushRootReturns, QueueRoot,
       RootBusy, RootError, listVars
<1>4. ASSUME NEW f \in Frames, FrameStep(f) PROVE g \notin mRequestMap'[k]
  <2>1. ASSUME NEW n \in Nodes, NEW m \in Nodes, DispatchTo(f, n, m)
        PROVE  g \notin mRequestMap'[k]
    <3>1. mRequestMap' = mRequestMap
      BY <2>1 DEF DispatchTo, listVars
    <3> QED BY <1>1, <2>1, <3>1, DispatchStep
  <2>2. ASSUME NEW n \in Nodes, NodeReturns(f, n)
        PROVE  mRequestMap'[k] = IF k = n THEN mRequestMap[n] \ {f} ELSE mRequestMap[k]
    BY <2>2 DEF NodeReturns, ApplyRelease, FlushInv, TypeOK
  <2>3. \A j \in Nodes : st[f][j] = "toQueue" => handed[f][j] = "none"
    BY DEF GraphInv, StandsAsHanded
  <2>4. CASE ~\E n \in Nodes, m \in Nodes : DispatchTo(f, n, m)
    <3>1. ASSUME NEW j \in Nodes, NodeReturns(f, j),
                 \A h \in Frames, i \in Nodes : h # f \/ i # j =>
                    st'[h][i] = st[h][i] /\ handed'[h][i] = handed[h][i]
          PROVE  g \notin mRequestMap'[k]
      BY <1>1, <2>2, <3>1
    <3>2. ASSUME UNCHANGED mRequestMap, NEW j \in Nodes,
                 \A h \in Frames, i \in Nodes : h # f \/ i # j =>
                    st'[h][i] = st[h][i] /\ handed'[h][i] = handed[h][i],
                 \/ st[f][j] = "out" /\ handed' = handed
                 \/ st'[f][j] = "queued"
                 \/ st[f][j] = "toQueue" /\ handed' = handed
          PROVE  g \notin mRequestMap'[k]
      BY <1>1, <2>3, <3>2
    <3>3. CASE UNCHANGED <<st, handed, mRequestMap>>
      BY <1>1, <3>3
    <3> QED BY <1>4, <2>4, MoveStep, <3>1, <3>2, <3>3
  <2> QED BY <2>1, <2>4
<1>5. CASE SetFlushing \/ FlushInProgress \/ UNCHANGED vars
  BY <1>1, <1>5, FlusherFrame DEF vars, listVars, nodeVars
<1> QED BY Steps, SenderAtNodes, <1>2, <1>3, <1>4, <1>5

\* When a node is flushed, the next ones have not been given the frame; when
\* one of them is, by the last of its predecessors, abort() or the flag is seen.
LEMMA ContagiousStep ==
  ASSUME FlushInv, GraphInv, [Next]_vars
  PROVE  FlushIsContagious'
<1> SUFFICES ASSUME NEW g \in Frames, NEW k \in Nodes, handed'[g][k] = "flush",
                    NEW l \in Out(k)
             PROVE  handed'[g][l] # "queue" /\ st'[g][l] # "toQueue"
  BY DEF FlushIsContagious
<1>1. l \in Nodes /\ k \in In(l) /\ l \notin Roots
  BY DEF Out, In, Roots
<1>2. handed[g][k] = "flush" => handed[g][l] # "queue" /\ st[g][l] # "toQueue"
  BY DEF GraphInv, FlushIsContagious
<1>3. handed[g][k] = "none" => st[g][l] = "none" /\ handed[g][l] = "none"
  <2>1. handed[g][k] = "none" => k \notin Came(g, l)
    BY DEF Came, HasDispatched
  <2> QED BY <1>1, <2>1 DEF GraphInv, JoinsCount, StandsAsHanded
<1>4. CASE UNCHANGED nodeVars
  BY <1>2, <1>4 DEF nodeVars
<1>5. ASSUME NEW r \in Roots, FlushRoot(r) \/ QueueRoot(r)
      PROVE  handed'[g][l] # "queue" /\ st'[g][l] # "toQueue"
  <2>1. st'[g][l] = st[g][l] /\ handed'[g][l] = handed[g][l]
    BY <1>1, <1>5, RootStep
  <2>2. handed[g][k] \in {"flush", "none"}
    BY <1>5, RootStep
  <2> QED BY <1>2, <1>3, <2>1, <2>2
<1>6. ASSUME NEW f \in Frames, FrameStep(f)
      PROVE  handed'[g][l] # "queue" /\ st'[g][l] # "toQueue"
  <2>1. ASSUME NEW n \in Nodes, NEW m \in Nodes, DispatchTo(f, n, m)
        PROVE  handed'[g][l] # "queue" /\ st'[g][l] # "toQueue"
    <3>1. CASE g # f \/ l # m
      <4>1. st'[g][l] = st[g][l] /\ handed'[g][l] = handed[g][l]
        BY <1>1, <2>1, <3>1, DispatchStep
      <4>2. handed[g][k] \in {"flush", "none"}
        BY <2>1, DispatchStep
      <4> QED BY <1>2, <1>3, <4>1, <4>2
    <3>2. CASE g = f /\ l = m
      <4>1. handed'[g][l] # "queue"
        BY <2>1, <3>2, DispatchStep
      <4>2. CASE Flushed(f) \/ ~AllCame(f, m)
        BY <2>1, <3>2, <4>2, DispatchStep, <4>1
      <4>3. CASE ~Flushed(f) /\ AllCame(f, m)
        <5>1. k # m /\ handed[f][k] = "flush"
          BY <2>1, <3>2, <4>3, DispatchStep
        <5>2. Present(f, n)
          BY <2>1 DEF DispatchTo, Present
        <5>3. f \in aborted \/ flusher = "abort"
          BY <5>1, <5>2 DEF GraphInv, FlushCovers, FlushInv, PresentIsRegistered
        <5> QED BY <4>3, <5>3 DEF Flushed, FlushInv, FlagsFollowFlusher
      <4> QED BY <4>2, <4>3
    <3> QED BY <3>1, <3>2
  <2>2. CASE ~\E n \in Nodes, m \in Nodes : DispatchTo(f, n, m)
    <3>1. handed[g][k] = "flush"
      BY <1>6, <2>2, MoveStep
    <3> QED BY <1>1, <1>2, <1>6, <2>2, <3>1, MoveStep
  <2> QED BY <2>1, <2>2
<1> QED
  BY Steps, SenderAtNodes, FlusherFrame, <1>4, <1>5, <1>6 DEF vars

-----------------------------------------------------------------------------
(* The theorems *)

LEMMA InitGraph == Init => GraphInv
<1> SUFFICES ASSUME Init PROVE GraphInv
  OBVIOUS
<1>1. \A f \in Frames, n \in Nodes :
         /\ st[f][n] = "none" /\ handed[f][n] = "none" /\ left[f][n] = {}
         /\ visit[f][n] = NoNode /\ mInAdjReqCnt[f][n] = 0
  BY DEF Init, EveryFrameAndNode
<1>2. /\ sender = "idle" /\ frame = 0 /\ calling = NoNode /\ mRequest = {}
  BY DEF Init
<1>3. Roots \subseteq Nodes /\ \A n \in Nodes : Out(n) \subseteq Nodes
  BY DEF Roots, Out
<1>4. Fresh /\ StandsAsHanded /\ FollowsEdges
  BY <1>1 DEF Fresh, StandsAsHanded, FollowsEdges
<1>5. JoinsCount
  <2> SUFFICES ASSUME NEW f \in Frames, NEW m \in Nodes
               PROVE  /\ mInAdjReqCnt[f][m] = Cardinality(Came(f, m))
                      /\ m \notin Roots => (st[f][m] # "none" <=> Came(f, m) = In(m))
    BY DEF JoinsCount
  <2>1. Came(f, m) = {}
    BY <1>1 DEF Came, HasDispatched, In
  <2> QED BY <1>1, <2>1, FS_EmptySet DEF Roots
<1>6. RootsAsSent /\ FlushedInOnePass /\ CallingIsFlushed /\ RootsReached
  BY <1>2 DEF RootsAsSent, FlushedInOnePass, CallingIsFlushed, RootsReached
<1>7. FlushCovers /\ ReleasedIsUnlisted /\ RootsAlike /\ FlushIsContagious
  BY <1>1, <1>2, <1>3 DEF FlushCovers, ReleasedIsUnlisted, RootsAlike, FlushIsContagious
<1> QED BY <1>4, <1>5, <1>6, <1>7 DEF GraphInv

\* Every state of the sender, the flusher and the nodes satisfies IInv: what the
\* locks and flags of beginFlush(), sendFrame() and onDispatchFrame() are there
\* for, and how far each frame has come in the graph.
THEOREM Invariance == Spec => []IInv
<1>1. Init => IInv
  BY InitEstablishes, InitGraph DEF IInv
<1>2. IInv /\ [Next]_vars => IInv'
  <2> SUFFICES ASSUME FlushInv, GraphInv, [Next]_vars PROVE FlushInv' /\ GraphInv'
    BY DEF IInv
  <2>1. FlushInv'
    BY FlushInvStep
  <2>2. GraphInv'
    BY FreshStep, StandsStep, EdgesStep, JoinsStep, RootsAsSentStep, OnePassStep,
       CallingStep, ReachedStep, CoversStep, UnlistedStep, RootsAlikeStep,
       ContagiousStep, Zenon DEF GraphInv
  <2> QED BY <2>1, <2>2
<1> QED BY <1>1, <1>2, PTL DEF Spec

\* The roots of a frame, one P1 node per sensor, are all given it by queue() or
\* all by flush(), whenever a flush begins or ends.
THEOREM RootsAgree == Spec => []RootsAlike
<1>1. IInv => RootsAlike
  BY DEF IInv, GraphInv
<1> QED BY Invariance, <1>1, PTL

\* A frame flushed at a node is never queued at a later one.
THEOREM FlushSpreads == Spec => []FlushIsContagious
<1>1. IInv => FlushIsContagious
  BY DEF IInv, GraphInv
<1> QED BY Invariance, <1>1, PTL

\* A node is given a frame when all its predecessors have dispatched it.
THEOREM JoinWaits == Spec => []JoinWaitsForAll
<1>1. ASSUME IInv, NEW f \in Frames, NEW n \in Nodes \ Roots, handed[f][n] # "none"
      PROVE  /\ mInAdjReqCnt[f][n] = Cardinality(In(n))
             /\ \A m \in In(n) : st[f][m] \in {"out", "done"} /\ n \notin left[f][m]
  <2> USE <1>1 DEF IInv, GraphInv
  <2>1. st[f][n] # "none"
    BY DEF StandsAsHanded
  <2>2. Came(f, n) = In(n)
    BY <2>1 DEF JoinsCount
  <2>3. mInAdjReqCnt[f][n] = Cardinality(In(n))
    BY <2>2 DEF JoinsCount
  <2> QED BY <2>2, <2>3 DEF Came, HasDispatched
<1>2. IInv => JoinWaitsForAll
  BY <1>1 DEF JoinWaitsForAll
<1> QED BY Invariance, <1>2, PTL

\* A frame that is no longer in flight has left every node, and if no node has
\* rejected it, it has been through all of them: were there nodes it has not
\* come to, the first of them would have had it from all its predecessors.
THEOREM GoneEverywhere == Spec => []GoneMeansThrough
<1>1. ASSUME IInv, NEW f \in 1 .. frame, ~InFlight(f), NEW n \in Nodes
      PROVE  /\ st[f][n] \in {"none", "done"}
             /\ f \notin failed => st[f][n] = "done" /\ f \notin mRequestMap[n]
  <2> USE <1>1 DEF IInv
  <2>1. f \in Frames
    BY NumFramesAssumption DEF FlushInv, TypeOK, Frames
  <2>2. f \notin mRequest /\ ~HeldBySender(f)
    BY DEF InFlight, HeldBySender, FlushInv, SentIsRegistered, TypeOK, SenderAt
  <2>3. \A k \in Nodes : st[f][k] \in {"none", "done"}
    BY <2>1, <2>2 DEF FlushInv, PresentIsRegistered, Present
  <2>4. ASSUME f \notin failed PROVE \A k \in Nodes : st[f][k] = "done"
    <3> DEFINE Unseen == {k \in Nodes : st[f][k] = "none"}
    <3>1. ASSUME Unseen # {} PROVE FALSE
      <4>1. PICK k \in Unseen : In(k) \cap Unseen = {}
        BY <3>1, AcyclicAssumption
      <4>2. k \notin Roots
        BY <2>2, <2>4, <4>1 DEF GraphInv, RootsReached
      <4>3. \A i \in In(k) : HasDispatched(f, i, k)
        <5> TAKE i \in In(k)
        <5>1. i \in Nodes /\ st[f][i] = "done"
          BY <2>3, <4>1 DEF In
        <5>2. handed[f][i] # "none" /\ left[f][i] = {}
          BY <2>1, <2>4, <5>1 DEF GraphInv, StandsAsHanded, FollowsEdges
        <5> QED BY <5>1, <5>2 DEF HasDispatched
      <4>4. Came(f, k) = In(k)
        BY <4>3 DEF Came
      <4> QED BY <2>1, <4>1, <4>2, <4>4 DEF GraphInv, JoinsCount
    <3> QED BY <2>3, <3>1
  <2>5. ASSUME f \notin failed PROVE f \notin mRequestMap[n]
    <3>1. st[f][n] = "done"
      BY <2>4, <2>5
    <3>2. handed[f][n] # "none"
      BY <2>1, <2>5, <3>1 DEF GraphInv, StandsAsHanded
    <3> QED BY <2>1, <3>1, <3>2 DEF GraphInv, ReleasedIsUnlisted
  <2> QED BY <2>3, <2>4, <2>5
<1>2. IInv => GoneMeansThrough
  BY <1>1 DEF GoneMeansThrough
<1> QED BY Invariance, <1>2, PTL

-----------------------------------------------------------------------------
(* Request numbers, as long as they do not wrap around *)

\* No request has the number that stands for none, and later frames do not
\* have smaller ones.
NumbersFit ==
  /\ \A f \in Frames : RequestNo[f] < NoRequest
  /\ \A f, g \in Frames : f <= g => RequestNo[f] <= RequestNo[g]

NumberUpTo(f) == IF f = 0 THEN NoRequest ELSE Number(f)

\* What sendFrame() and endFlush() remember, and that a frame which only some
\* roots have accepted is behind every flush that has ended.
NumbersInv ==
  /\ mLastRequestNo = NumberUpTo(frame)
  /\ m1stRequestNo = IF frame = 0 THEN NoRequest ELSE Number(1)
  /\ mFlushRequestNo = NumberUpTo(lastFlushed)
  /\ lastFlushed <= frame
  /\ HalfSent /\ lastFlushed # 0 => Number(frame) > Number(lastFlushed)

LEMMA NumberIsRequest ==
  ASSUME NumbersFit, NEW f \in Frames
  PROVE  Number(f) = RequestNo[f] /\ Number(f) \in Nat /\ Number(f) # NoRequest
BY RequestNoAssumption, RequestWidthAssumption DEF NumbersFit, Number, NoRequest

\* A root that is queued a frame outside a flush, or before the flush has come
\* to it, is queued one that no flush that has ended covers.
LEMMA QueuedIsLater ==
  ASSUME NumbersFit, TypeOK, NumbersInv, NEW r \in Roots, QueueRoot(r),
         lastFlushed # 0
  PROVE  Number(frame) > Number(lastFlushed)
<1>1. sender = "pass" /\ ~FlushesAtRoot
  BY DEF QueueRoot, AtRoot
<1>2. frame \in Frames /\ lastFlushed \in Frames /\ 1 \in Frames
  BY <1>1, NumFramesAssumption DEF TypeOK, NumbersInv, Frames
<1>3. /\ Number(1) \in Nat /\ Number(frame) \in Nat /\ Number(lastFlushed) \in Nat
      /\ Number(1) <= Number(frame) /\ Number(lastFlushed) # NoRequest
  <2>1. RequestNo[1] <= RequestNo[frame]
    BY <1>2 DEF NumbersFit, Frames
  <2> QED BY <1>2, <2>1, NumberIsRequest
<1>4. CASE sendStatus = FRAME_SENDING
  BY <1>1, <1>4 DEF NumbersInv, HalfSent
<1>5. CASE ~isNeededToFlush(frame)
  <2>1. mFlushRequestNo = Number(lastFlushed) /\ m1stRequestNo = Number(1)
    BY <1>2 DEF NumbersInv, NumberUpTo, Frames
  <2> QED BY <1>3, <1>5, <2>1 DEF isNeededToFlush
<1> QED BY <1>1, <1>4, <1>5 DEF FlushesAtRoot

LEMMA NumbersStep ==
  ASSUME NumbersFit, FlushInv, NumbersInv, [Next]_vars
  PROVE  NumbersInv'
<1> USE DEF NumbersInv
<1>1. CASE Sender
  <2> /\ UNCHANGED <<mFlushRequestNo, lastFlushed>>
      /\ NumberUpTo(lastFlushed)' = NumberUpTo(lastFlushed)
    BY <1>1, SenderFrame DEF flushVars, NumberUpTo, Number
  <2>1. CASE SendFrameBegin
    <3>1. frame \in Nat /\ lastFlushed \in Nat /\ frame + 1 \in Frames
      BY <2>1, NumFramesAssumption DEF SendFrameBegin, FlushInv, TypeOK, Frames
    <3>2. Number(1) # NoRequest
      <4>1. 1 \in Frames
        BY <3>1, NumFramesAssumption DEF Frames
      <4> QED BY <4>1, NumberIsRequest
    <3> QED BY <2>1, <3>1, <3>2 DEF SendFrameBegin, NumberUpTo, HalfSent
  <2>2. ASSUME UNCHANGED <<frame, numVars>>,
               HalfSent' /\ lastFlushed # 0 => Number(frame) > Number(lastFlushed)
        PROVE  NumbersInv'
    BY <2>2 DEF numVars, NumberUpTo, Number
  <2>3. CASE RegisterRequest \/ KickBarrier \/ AcquireKickLock
    BY <2>2, <2>3 DEF RegisterRequest, KickBarrier, AcquireKickLock, HalfSent,
                      NotSent, FRAME_SENDING
  <2>4. CASE BeginPass \/ EndPass
    BY <2>2, <2>4 DEF BeginPass, EndPass, HalfSent
  <2>5. ASSUME NEW r \in Roots, FlushRoot(r) \/ RootBusy(r) \/ RootError(r)
        PROVE  NumbersInv'
    BY <2>2, <2>5 DEF FlushRoot, RootBusy, RootError, HalfSent
  <2>6. ASSUME NEW r \in Roots, FlushRootReturns(r) PROVE NumbersInv'
    BY <2>2, <2>6 DEF FlushRootReturns, Accepted, HalfSent, NotSent,
                      FRAME_SENDING, FRAME_FLUSHING
  <2>7. ASSUME NEW r \in Roots, QueueRoot(r) PROVE NumbersInv'
    <3>1. UNCHANGED <<frame, numVars>>
      BY <2>7 DEF QueueRoot
    <3> QED BY <2>2, <2>7, <3>1, QueuedIsLater DEF FlushInv
  <2> QED
    BY <1>1, <2>1, <2>3, <2>4, <2>5, <2>6, <2>7 DEF Sender
<1>2. ASSUME NEW f \in Frames, FrameStep(f) PROVE NumbersInv'
  BY <1>2, NodeFrame DEF sendVars, numVars, flushVars, HalfSent, NumberUpTo, Number
<1>3. CASE EndFlush
  <2>1. ~HalfSent /\ frame \in Nat
    BY <1>3 DEF EndFlush, FlushInv, NoFrameBetweenRoots, TypeOK
  <2>2. UNCHANGED <<sendVars, numVars>> /\ lastFlushed' = frame /\ mFlushRequestNo' = mLastRequestNo
    BY <1>3 DEF EndFlush
  <2> QED BY <2>1, <2>2 DEF sendVars, numVars, HalfSent, NumberUpTo, Number
<1>4. CASE \/ SetFlushing \/ DispatcherBeginFlush \/ Abort \/ LockKick \/ UnlockKick
           \/ Drained \/ DispatcherEndFlush \/ \E n \in Nodes : FlushNode(n)
  <2>1. UNCHANGED <<sendVars, numVars, mFlushRequestNo, lastFlushed>>
    BY <1>4 DEF SetFlushing, DispatcherBeginFlush, Abort, LockKick, UnlockKick,
       Drained, DispatcherEndFlush, FlushNode
  <2> QED BY <2>1 DEF sendVars, numVars, HalfSent, NumberUpTo, Number
<1>5. CASE UNCHANGED vars
  BY <1>5 DEF vars, sendVars, numVars, flushVars, HalfSent, NumberUpTo, Number
<1> QED BY Steps, <1>1, <1>2, <1>3, <1>4, <1>5 DEF FlushInProgress

\* While request numbers do not wrap around, no root is queued a frame of a
\* request that a flush has covered, whenever the frame is sent: isNeededToFlush()
\* compares it with what endFlush() has remembered.
THEOREM RangeIsFlushed == NumbersFit => (Spec => FlushedRangeNotQueued)
<1> SUFFICES ASSUME NumbersFit PROVE Spec => FlushedRangeNotQueued
  OBVIOUS
<1>1. Init => NumbersInv
  BY DEF Init, NumbersInv, NumberUpTo, HalfSent
<1>2. FlushInv /\ NumbersInv /\ [Next]_vars => NumbersInv'
  BY NumbersStep
<1>3. ASSUME IInv, NumbersInv, [Next]_vars, NEW f \in Frames, NEW r \in Roots,
             handed[f][r] # "queue", handed'[f][r] = "queue", lastFlushed # 0
      PROVE  RequestNo[f] > RequestNo[lastFlushed]
  <2> FlushInv /\ GraphInv
    BY <1>3 DEF IInv
  <2>1. ASSUME NEW q \in Roots, FlushRoot(q) \/ QueueRoot(q)
        PROVE  f = frame /\ QueueRoot(r)
    BY <1>3, <2>1, RootStep DEF Roots
  <2>2. f = frame /\ QueueRoot(r)
    BY <1>3, <2>1, Steps, SenderAtNodes, RootsLeftAlone, FlusherFrame DEF vars, nodeVars
  <2>3. Number(frame) > Number(lastFlushed)
    BY <1>3, <2>2, QueuedIsLater DEF FlushInv
  <2>4. frame \in Frames /\ lastFlushed \in Frames
    BY <1>3, <2>2, NumFramesAssumption DEF FlushInv, TypeOK, Frames
  <2> QED BY <2>2, <2>3, <2>4, NumberIsRequest
<1>4. IInv /\ NumbersInv /\ [Next]_vars =>
        [\A f \in Frames, r \in Roots :
            /\ handed[f][r] # "queue" /\ handed'[f][r] = "queue"
            /\ lastFlushed # 0
            => RequestNo[f] > RequestNo[lastFlushed]]_vars
  BY <1>3
<1> QED
  BY FlushInvariance, Invariance, <1>1, <1>2, <1>4, PTL DEF Spec, FlushedRangeNotQueued
====
