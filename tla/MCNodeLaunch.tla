---------------------------- MODULE MCNodeLaunch ----------------------------
(***************************************************************************)
(* Init orders for NodeLaunch: a free-run node and two nodes ordered       *)
(* against the topology.                                                   *)
(***************************************************************************)
EXTENDS NodeLaunch

Against == <<1, -1, 0>>
=============================================================================
