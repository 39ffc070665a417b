-------------------------- MODULE MCPipelineContext --------------------------
(***************************************************************************)
(* A small instance of PipelineContext for TLC.                            *)
(***************************************************************************)
EXTENDS PipelineContext

\* Two sensors, whose P1 nodes both feed P2.
JoinGraph == {<<"p1a", "p2">>, <<"p1b", "p2">>}

OneRequestTwice == <<0, 0>>
====
