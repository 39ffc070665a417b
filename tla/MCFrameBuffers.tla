--------------------------- MODULE MCFrameBuffers ---------------------------
(***************************************************************************)
(* Frames for FrameBuffers: a preview frame whose P1 image goes to P2, FD  *)
(* and AIAWB; a capture whose first node dispatches early and whose second *)
(* pre-releases; and a preview frame kept for RAW16 reprocess.             *)
(***************************************************************************)
EXTENDS FrameBuffers

ABranch == {<<"p1", "p2">>, <<"p1", "fd">>}
AChain  == {<<"p1", "p2">>, <<"p2", "jpeg">>}

PreviewOuts == [p1 |-> {"yuv"}, p2 |-> {"display"}, fd |-> {}]
PreviewIns  == [p1 |-> {}, p2 |-> {"yuv"}, fd |-> {"yuv"}]

KeptOuts == [p1 |-> {"raw", "tuning"}, p2 |-> {}, fd |-> {}]
KeptIns  == [p1 |-> {}, p2 |-> {"raw", "tuning"}, fd |-> {"raw"}]

\* The result of p1 is for jpeg: p2 is no user of it.
CaptureOuts == [p1 |-> {"yuv", "result"}, p2 |-> {}, jpeg |-> {}]
CaptureIns  == [p1 |-> {}, p2 |-> {"yuv"}, jpeg |-> {"result"}]
=============================================================================
