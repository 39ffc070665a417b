---------------------------- MODULE MCPreRelease ----------------------------
(***************************************************************************)
(* Captures for PreRelease: the frame of the second has a RAW16 node too.  *)
(* The picture of the first fails, and the RAW16 image of the second.      *)
(***************************************************************************)
EXTENDS PreRelease

RAW16 == 49   \* eNODEID_RAW16

WithRaw == <<{JpegNode}, {JpegNode, RAW16}, {JpegNode}>>
Failures == {<<1, JpegNode>>, <<2, RAW16>>}
=============================================================================
