----------------------------- MODULE FrameOrder -----------------------------
(***************************************************************************)
(* What a pipeline context promises to whoever submits frames to it: the   *)
(* frames reach the root nodes one at a time, in the order in which they   *)
(* were submitted, and none of them is skipped.                            *)
(*                                                                         *)
(* Frames are numbered from 1 in the order of submission, so a sequence of *)
(* frames is a counter.                                                    *)
(***************************************************************************)
EXTENDS Naturals

CONSTANT NumFrames      \* the number of frames ever submitted

VARIABLES
  submitted,            \* frames handed to submitFrame()
  started,              \* frames whose sendFrame() has begun
  finished              \* frames whose sendFrame() has returned

vars == <<submitted, started, finished>>

TypeOK ==
  /\ submitted \in 0 .. NumFrames
  /\ started \in 0 .. NumFrames
  /\ finished \in 0 .. NumFrames

Init ==
  /\ submitted = 0
  /\ started = 0
  /\ finished = 0

Submit ==
  /\ submitted < NumFrames
  /\ submitted' = submitted + 1
  /\ UNCHANGED <<started, finished>>

\* The next frame is sent only once the one before it has been sent.
Begin ==
  /\ started = finished
  /\ started < submitted
  /\ started' = started + 1
  /\ UNCHANGED <<submitted, finished>>

End ==
  /\ finished < started
  /\ finished' = finished + 1
  /\ UNCHANGED <<submitted, started>>

Next == Submit \/ Begin \/ End

Spec == Init /\ [][Next]_vars
=============================================================================
