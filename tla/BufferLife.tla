----------------------------- MODULE BufferLife -----------------------------
(***************************************************************************)
(* What a frame promises about its buffers.  Each has a set of users; a    *)
(* guest may become one more while some user still holds on; a buffer is   *)
(* given back once, after all of its users have let go, and nobody becomes *)
(* a user of it or takes it back again.  The frame ends when all users of  *)
(* all buffers have let go.                                                *)
(***************************************************************************)
CONSTANTS
  Streams,  \* buffers, one per stream
  Users0,   \* the users each buffer starts with
  Guest     \* a user that may come later

VARIABLES users, letGo, held, ended

vars == <<users, letGo, held, ended>>

Init ==
  /\ users = Users0
  /\ letGo = [s \in Streams |-> {}]
  /\ held = Streams
  /\ ended = FALSE

Idle(s) == users[s] \subseteq letGo[s]

LetGo(s) == \E u \in users[s] :
  /\ ~ended
  /\ letGo' = [letGo EXCEPT ![s] = @ \cup {u}]
  /\ UNCHANGED <<users, held, ended>>

Join(s) ==
  /\ ~ended /\ s \in held /\ ~Idle(s)
  /\ users' = [users EXCEPT ![s] = @ \cup {Guest}]
  /\ UNCHANGED <<letGo, held, ended>>

GiveBack(s) ==
  /\ ~ended /\ s \in held /\ Idle(s)
  /\ held' = held \ {s}
  /\ UNCHANGED <<users, letGo, ended>>

End ==
  /\ ~ended
  /\ \A s \in Streams : Idle(s)
  /\ held' = {}
  /\ ended' = TRUE
  /\ UNCHANGED <<users, letGo>>

Next ==
  \/ \E s \in Streams : LetGo(s) \/ Join(s) \/ GiveBack(s)
  \/ End

Spec == Init /\ [][Next]_vars
=============================================================================
