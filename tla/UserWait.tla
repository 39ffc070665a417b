------------------------------ MODULE UserWait ------------------------------
(***************************************************************************)
(* The background wait for the users of one stream buffer                  *)
(* (UsersManagerImp.cpp): the thread of a PreReleaseRequest sleeps in      *)
(* waitUserReleaseStatus() until the last user has called markUserStatus() *)
(* with RELEASE.  PreRelease takes this wait as one step that returns when *)
(* all users have released; here are its two locks and its condition.      *)
(*                                                                         *)
(* mWaitUserStatusLock is held between two steps by the waiter only, while *)
(* it is "locked"; mRWLock is held between two steps by a writer only.     *)
(* The condition is taken to wake its sleeper only when it is signalled.   *)
(***************************************************************************)
CONSTANT Users   \* producers and consumers of the buffer

VARIABLES
  mRWLock,              \* the users, at most one, that hold it for writing
  mBitSetReleased,      \* the users that have released the buffer
  mbNeedWaitReleaseStatus,
  waiter                \* "away", "locked", "asleep", "signalled", "timeout",
                        \* or what waitUserReleaseStatus() has returned
vars == <<mRWLock, mBitSetReleased, mbNeedWaitReleaseStatus, waiter>>

Returned == {"OK", "UNKNOWN_ERROR"}

TypeOK ==
  /\ mRWLock \subseteq Users
  /\ mBitSetReleased \subseteq Users
  /\ mbNeedWaitReleaseStatus \in BOOLEAN
  /\ waiter \in Returned \cup {"away", "locked", "asleep", "signalled", "timeout"}

Init ==
  /\ mRWLock = {}
  /\ mBitSetReleased = {}
  /\ mbNeedWaitReleaseStatus = FALSE
  /\ waiter = "away"
-----------------------------------------------------------------------------
(***************************************************************************)
(* waitUserReleaseStatus(): mWaitUserStatusLock, and under it mRWLock.     *)
(***************************************************************************)
WaitUserReleaseStatus ==
  /\ waiter = "away" /\ waiter' = "locked"
  /\ UNCHANGED <<mRWLock, mBitSetReleased, mbNeedWaitReleaseStatus>>

AlreadyReleased ==
  /\ waiter = "locked" /\ mRWLock = {} /\ mBitSetReleased = Users
  /\ waiter' = "OK"
  /\ UNCHANGED <<mRWLock, mBitSetReleased, mbNeedWaitReleaseStatus>>

Sleep ==
  /\ waiter = "locked" /\ mRWLock = {} /\ mBitSetReleased # Users
  /\ waiter' = "asleep"
  /\ mbNeedWaitReleaseStatus' = TRUE
  /\ UNCHANGED <<mRWLock, mBitSetReleased>>

\* waitRelative() gives up after 30 s.
TimeOut ==
  /\ waiter = "asleep" /\ waiter' = "timeout"
  /\ UNCHANGED <<mRWLock, mBitSetReleased, mbNeedWaitReleaseStatus>>

\* waitRelative() has mWaitUserStatusLock again, and the wait returns.
WakeUp ==
  /\ waiter \in {"signalled", "timeout"}
  /\ waiter' = IF waiter = "signalled" THEN "OK" ELSE "UNKNOWN_ERROR"
  /\ UNCHANGED <<mRWLock, mBitSetReleased, mbNeedWaitReleaseStatus>>
-----------------------------------------------------------------------------
(***************************************************************************)
(* markUserStatus(u, RELEASE): mRWLock, and under it mWaitUserStatusLock.  *)
(***************************************************************************)
LockForWriting(u) ==
  /\ u \notin mBitSetReleased /\ mRWLock = {}
  /\ mRWLock' = {u}
  /\ UNCHANGED <<mBitSetReleased, mbNeedWaitReleaseStatus, waiter>>

MarkUserStatus(u) ==
  /\ u \in mRWLock /\ waiter # "locked"
  /\ mRWLock' = {}
  /\ mBitSetReleased' = mBitSetReleased \cup {u}
  /\ waiter' = IF mBitSetReleased' = Users /\ mbNeedWaitReleaseStatus /\ waiter = "asleep"
               THEN "signalled" ELSE waiter
  /\ UNCHANGED mbNeedWaitReleaseStatus
-----------------------------------------------------------------------------
Wait == WaitUserReleaseStatus \/ AlreadyReleased \/ Sleep \/ TimeOut \/ WakeUp
Release(u) == LockForWriting(u) \/ MarkUserStatus(u)

Next == Wait \/ \E u \in Users : Release(u)

Spec == Init /\ [][Next]_vars

\* The waiter's thread runs, and so does each user, which releases in the end.
FairSpec == Spec /\ WF_vars(Wait) /\ \A u \in Users : WF_vars(Release(u))

\* A wait that holds mWaitUserStatusLock is answered, by the last release or
\* after 30 s: the two orders of the locks do not get in each other's way.
WaitReturns == (waiter = "locked") ~> (waiter \in Returned)

\* waitUserReleaseStatus() sleeps only while a user still has the buffer: the
\* last release is never missed between the look and the sleep.
SleepsWhileUsed == waiter = "asleep" => mBitSetReleased # Users

\* It answers OK only when every user has released the buffer.
OkWhenReleased == waiter \in {"signalled", "OK"} => mBitSetReleased = Users
=============================================================================
