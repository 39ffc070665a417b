--------------------------- MODULE UserWait_proofs ---------------------------
(***************************************************************************)
(* What the background wait keeps although its locks are taken in two      *)
(* orders: it is not woken too early and no release is missed, for any     *)
(* number of users.                                                        *)
(***************************************************************************)
EXTENDS UserWait, TLAPS

\* A sleeper has asked for the signal, and the last release has not come yet;
\* whoever holds mRWLock for writing is alone and has not released.
Lock ==
  /\ \A u, v \in mRWLock : u = v
  /\ mRWLock \cap mBitSetReleased = {}
Asleep == waiter = "asleep" => mbNeedWaitReleaseStatus

IInv == TypeOK /\ Lock /\ Asleep /\ SleepsWhileUsed /\ OkWhenReleased

\* Released users stay released, so that only the steps of the waiter and
\* the last markUserStatus() can disturb IInv.
LEMMA InitIInv == Init => IInv
  BY DEF Init, IInv, TypeOK, Lock, Asleep, SleepsWhileUsed, OkWhenReleased, Returned

\* Each step of the waiter, and each of a user, keeps IInv.
LEMMA NextIInv == IInv /\ [Next]_vars => IInv'
<1> SUFFICES ASSUME IInv, [Next]_vars PROVE IInv'
  OBVIOUS
<1> USE DEF IInv, TypeOK, Lock, Asleep, SleepsWhileUsed, OkWhenReleased, Returned
<1>1. CASE Wait
  <2>1. CASE WaitUserReleaseStatus
    BY <2>1 DEF WaitUserReleaseStatus
  <2>2. CASE AlreadyReleased
    BY <2>2 DEF AlreadyReleased
  <2>3. CASE Sleep
    BY <2>3 DEF Sleep
  <2>4. CASE TimeOut
    BY <2>4 DEF TimeOut
  <2>5. CASE WakeUp
    BY <2>5 DEF WakeUp
  <2> QED
    BY <1>1, <2>1, <2>2, <2>3, <2>4, <2>5 DEF Wait
<1>2. ASSUME NEW u \in Users, LockForWriting(u) PROVE IInv'
  BY <1>2 DEF LockForWriting
<1>3. ASSUME NEW u \in Users, MarkUserStatus(u) PROVE IInv'
  <2>1. mBitSetReleased # Users
    BY <1>3 DEF MarkUserStatus
  <2>2. waiter \notin {"signalled", "OK"}
    BY <2>1
  <2>3. CASE mBitSetReleased' = Users
    BY <1>3, <2>2, <2>3 DEF MarkUserStatus
  <2>4. CASE mBitSetReleased' # Users
    BY <1>3, <2>2, <2>4 DEF MarkUserStatus
  <2> QED
    BY <2>3, <2>4
<1>4. CASE UNCHANGED vars
  BY <1>4 DEF vars
<1> QED
  BY <1>1, <1>2, <1>3, <1>4 DEF Next, Release

\* The types, the writer's exclusion and both facts about the waiter hold in
\* every reachable state.
THEOREM Invariance == Spec => []IInv
  BY InitIInv, NextIInv, PTL DEF Spec

\* The waiter sleeps only while a user still has the buffer: the release that
\* comes between its look and its sleep is not missed.
THEOREM NoMissedRelease == Spec => []SleepsWhileUsed
<1>1. IInv => SleepsWhileUsed
  BY DEF IInv
<1> QED
  BY <1>1, Invariance, PTL

\* waitUserReleaseStatus() answers OK only when every user has released.
THEOREM AnswersRight == Spec => []OkWhenReleased
<1>1. IInv => OkWhenReleased
  BY DEF IInv
<1> QED
  BY <1>1, Invariance, PTL
=============================================================================
