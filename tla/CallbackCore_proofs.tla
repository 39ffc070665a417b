------------------------- MODULE CallbackCore_proofs -------------------------
(***************************************************************************)
(* Proofs about CallbackCore and its recommender, for any number of        *)
(* requests of any types and streams, and whatever bounds: the app gets    *)
(* each kind in order, what it gets is what the pipeline gave, a frame     *)
(* leaves complete, and none stays behind when everything has come.        *)
(*                                                                         *)
(* The bulk is about one update, in which the recommender is called once   *)
(* per frame and kind of result: what the map and the collected out say    *)
(* of the map the update began with, and of the results handed over so far *)
(* (Good), is kept by each of the four things a call is made of: marking   *)
(* what has come, the error, the release, the removal.                     *)
(***************************************************************************)
EXTENDS CallbackCore, WellFoundedInduction, TLAPS

(***************************************************************************)
(* The induction over the natural numbers, in the form that a set of them  *)
(* has a least element.                                                    *)
(***************************************************************************)
LEMMA LeastNumber ==
  ASSUME NEW T \in SUBSET Nat, T # {}
  PROVE  \E x \in T : \A y \in T : x <= y
<1>. DEFINE R == {ss \in Nat \X Nat : ss[1] < ss[2]}
<1>1. OpToRel(<, Nat) = R
  BY DEF OpToRel
<1>2. IsWellFoundedOn(R, Nat)
  BY NatLessThanWellFounded, <1>1, Zenon
<1>3. \A x, y \in Nat : y < x => <<y, x>> \in R
  OBVIOUS
<1>4. \E x \in T : \A y \in T : ~ (<<y, x>> \in R)
  BY <1>2, WFMin, Zenon
<1>5. ASSUME NEW x \in T, \A y \in T : ~ (<<y, x>> \in R)
      PROVE  \A y \in T : x <= y
  <2>. SUFFICES ASSUME NEW y \in T PROVE x <= y
    OBVIOUS
  <2>1. ~ (y < x)
    BY <1>3, <1>5, Zenon
  <2>. QED BY <2>1
<1>. QED BY <1>4, <1>5, Zenon

\* A set that holds 0 and with each number the next one holds all of them.
LEMMA UpTo ==
  ASSUME NEW T, 0 \in T, \A n \in Nat : n \in T => n + 1 \in T
  PROVE  Nat \subseteq T
<1>. SUFFICES ASSUME Nat \ T # {} PROVE FALSE
  OBVIOUS
<1>1. PICK x \in Nat \ T : \A y \in Nat \ T : x <= y
  <2>1. Nat \ T \in SUBSET Nat
    OBVIOUS
  <2>. QED BY <2>1, LeastNumber
<1>2. x # 0
  OBVIOUS
<1>3. x - 1 \in Nat /\ x - 1 \notin Nat \ T
  BY <1>1, <1>2
<1>. QED BY <1>1, <1>3

(***************************************************************************)
(* What an update works on.                                                *)
(***************************************************************************)
USE NumFramesAssumption, StreamsAssumption

Statuses == {"OK", "ERROR"}
Updates ==
  [requests : UNION {[D -> UNION {[Items(f) -> SUBSET Status] : f \in Frames}] : D \in SUBSET Frames},
   out : [items : SUBSET UNION {{f} \X Items(f) \X Statuses : f \in Frames},
          errors : SUBSET (Frames \X {"ERROR_RESULT", "ERROR_REQUEST"}),
          removable : SUBSET Frames]]

WasReleased(f, i) == "RELEASED" \in mRequestMap[f][i]
WasNotified(f) == "NOTIFIED" \in mRequestMap[f]["result"]
Made(X, f, i) == \E s \in Statuses : <<f, i, s>> \in X.out.items
Erred(X, f) == \E e \in {"ERROR_RESULT", "ERROR_REQUEST"} : <<f, e>> \in X.out.errors

\* The map is the one the update began with, less what has been removed.
MapSound(X) ==
  /\ X.out.removable \subseteq DOMAIN mRequestMap
  /\ DOMAIN X.requests = DOMAIN mRequestMap \ X.out.removable
  /\ \A f \in DOMAIN X.requests : X.requests[f] \in [Items(f) -> SUBSET Status]

\* What is released now was released before, or is made available just now, as
\* what S says of it.
ItemsSound(X, S) ==
  /\ \A f \in DOMAIN X.requests : \A i \in Items(f) :
       "RELEASED" \in X.requests[f][i] <=> WasReleased(f, i) \/ Made(X, f, i)
  /\ \A f \in X.out.removable : \A i \in Items(f) : WasReleased(f, i) \/ Made(X, f, i)
  /\ \A f \in Frames : \A i \in Items(f) :
       /\ Made(X, f, i) => f \in DOMAIN mRequestMap /\ ~WasReleased(f, i)
       /\ <<f, i, "OK">> \in X.out.items => <<f, i, "OK">> \in S
       /\ <<f, i, "ERROR">> \in X.out.items => Failure(f, i) \in S

\* So is the error of a failed result, and a request is removed only with it.
ErrorsSound(X, S) ==
  /\ \A f \in DOMAIN X.requests :
       "NOTIFIED" \in X.requests[f]["result"] <=> WasNotified(f) \/ Erred(X, f)
  /\ \A f \in X.out.removable :
       <<f, "result", "OK">> \in S \/ (<<f, "result", "ERROR">> \in S /\ (WasNotified(f) \/ Erred(X, f)))
  /\ \A f \in Frames :
       /\ Erred(X, f) => /\ f \in DOMAIN mRequestMap /\ ~WasNotified(f)
                         /\ <<f, "result", "ERROR">> \in S
       /\ <<f, "ERROR_REQUEST">> \in X.out.errors => \A s \in StreamsOf[f] : <<f, s, "ERROR">> \in S
       /\ <<f, "ERROR_RESULT">> \in X.out.errors => \E s \in StreamsOf[f] : <<f, s, "OK">> \in S

\* Of the elders of what is called back, the same has been released.
EldersReleased(X) == \A f \in Frames, g \in DOMAIN X.requests : Earlier(g, f) =>
  \A i \in Items(f) \cap Items(g) :
    <<f, i, "OK">> \in X.out.items => "RELEASED" \in X.requests[g][i]

Core(X, S) ==
  /\ X \in Updates /\ MapSound(X) /\ StatusSound(X.requests, S)
  /\ ItemsSound(X, S) /\ ErrorsSound(X, S) /\ EldersReleased(X)
Good(X, S) ==
  /\ Core(X, S) /\ Notified(X.requests) /\ FrontReleased(X.requests)
  /\ FrontRemoved(X.requests)

\* The results handed to the recommender once the calls of the kinds in K, and of
\* this kind up to frame n, have been made.
Kinds == {"shutter", "error", "result", "output", "input"}
KindOf(x) == IF x[2] = "shutter" THEN "shutter"
             ELSE IF x[2] = "result" THEN IF x[3] = "ERROR" THEN "error" ELSE "result"
             ELSE IF x[2] \in InputStreams THEN "input" ELSE "output"
Seen(K, kind, n) ==
  Taken \cup {x \in mResultQueue : KindOf(x) \in K \/ (KindOf(x) = kind /\ x[1] <= n)}

\* FrontReleased but for f's queues of the items in K, Notified but for f.
FrontBut(R, f, K) == \A g \in DOMAIN R : \A i \in Items(g) :
  \/ RequestType[g] = RequestType[f] /\ i \in K
  \/ R[g][i] # INFLIGHT /\ (\A h \in Queue(R, g, i) : h < g => R[h][i] # INFLIGHT)
       => "RELEASED" \in R[g][i]
NotifiedBut(R, f) == \A g \in DOMAIN R : g # f => NotifiedOf(R[g], g)

(***************************************************************************)
(* The four things a call is made of.  First, what each returns.           *)
(***************************************************************************)
UpdateRec(R, items, errors, removable) ==
  [requests |-> R, out |-> [items |-> items, errors |-> errors, removable |-> removable]]

\* A map and an output of these types are an update.
LEMMA IsUpdate ==
  ASSUME NEW D \in SUBSET Frames, NEW R, R = [f \in D |-> R[f]],
         \A f \in D : R[f] \in [Items(f) -> SUBSET Status],
         NEW items \in SUBSET UNION {{f} \X Items(f) \X Statuses : f \in Frames},
         NEW errors \in SUBSET (Frames \X {"ERROR_RESULT", "ERROR_REQUEST"}),
         NEW removable \in SUBSET Frames
  PROVE  UpdateRec(R, items, errors, removable) \in Updates
<1>. DEFINE T == UNION {[Items(f) -> SUBSET Status] : f \in Frames}
<1>1. \A f \in D : R[f] \in T
  OBVIOUS
<1>2. R \in [D -> T]
  <2>. HIDE DEF T
  <2>. QED BY <1>1
<1>3. R \in UNION {[E -> T] : E \in SUBSET Frames}
  <2>. HIDE DEF T
  <2>. QED BY <1>2
<1>. HIDE DEF T
<1>4. R \in UNION {[E -> UNION {[Items(f) -> SUBSET Status] : f \in Frames}] : E \in SUBSET Frames}
  BY <1>3 DEF T
<1>. QED BY <1>4, Zenon DEF Updates, UpdateRec

\* What an update is, field by field.
LEMMA UpdateIs ==
  ASSUME NEW X \in Updates
  PROVE  /\ X = UpdateRec(X.requests, X.out.items, X.out.errors, X.out.removable)
         /\ X = [requests |-> X.requests, out |-> X.out]
         /\ X.out = [items |-> X.out.items, errors |-> X.out.errors,
                     removable |-> X.out.removable]
         /\ X.requests = [f \in DOMAIN X.requests |-> X.requests[f]]
         /\ DOMAIN X.requests \subseteq Frames
         /\ X.out.items \in SUBSET UNION {{f} \X Items(f) \X Statuses : f \in Frames}
         /\ X.out.errors \in SUBSET (Frames \X {"ERROR_RESULT", "ERROR_REQUEST"})
         /\ X.out.removable \in SUBSET Frames
<1>1. PICK D \in SUBSET Frames : X.requests \in [D -> UNION {[Items(f) -> SUBSET Status] : f \in Frames}]
  BY DEF Updates
<1>2. DOMAIN X.requests = D /\ X.requests = [f \in D |-> X.requests[f]]
  BY <1>1
<1>. QED BY <1>2 DEF Updates, UpdateRec

MarkOf(X, f, m) == [X EXCEPT !.requests[f] = m]

\* Marking frame f changes its items and nothing else.
LEMMA MarkIs ==
  ASSUME NEW X \in Updates, NEW f \in DOMAIN X.requests, NEW m, NEW Y,
         Y = MarkOf(X, f, m)
  PROVE  /\ Y = UpdateRec(Y.requests, X.out.items, X.out.errors, X.out.removable)
         /\ Y.out = X.out
         /\ DOMAIN Y.requests = DOMAIN X.requests
         /\ Y.requests = [g \in DOMAIN X.requests |-> Y.requests[g]]
         /\ Y.requests[f] = m
         /\ \A g \in DOMAIN X.requests : g # f => Y.requests[g] = X.requests[g]
<1>. DEFINE R == [X.requests EXCEPT ![f] = m]
<1>1. X = [requests |-> X.requests, out |-> X.out]
  BY UpdateIs
<1>2. Y = [requests |-> R, out |-> X.out]
  BY <1>1 DEF MarkOf
<1>3. Y.requests = R /\ Y.out = X.out
  BY <1>2
<1>4. Y = UpdateRec(Y.requests, X.out.items, X.out.errors, X.out.removable)
  BY <1>2, <1>3, UpdateIs DEF UpdateRec
<1>5. X.requests = [g \in DOMAIN X.requests |-> X.requests[g]]
  BY UpdateIs
<1>6. /\ DOMAIN R = DOMAIN X.requests /\ R[f] = m
      /\ R = [g \in DOMAIN X.requests |-> R[g]]
      /\ \A g \in DOMAIN X.requests : g # f => R[g] = X.requests[g]
  BY <1>5
<1>. HIDE DEF R
<1>. QED BY <1>3, <1>4, <1>6

\* A marked frame stays in the map.
LEMMA MarkDomain ==
  ASSUME NEW X \in Updates, NEW f \in DOMAIN X.requests, NEW m
  PROVE  f \in DOMAIN MarkOf(X, f, m).requests
<1>. DEFINE Y == MarkOf(X, f, m)
<1>1. Y = MarkOf(X, f, m)
  OBVIOUS
<1>. HIDE DEF Y
<1>2. /\ Y = UpdateRec(Y.requests, X.out.items, X.out.errors, X.out.removable)
      /\ Y.out = X.out /\ DOMAIN Y.requests = DOMAIN X.requests
      /\ Y.requests = [g \in DOMAIN X.requests |-> Y.requests[g]]
      /\ Y.requests[f] = m
      /\ \A g \in DOMAIN X.requests : g # f => Y.requests[g] = X.requests[g]
  BY <1>1, MarkIs
<1>. QED BY <1>1, <1>2

\* prepareCallback...() releases what is available and puts it out, and changes
\* nothing else.
LEMMA PrepareIs ==
  ASSUME NEW X \in Updates, NEW f, NEW K, NEW Y, Y = PrepareCallback(X, f, K)
  PROVE  /\ Y = UpdateRec(Y.requests, Y.out.items, X.out.errors, X.out.removable)
         /\ Y.out.errors = X.out.errors /\ Y.out.removable = X.out.removable
         /\ DOMAIN Y.requests = DOMAIN X.requests
         /\ Y.requests = [g \in DOMAIN X.requests |-> Y.requests[g]]
         /\ \A g \in DOMAIN X.requests :
              /\ DOMAIN Y.requests[g] = Items(g)
              /\ Y.requests[g] = [i \in Items(g) |-> Y.requests[g][i]]
         /\ \A g \in DOMAIN X.requests : \A i \in Items(g) : Y.requests[g][i] =
              IF i \in K /\ g \in Available(X.requests, f, i)
              THEN X.requests[g][i] \cup {"RELEASED"} ELSE X.requests[g][i]
         /\ \A x : x \in Y.out.items <=>
              \/ x \in X.out.items
              \/ \E i \in K : \E g \in Available(X.requests, f, i) :
                   x = <<g, i, IF "ERROR" \in X.requests[g][i] THEN "ERROR" ELSE "OK">>
<1>. DEFINE A(i) == Available(X.requests, f, i)
            R == [g \in DOMAIN X.requests |-> [i \in Items(g) |->
                   IF i \in K /\ g \in A(i) THEN X.requests[g][i] \cup {"RELEASED"}
                   ELSE X.requests[g][i]]]
            N == UNION {{<<g, i, IF "ERROR" \in X.requests[g][i] THEN "ERROR" ELSE "OK">>
                          : g \in A(i)} : i \in K}
<1>1. Y = [X EXCEPT !.requests = R, !.out.items = X.out.items \cup N]
  BY Zenon DEF PrepareCallback
<1>2. /\ X = [requests |-> X.requests, out |-> X.out]
      /\ X.out = [items |-> X.out.items, errors |-> X.out.errors, removable |-> X.out.removable]
  BY UpdateIs
<1>3. /\ DOMAIN R = DOMAIN X.requests
      /\ R = [g \in DOMAIN X.requests |-> R[g]]
      /\ \A g \in DOMAIN X.requests : DOMAIN R[g] = Items(g) /\ R[g] = [i \in Items(g) |-> R[g][i]]
      /\ \A g \in DOMAIN X.requests : \A i \in Items(g) : R[g][i] =
              IF i \in K /\ g \in Available(X.requests, f, i)
              THEN X.requests[g][i] \cup {"RELEASED"} ELSE X.requests[g][i]
  <2>. HIDE DEF A
  <2>1. \A i : A(i) = Available(X.requests, f, i)
    BY DEF A
  <2>. QED BY <2>1
<1>4. \A x : x \in N <=> \E i \in K : \E g \in Available(X.requests, f, i) :
                   x = <<g, i, IF "ERROR" \in X.requests[g][i] THEN "ERROR" ELSE "OK">>
  OBVIOUS
<1>. HIDE DEF R, N
<1>5. /\ Y.requests = R
      /\ Y.out = [items |-> X.out.items \cup N, errors |-> X.out.errors,
                  removable |-> X.out.removable]
      /\ Y = [requests |-> Y.requests, out |-> Y.out]
  BY <1>1, <1>2
<1>6. Y = UpdateRec(Y.requests, Y.out.items, X.out.errors, X.out.removable)
  BY <1>5 DEF UpdateRec
<1>7. Y.out.items = X.out.items \cup N /\ Y.out.errors = X.out.errors
      /\ Y.out.removable = X.out.removable
  BY <1>5
<1>8. \A x : x \in Y.out.items <=> x \in X.out.items \/ x \in N
  BY <1>7
<1>9. \A x : x \in Y.out.items <=>
              \/ x \in X.out.items
              \/ \E i \in K : \E g \in Available(X.requests, f, i) :
                   x = <<g, i, IF "ERROR" \in X.requests[g][i] THEN "ERROR" ELSE "OK">>
  BY <1>4, <1>8, Zenon
<1>10. R = Y.requests
  BY <1>5
<1>. QED BY <1>3, <1>6, <1>7, <1>9, <1>10

NewErrorOf(r, f) ==
  IF "ERROR" \in r["result"] /\ "NOTIFIED" \notin r["result"] THEN Error(r, f) ELSE {}

ErrorsMade(X, f, Y) ==
  /\ Y = UpdateRec(Y.requests, X.out.items, Y.out.errors, X.out.removable)
  /\ Y.out.items = X.out.items /\ Y.out.removable = X.out.removable
  /\ DOMAIN Y.requests = DOMAIN X.requests
  /\ Y.requests = [g \in DOMAIN X.requests |-> Y.requests[g]]
  /\ \A g \in DOMAIN X.requests : g # f => Y.requests[g] = X.requests[g]
  /\ DOMAIN Y.requests[f] = Items(f)
  /\ Y.requests[f] = [i \in Items(f) |-> Y.requests[f][i]]
  /\ \A i \in Items(f) : Y.requests[f][i] =
       IF i = "result" /\ NewErrorOf(X.requests[f], f) # {}
       THEN X.requests[f][i] \cup {"NOTIFIED"} ELSE X.requests[f][i]
  /\ Y.out.errors = X.out.errors \cup ({f} \X NewErrorOf(X.requests[f], f))

\* prepareCallbackErrors() puts out f's error and notes that, and changes
\* nothing else.
LEMMA ErrorsAre ==
  ASSUME NEW X \in Updates, NEW f \in DOMAIN X.requests, NEW Y, Y = PrepareCallbackErrors(X, f),
         X.requests[f] \in [Items(f) -> SUBSET Status]
  PROVE  ErrorsMade(X, f, Y)
<1>. DEFINE r == X.requests[f]
            now == NewErrorOf(r, f)
            m == [r EXCEPT !["result"] = IF now = {} THEN @ ELSE @ \cup {"NOTIFIED"}]
            R == [X.requests EXCEPT ![f] = m]
            E == X.out.errors \cup ({f} \X now)
<1>1. Y = [X EXCEPT !.requests[f]["result"] = IF now = {} THEN @ ELSE @ \cup {"NOTIFIED"},
                    !.out.errors = @ \cup ({f} \X now)]
  BY Zenon DEF PrepareCallbackErrors, NewErrorOf
<1>2. /\ X = [requests |-> X.requests, out |-> X.out]
      /\ X.out = [items |-> X.out.items, errors |-> X.out.errors, removable |-> X.out.removable]
      /\ X.requests = [g \in DOMAIN X.requests |-> X.requests[g]]
  BY UpdateIs
<1>3. /\ DOMAIN m = Items(f) /\ m = [i \in Items(f) |-> m[i]]
      /\ \A i \in Items(f) : m[i] =
              IF i = "result" /\ now # {} THEN r[i] \cup {"NOTIFIED"} ELSE r[i]
  <2>. HIDE DEF now
  <2>. QED BY DEF Items
<1>4. Y = [requests |-> R, out |-> [items |-> X.out.items, errors |-> E, removable |-> X.out.removable]]
  <2>. HIDE DEF now
  <2>. QED BY <1>1, <1>2
<1>. HIDE DEF now, m
<1>5. /\ DOMAIN R = DOMAIN X.requests /\ R[f] = m
      /\ R = [g \in DOMAIN X.requests |-> R[g]]
      /\ \A g \in DOMAIN X.requests : g # f => R[g] = X.requests[g]
  BY <1>2
<1>. HIDE DEF R, E
<1>6. /\ Y.requests = R /\ Y.out.items = X.out.items /\ Y.out.errors = E
      /\ Y.out.removable = X.out.removable
      /\ Y = UpdateRec(Y.requests, X.out.items, Y.out.errors, X.out.removable)
  BY <1>4 DEF UpdateRec
<1>. QED BY <1>3, <1>5, <1>6, Zenon DEF now, E, r, ErrorsMade

\* Removing S takes it out of the map, and changes nothing else.
LEMMA RemoveIs ==
  ASSUME NEW X \in Updates, NEW S, NEW Y, Y = Remove(X, S)
  PROVE  /\ Y = UpdateRec(Y.requests, X.out.items, X.out.errors, Y.out.removable)
         /\ Y.out.items = X.out.items /\ Y.out.errors = X.out.errors
         /\ Y.out.removable = X.out.removable \cup S
         /\ DOMAIN Y.requests = DOMAIN X.requests \ S
         /\ Y.requests = [g \in DOMAIN X.requests \ S |-> Y.requests[g]]
         /\ \A g \in DOMAIN X.requests \ S : Y.requests[g] = X.requests[g]
<1>. DEFINE R == [g \in DOMAIN X.requests \ S |-> X.requests[g]]
<1>1. Y = [X EXCEPT !.requests = R, !.out.removable = X.out.removable \cup S]
  BY Zenon DEF Remove
<1>2. /\ X = [requests |-> X.requests, out |-> X.out]
      /\ X.out = [items |-> X.out.items, errors |-> X.out.errors, removable |-> X.out.removable]
  BY UpdateIs
<1>3. /\ DOMAIN R = DOMAIN X.requests \ S
      /\ R = [g \in DOMAIN X.requests \ S |-> R[g]]
      /\ \A g \in DOMAIN X.requests \ S : R[g] = X.requests[g]
  OBVIOUS
<1>. HIDE DEF R
<1>4. /\ Y.requests = R /\ Y.out.items = X.out.items /\ Y.out.errors = X.out.errors
      /\ Y.out.removable = X.out.removable \cup S
      /\ Y = UpdateRec(Y.requests, X.out.items, X.out.errors, Y.out.removable)
  BY <1>1, <1>2 DEF UpdateRec
<1>. QED BY <1>3, <1>4

(***************************************************************************)
(* What holds of the results seen holds of more of them.                   *)
(***************************************************************************)
LEMMA SeenMore ==
  ASSUME NEW X, NEW S, NEW T, S \subseteq T, ItemsSound(X, S), ErrorsSound(X, S)
  PROVE  ItemsSound(X, T) /\ ErrorsSound(X, T)
<1>1. ItemsSound(X, T)
  BY DEF ItemsSound
<1>2. ErrorsSound(X, T)
  BY DEF ErrorsSound
<1>. QED BY <1>1, <1>2

\* T has no more than S of what is in the map but of frame f.
OnlyOf(R, f, S, T) ==
  /\ S \subseteq T
  /\ \A g \in DOMAIN R : g # f => \A i \in Items(g) : \A s \in Statuses :
       <<g, i, s>> \in T => <<g, i, s>> \in S

\* What has come of f says nothing of the others.
LEMMA OthersSound ==
  ASSUME NEW R, NEW S, NEW T, NEW f, StatusSound(R, S), OnlyOf(R, f, S, T)
  PROVE  \A g \in DOMAIN R : g # f => \A i \in Items(g) : StatusOf(R[g][i], g, i, T)
<1>. SUFFICES ASSUME NEW g \in DOMAIN R, g # f, NEW i \in Items(g)
             PROVE  StatusOf(R[g][i], g, i, T)
  OBVIOUS
<1>1. StatusOf(R[g][i], g, i, S)
  BY DEF StatusSound
<1>2. <<g, i, "OK">> \in T <=> <<g, i, "OK">> \in S
  BY DEF OnlyOf, Statuses
<1>3. Failure(g, i) \in T <=> Failure(g, i) \in S
  BY DEF OnlyOf, Failure, Items, Statuses
<1>. QED BY <1>1, <1>2, <1>3 DEF StatusOf

\* Nor of anyone in the map, if f is not there.
LEMMA SeenKeeps ==
  ASSUME NEW X, NEW S, NEW T, NEW f, f \notin DOMAIN X.requests, Core(X, S),
         OnlyOf(X.requests, f, S, T)
  PROVE  Core(X, T)
<1>1. StatusSound(X.requests, T)
  BY OthersSound DEF Core, StatusSound
<1>2. ItemsSound(X, T) /\ ErrorsSound(X, T)
  BY SeenMore DEF Core, OnlyOf
<1>. QED BY <1>1, <1>2 DEF Core

(***************************************************************************)
(* Marking what has come of f, with the status m of its items.             *)
(***************************************************************************)
LEMMA MarkKeeps ==
  ASSUME NEW X, NEW S, NEW T, NEW f \in DOMAIN X.requests, Core(X, S),
         OnlyOf(X.requests, f, S, T),
         NEW m \in [Items(f) -> SUBSET Status],
         \A i \in Items(f) :
            /\ X.requests[f][i] \subseteq m[i]
            /\ m[i] \ X.requests[f][i] \subseteq {"ERROR", "VALID"}
            /\ StatusOf(m[i], f, i, T),
         NEW Y, Y = MarkOf(X, f, m)
  PROVE  Core(Y, T)
<1>0. X \in Updates
  BY DEF Core
<1>a. /\ Y = UpdateRec(Y.requests, X.out.items, X.out.errors, X.out.removable)
      /\ Y.out = X.out /\ DOMAIN Y.requests = DOMAIN X.requests
      /\ Y.requests = [g \in DOMAIN X.requests |-> Y.requests[g]]
      /\ Y.requests[f] = m
      /\ \A g \in DOMAIN X.requests : g # f => Y.requests[g] = X.requests[g]
  BY <1>0, MarkIs
<1>. DEFINE R == X.requests
            Q == Y.requests
<1>1. X \in Updates /\ MapSound(X) /\ StatusSound(R, S) /\ ItemsSound(X, S)
      /\ ErrorsSound(X, S) /\ EldersReleased(X)
  BY DEF Core
<1>2. /\ Y = UpdateRec(Q, X.out.items, X.out.errors, X.out.removable)
      /\ Y.out = X.out /\ DOMAIN Q = DOMAIN R /\ Q = [g \in DOMAIN R |-> Q[g]]
      /\ Q[f] = m /\ \A g \in DOMAIN R : g # f => Q[g] = R[g]
  BY <1>a
<1>3. /\ DOMAIN R \subseteq Frames
      /\ X.out.items \in SUBSET UNION {{g} \X Items(g) \X Statuses : g \in Frames}
      /\ X.out.errors \in SUBSET (Frames \X {"ERROR_RESULT", "ERROR_REQUEST"})
      /\ X.out.removable \in SUBSET Frames
  BY <1>1, UpdateIs
<1>4. \A g \in DOMAIN R : R[g] \in [Items(g) -> SUBSET Status]
  BY <1>1 DEF MapSound
<1>. HIDE DEF R, Q
<1>5. \A g \in DOMAIN R : Q[g] \in [Items(g) -> SUBSET Status]
  BY <1>2, <1>4
<1>6. Y \in Updates
  <2>1. DOMAIN R \in SUBSET Frames
    BY <1>3
  <2>2. UpdateRec(Q, X.out.items, X.out.errors, X.out.removable) \in Updates
    BY <1>2, <1>3, <1>5, <2>1, IsUpdate, Zenon
  <2>. QED BY <1>2, <2>2
<1>7. MapSound(Y)
  BY <1>1, <1>2, <1>5 DEF MapSound, Q, R
<1>8. StatusSound(Q, T)
  <2>1. \A g \in DOMAIN R : g # f => \A i \in Items(g) : StatusOf(R[g][i], g, i, T)
    BY <1>1, OthersSound DEF R
  <2>. SUFFICES ASSUME NEW g \in DOMAIN Q, NEW i \in Items(g) PROVE StatusOf(Q[g][i], g, i, T)
    BY DEF StatusSound
  <2>. QED BY <1>2, <2>1
<1>9. \A g \in DOMAIN R : \A i \in Items(g) :
        /\ "RELEASED" \in Q[g][i] <=> "RELEASED" \in R[g][i]
        /\ "NOTIFIED" \in Q[g][i] <=> "NOTIFIED" \in R[g][i]
  <2>. SUFFICES ASSUME NEW g \in DOMAIN R, NEW i \in Items(g)
               PROVE  /\ "RELEASED" \in Q[g][i] <=> "RELEASED" \in R[g][i]
                      /\ "NOTIFIED" \in Q[g][i] <=> "NOTIFIED" \in R[g][i]
    OBVIOUS
  <2>1. CASE g = f
    BY <2>1, <1>2 DEF R
  <2>2. CASE g # f
    BY <2>2, <1>2
  <2>. QED BY <2>1, <2>2
<1>10. ItemsSound(X, T) /\ ErrorsSound(X, T)
  BY <1>1, SeenMore DEF OnlyOf
<1>11. ItemsSound(Y, T)
  BY <1>2, <1>9, <1>10 DEF ItemsSound, Made, Q, R
<1>12. ErrorsSound(Y, T)
  BY <1>2, <1>9, <1>10 DEF ErrorsSound, Erred, Q, R, Items
<1>13. EldersReleased(Y)
  <2>. SUFFICES ASSUME NEW e \in Frames, NEW g \in DOMAIN R, Earlier(g, e),
                      NEW i \in Items(e) \cap Items(g), <<e, i, "OK">> \in X.out.items
               PROVE  "RELEASED" \in Q[g][i]
    BY <1>2 DEF EldersReleased, Q, R
  <2>1. "RELEASED" \in R[g][i]
    BY <1>1 DEF EldersReleased, R
  <2>. QED BY <1>9, <2>1
<1>. QED BY <1>6, <1>7, <1>8, <1>11, <1>12, <1>13 DEF Core, Q

(***************************************************************************)
(* Releasing what may be released of f's queues of the items in K.         *)
(***************************************************************************)
LEMMA PrepareKeeps ==
  ASSUME NEW X, NEW S, NEW f \in Frames, NEW K \in SUBSET Items(f), Core(X, S),
         NEW Y, Y = PrepareCallback(X, f, K)
  PROVE  /\ Core(Y, S)
         /\ DOMAIN Y.requests = DOMAIN X.requests
         /\ Notified(X.requests) => Notified(Y.requests)
         /\ NotifiedBut(X.requests, f) => NotifiedBut(Y.requests, f)
         /\ \A L : FrontBut(X.requests, f, L) => FrontBut(Y.requests, f, L \ K)
<1>0. X \in Updates
  BY DEF Core
<1>a. /\ Y = UpdateRec(Y.requests, Y.out.items, X.out.errors, X.out.removable)
      /\ Y.out.errors = X.out.errors /\ Y.out.removable = X.out.removable
      /\ DOMAIN Y.requests = DOMAIN X.requests
      /\ Y.requests = [g \in DOMAIN X.requests |-> Y.requests[g]]
      /\ \A g \in DOMAIN X.requests :
              /\ DOMAIN Y.requests[g] = Items(g)
              /\ Y.requests[g] = [i \in Items(g) |-> Y.requests[g][i]]
      /\ \A g \in DOMAIN X.requests : \A i \in Items(g) : Y.requests[g][i] =
              IF i \in K /\ g \in Available(X.requests, f, i)
              THEN X.requests[g][i] \cup {"RELEASED"} ELSE X.requests[g][i]
      /\ \A x : x \in Y.out.items <=>
              \/ x \in X.out.items
              \/ \E i \in K : \E g \in Available(X.requests, f, i) :
                   x = <<g, i, IF "ERROR" \in X.requests[g][i] THEN "ERROR" ELSE "OK">>
  BY <1>0, PrepareIs
<1>. DEFINE R == X.requests
            Q == Y.requests
            A(i) == Available(R, f, i)
<1>1. MapSound(X) /\ StatusSound(R, S) /\ ItemsSound(X, S)
      /\ ErrorsSound(X, S) /\ EldersReleased(X)
  BY DEF Core
<1>2. /\ DOMAIN R \subseteq Frames
      /\ X.out.items \in SUBSET UNION {{g} \X Items(g) \X Statuses : g \in Frames}
      /\ X.out.errors \in SUBSET (Frames \X {"ERROR_RESULT", "ERROR_REQUEST"})
      /\ X.out.removable \in SUBSET Frames
  BY <1>0, UpdateIs
<1>3. \A g \in DOMAIN R : R[g] \in [Items(g) -> SUBSET Status]
  BY <1>1 DEF MapSound
<1>4. /\ DOMAIN Q = DOMAIN R
      /\ \A g \in DOMAIN R : \A i \in Items(g) : Q[g][i] =
              IF i \in K /\ g \in A(i) THEN R[g][i] \cup {"RELEASED"} ELSE R[g][i]
  BY <1>a
<1>5. \A i : \A g \in A(i) :
        /\ g \in DOMAIN R /\ i \in Items(g) /\ RequestType[g] = RequestType[f]
        /\ "RELEASED" \notin R[g][i] /\ R[g][i] \cap {"ERROR", "VALID"} # {}
        /\ \/ \A h \in Queue(R, f, i) : h < g => R[h][i] # INFLIGHT
           \/ g = f /\ "ERROR" \in R[g][i]
  BY DEF Available, Queue
<1>6. \A i \in Items(f) : \A g \in DOMAIN R :
        /\ i \in Items(g) /\ RequestType[g] = RequestType[f]
        /\ "RELEASED" \notin R[g][i] /\ R[g][i] \cap {"ERROR", "VALID"} # {}
        /\ \A h \in Queue(R, f, i) : h < g => R[h][i] # INFLIGHT
        => g \in A(i)
  BY DEF Available, Queue
<1>7. \A g \in Frames : \A i \in Items(g) : \A s \in Statuses :
        <<g, i, s>> \in Y.out.items <=>
          \/ <<g, i, s>> \in X.out.items
          \/ i \in K /\ g \in A(i) /\ s = IF "ERROR" \in R[g][i] THEN "ERROR" ELSE "OK"
  <2>. HIDE DEF A, R
  <2>1. \A x : x \in Y.out.items <=>
              \/ x \in X.out.items
              \/ \E i \in K : \E g \in A(i) :
                   x = <<g, i, IF "ERROR" \in R[g][i] THEN "ERROR" ELSE "OK">>
    BY <1>a DEF A, R
  <2>. QED BY <2>1
<1>8. Y.out.items \in SUBSET UNION {{g} \X Items(g) \X Statuses : g \in Frames}
  <2>. HIDE DEF A, R
  <2>1. \A x : x \in Y.out.items <=>
              \/ x \in X.out.items
              \/ \E i \in K : \E g \in A(i) :
                   x = <<g, i, IF "ERROR" \in R[g][i] THEN "ERROR" ELSE "OK">>
    BY <1>a DEF A, R
  <2>2. ASSUME NEW i \in K, NEW g \in A(i)
        PROVE  <<g, i, IF "ERROR" \in R[g][i] THEN "ERROR" ELSE "OK">>
                 \in UNION {{e} \X Items(e) \X Statuses : e \in Frames}
    <3>1. g \in Frames /\ i \in Items(g)
      BY <1>2, <1>5, <2>2
    <3>. QED BY <3>1 DEF Statuses
  <2>. QED BY <1>2, <2>1, <2>2
<1>9. \A g \in DOMAIN R : Q[g] \in [Items(g) -> SUBSET Status]
  <2>. SUFFICES ASSUME NEW g \in DOMAIN R PROVE Q[g] \in [Items(g) -> SUBSET Status]
    OBVIOUS
  <2>1. Q[g] = [i \in Items(g) |-> Q[g][i]]
    BY <1>a
  <2>. HIDE DEF A, R, Q
  <2>2. ASSUME NEW i \in Items(g) PROVE Q[g][i] \in SUBSET Status
    <3>1. R[g][i] \in SUBSET Status
      BY <1>3
    <3>2. Q[g][i] = R[g][i] \cup {"RELEASED"} \/ Q[g][i] = R[g][i]
      BY <1>4
    <3>. QED BY <3>1, <3>2 DEF Status
  <2>. QED BY <2>1, <2>2
<1>10. Y \in Updates
  <2>1. DOMAIN R \in SUBSET Frames
    BY <1>2
  <2>2. Q = [g \in DOMAIN R |-> Q[g]]
    BY <1>a
  <2>3. Y = UpdateRec(Q, Y.out.items, X.out.errors, X.out.removable)
    BY <1>a
  <2>. HIDE DEF A, R, Q
  <2>4. UpdateRec(Q, Y.out.items, X.out.errors, X.out.removable) \in Updates
    BY <1>2, <1>8, <1>9, <2>1, <2>2, IsUpdate, Zenon
  <2>. QED BY <2>3, <2>4
<1>11. MapSound(Y)
  BY <1>1, <1>a, <1>9 DEF MapSound
<1>. HIDE DEF A, R, Q
<1>12. \A g \in DOMAIN R : \A i \in Items(g) :
         /\ \A b : b # "RELEASED" => (b \in Q[g][i] <=> b \in R[g][i])
         /\ "RELEASED" \in Q[g][i] <=> "RELEASED" \in R[g][i] \/ (i \in K /\ g \in A(i))
         /\ Q[g][i] = INFLIGHT <=> R[g][i] = INFLIGHT
  <2>. SUFFICES ASSUME NEW g \in DOMAIN R, NEW i \in Items(g)
               PROVE  /\ \A b : b # "RELEASED" => (b \in Q[g][i] <=> b \in R[g][i])
                      /\ "RELEASED" \in Q[g][i]
                           <=> "RELEASED" \in R[g][i] \/ (i \in K /\ g \in A(i))
                      /\ Q[g][i] = INFLIGHT <=> R[g][i] = INFLIGHT
    OBVIOUS
  <2>1. CASE i \in K /\ g \in A(i)
    <3>1. Q[g][i] = R[g][i] \cup {"RELEASED"}
      BY <1>4, <2>1
    <3>2. R[g][i] # {}
      BY <1>5, <2>1
    <3>. QED BY <2>1, <3>1, <3>2 DEF INFLIGHT
  <2>2. CASE ~(i \in K /\ g \in A(i))
    <3>1. Q[g][i] = R[g][i]
      BY <1>4, <2>2
    <3>. QED BY <2>2, <3>1
  <2>. QED BY <2>1, <2>2
<1>13. StatusSound(Q, S)
  <2>. SUFFICES ASSUME NEW g \in DOMAIN R, NEW i \in Items(g) PROVE StatusOf(Q[g][i], g, i, S)
    BY <1>4 DEF StatusSound
  <2>1. StatusOf(R[g][i], g, i, S)
    BY <1>1 DEF StatusSound
  <2>2. \A b : b # "RELEASED" => (b \in Q[g][i] <=> b \in R[g][i])
    BY <1>12
  <2>3. Q[g][i] = INFLIGHT <=> R[g][i] = INFLIGHT
    BY <1>12
  <2>. QED BY <2>1, <2>2, <2>3 DEF StatusOf
<1>14. \A g \in Frames : \A i \in Items(g) :
         Made(Y, g, i) <=> Made(X, g, i) \/ (i \in K /\ g \in A(i))
  BY <1>7 DEF Made, Statuses
<1>15. ItemsSound(Y, S)
  <2>1. \A g \in DOMAIN R : \A i \in Items(g) :
          "RELEASED" \in Q[g][i] <=> WasReleased(g, i) \/ Made(Y, g, i)
    BY <1>1, <1>2, <1>12, <1>14 DEF ItemsSound, R
  <2>2. \A g \in X.out.removable : \A i \in Items(g) : WasReleased(g, i) \/ Made(Y, g, i)
    BY <1>1, <1>2, <1>14 DEF ItemsSound
  <2>3. ASSUME NEW g \in Frames, NEW i \in Items(g)
        PROVE  /\ Made(Y, g, i) => g \in DOMAIN mRequestMap /\ ~WasReleased(g, i)
               /\ <<g, i, "OK">> \in Y.out.items => <<g, i, "OK">> \in S
               /\ <<g, i, "ERROR">> \in Y.out.items => Failure(g, i) \in S
    <3>1. /\ Made(X, g, i) => g \in DOMAIN mRequestMap /\ ~WasReleased(g, i)
          /\ <<g, i, "OK">> \in X.out.items => <<g, i, "OK">> \in S
          /\ <<g, i, "ERROR">> \in X.out.items => Failure(g, i) \in S
      BY <1>1 DEF ItemsSound
    <3>2. CASE i \in K /\ g \in A(i)
      <4>1. g \in DOMAIN R /\ "RELEASED" \notin R[g][i] /\ R[g][i] \cap {"ERROR", "VALID"} # {}
        BY <1>5, <3>2
      <4>2. ~WasReleased(g, i)
        BY <1>1, <4>1 DEF ItemsSound, R
      <4>3. g \in DOMAIN mRequestMap
        BY <1>1, <4>1 DEF MapSound, R
      <4>4. StatusOf(R[g][i], g, i, S)
        BY <1>1, <4>1 DEF StatusSound
      <4>5. "ERROR" \in R[g][i] => Failure(g, i) \in S
        BY <4>4 DEF StatusOf
      <4>6. "ERROR" \notin R[g][i] => <<g, i, "OK">> \in S
        BY <4>1, <4>4 DEF StatusOf
      <4>. QED BY <1>7, <3>1, <4>2, <4>3, <4>5, <4>6 DEF Statuses
    <3>3. CASE ~(i \in K /\ g \in A(i))
      BY <1>7, <1>14, <3>1, <3>3 DEF Statuses
    <3>. QED BY <3>2, <3>3
  <2>. QED BY <1>a, <1>4, <2>1, <2>2, <2>3 DEF ItemsSound, Q
<1>16. \A g \in DOMAIN R : "NOTIFIED" \in Q[g]["result"] <=> "NOTIFIED" \in R[g]["result"]
  BY <1>12 DEF Items
<1>17. ErrorsSound(Y, S)
  BY <1>1, <1>a, <1>16 DEF ErrorsSound, Erred, Q, R
<1>18. EldersReleased(Y)
  <2>. SUFFICES ASSUME NEW e \in Frames, NEW g \in DOMAIN R, Earlier(g, e),
                      NEW i \in Items(e) \cap Items(g), <<e, i, "OK">> \in Y.out.items
               PROVE  "RELEASED" \in Q[g][i]
    BY <1>4 DEF EldersReleased, Q
  <2>1. CASE <<e, i, "OK">> \in X.out.items
    <3>1. "RELEASED" \in R[g][i]
      BY <1>1, <2>1 DEF EldersReleased, R
    <3>. QED BY <1>12, <3>1
  <2>2. CASE <<e, i, "OK">> \notin X.out.items
    <3>1. i \in K /\ e \in A(i) /\ "ERROR" \notin R[e][i]
      BY <1>7, <2>2 DEF Statuses
    <3>2. RequestType[e] = RequestType[f] /\ \A h \in Queue(R, f, i) : h < e => R[h][i] # INFLIGHT
      BY <1>5, <3>1
    <3>3. g \in Queue(R, f, i) /\ g < e
      BY <3>2 DEF Queue, Earlier
    <3>4. R[g][i] \cap {"ERROR", "VALID"} # {}
      BY <1>1, <3>2, <3>3 DEF StatusSound, StatusOf
    <3>5. ASSUME NEW h \in Queue(R, f, i), h < g PROVE R[h][i] # INFLIGHT
      <4>1. h \in Frames /\ g \in Frames
        BY <1>2 DEF Queue
      <4>2. h < e
        BY <3>3, <3>5, <4>1 DEF Frames
      <4>. QED BY <3>2, <4>2
    <3>6. "RELEASED" \in R[g][i] \/ g \in A(i)
      BY <1>6, <3>1, <3>3, <3>4, <3>5 DEF Queue
    <3>. QED BY <1>12, <3>1, <3>6
  <2>. QED BY <2>1, <2>2
<1>19. Core(Y, S)
  BY <1>10, <1>11, <1>13, <1>15, <1>17, <1>18 DEF Core, Q
<1>20. ASSUME NEW g \in DOMAIN R, NotifiedOf(R[g], g) PROVE NotifiedOf(Q[g], g)
  <2>1. \A i \in Items(g) : "ERROR" \in Q[g][i] <=> "ERROR" \in R[g][i]
    BY <1>12
  <2>2. \A i \in Items(g) : "VALID" \in Q[g][i] <=> "VALID" \in R[g][i]
    BY <1>12
  <2>3. Error(Q[g], g) = Error(R[g], g)
    BY <2>1, <2>2 DEF Error, OneValid, AllFailed, Items
  <2>4. "result" \in Items(g)
    BY DEF Items
  <2>. QED BY <1>16, <1>20, <2>1, <2>3, <2>4 DEF NotifiedOf
<1>21. Notified(R) => Notified(Q)
  BY <1>4, <1>20 DEF Notified
<1>22. NotifiedBut(R, f) => NotifiedBut(Q, f)
  BY <1>4, <1>20 DEF NotifiedBut
<1>23. ASSUME NEW L, FrontBut(R, f, L) PROVE FrontBut(Q, f, L \ K)
  <2>. SUFFICES ASSUME NEW g \in DOMAIN R, NEW i \in Items(g),
                      ~(RequestType[g] = RequestType[f] /\ i \in L \ K),
                      Q[g][i] # INFLIGHT,
                      \A h \in Queue(Q, g, i) : h < g => Q[h][i] # INFLIGHT
               PROVE  "RELEASED" \in Q[g][i]
    BY <1>4 DEF FrontBut
  <2>1. R[g][i] # INFLIGHT
    BY <1>12
  <2>2. \A h \in Queue(R, g, i) : h < g => R[h][i] # INFLIGHT
    BY <1>4, <1>12 DEF Queue
  <2>3. CASE RequestType[g] = RequestType[f] /\ i \in K
    <3>1. Queue(R, f, i) = Queue(R, g, i)
      BY <2>3 DEF Queue
    <3>2. R[g][i] \cap {"ERROR", "VALID"} # {}
      BY <1>1, <2>1 DEF StatusSound, StatusOf
    <3>3. "RELEASED" \in R[g][i] \/ g \in A(i)
      BY <1>6, <2>2, <2>3, <3>1, <3>2
    <3>. QED BY <1>12, <2>3, <3>3
  <2>4. CASE ~(RequestType[g] = RequestType[f] /\ i \in K)
    <3>1. "RELEASED" \in R[g][i]
      BY <1>23, <2>1, <2>2, <2>4 DEF FrontBut
    <3>. QED BY <1>12, <3>1
  <2>. QED BY <2>3, <2>4
<1>. QED BY <1>4, <1>19, <1>21, <1>22, <1>23 DEF Q, R

(***************************************************************************)
(* Telling the error of f, if what has come of it says which.              *)
(***************************************************************************)
LEMMA ErrorsKeeps ==
  ASSUME NEW X, NEW S, NEW f \in DOMAIN X.requests, NEW L, Core(X, S),
         NotifiedBut(X.requests, f),
         NEW Y, Y = PrepareCallbackErrors(X, f)
  PROVE  /\ Core(Y, S)
         /\ DOMAIN Y.requests = DOMAIN X.requests
         /\ Notified(Y.requests)
         /\ FrontBut(X.requests, f, L) => FrontBut(Y.requests, f, L)
<1>a. X \in Updates /\ X.requests[f] \in [Items(f) -> SUBSET Status]
  BY DEF Core, MapSound
<1>b. /\ Y = UpdateRec(Y.requests, X.out.items, Y.out.errors, X.out.removable)
      /\ Y.out.items = X.out.items /\ Y.out.removable = X.out.removable
      /\ DOMAIN Y.requests = DOMAIN X.requests
      /\ Y.requests = [g \in DOMAIN X.requests |-> Y.requests[g]]
      /\ \A g \in DOMAIN X.requests : g # f => Y.requests[g] = X.requests[g]
      /\ DOMAIN Y.requests[f] = Items(f)
      /\ Y.requests[f] = [i \in Items(f) |-> Y.requests[f][i]]
      /\ \A i \in Items(f) : Y.requests[f][i] =
           IF i = "result" /\ NewErrorOf(X.requests[f], f) # {}
           THEN X.requests[f][i] \cup {"NOTIFIED"} ELSE X.requests[f][i]
      /\ Y.out.errors = X.out.errors \cup ({f} \X NewErrorOf(X.requests[f], f))
  <2>1. ErrorsMade(X, f, Y)
    BY <1>a, ErrorsAre
  <2>. QED BY <2>1, Zenon DEF ErrorsMade
<1>. DEFINE R == X.requests
            Q == Y.requests
            r == R[f]
            now == NewErrorOf(r, f)
<1>0. X \in Updates /\ MapSound(X) /\ StatusSound(R, S) /\ ItemsSound(X, S)
      /\ ErrorsSound(X, S) /\ EldersReleased(X)
  BY DEF Core
<1>1. \A g \in DOMAIN R : R[g] \in [Items(g) -> SUBSET Status]
  BY <1>0 DEF MapSound
<1>2. /\ Y = UpdateRec(Q, X.out.items, Y.out.errors, X.out.removable)
      /\ Y.out.items = X.out.items /\ Y.out.removable = X.out.removable
      /\ DOMAIN Q = DOMAIN R
      /\ Q = [g \in DOMAIN R |-> Q[g]]
      /\ \A g \in DOMAIN R : g # f => Q[g] = R[g]
      /\ DOMAIN Q[f] = Items(f) /\ Q[f] = [i \in Items(f) |-> Q[f][i]]
      /\ \A i \in Items(f) : Q[f][i] =
           IF i = "result" /\ now # {} THEN r[i] \cup {"NOTIFIED"} ELSE r[i]
      /\ Y.out.errors = X.out.errors \cup ({f} \X now)
  BY <1>b, Zenon
<1>3. /\ DOMAIN R \subseteq Frames
      /\ X.out.items \in SUBSET UNION {{g} \X Items(g) \X Statuses : g \in Frames}
      /\ X.out.errors \in SUBSET (Frames \X {"ERROR_RESULT", "ERROR_REQUEST"})
      /\ X.out.removable \in SUBSET Frames
  BY <1>0, UpdateIs
<1>4. "result" \in Items(f) /\ \A s \in StreamsOf[f] : s \in Items(f) /\ s # "shutter" /\ s # "result"
  BY <1>3, StreamsAssumption DEF Items
<1>5. now \subseteq {"ERROR_RESULT", "ERROR_REQUEST"}
  BY DEF Error, NewErrorOf
<1>6. \A s \in StreamsOf[f] :
        /\ "ERROR" \in r[s] => <<f, s, "ERROR">> \in S
        /\ "VALID" \in r[s] => <<f, s, "OK">> \in S
  <2>. SUFFICES ASSUME NEW s \in StreamsOf[f]
               PROVE  /\ "ERROR" \in r[s] => <<f, s, "ERROR">> \in S
                      /\ "VALID" \in r[s] => <<f, s, "OK">> \in S
    OBVIOUS
  <2>1. StatusOf(r[s], f, s, S)
    BY <1>0, <1>4 DEF StatusSound
  <2>. QED BY <1>4, <2>1 DEF StatusOf, Failure
<1>7. now # {} => <<f, "result", "ERROR">> \in S /\ "NOTIFIED" \notin r["result"]
  <2>1. StatusOf(r["result"], f, "result", S)
    BY <1>0, <1>4 DEF StatusSound
  <2>. QED BY <2>1 DEF StatusOf, Failure, NewErrorOf
<1>8. /\ "ERROR_REQUEST" \in now => \A s \in StreamsOf[f] : <<f, s, "ERROR">> \in S
      /\ "ERROR_RESULT" \in now => \E s \in StreamsOf[f] : <<f, s, "OK">> \in S
  <2>1. "ERROR_REQUEST" \in now => AllFailed(r, f)
    BY DEF NewErrorOf, Error
  <2>2. "ERROR_RESULT" \in now => OneValid(r, f)
    BY DEF NewErrorOf, Error
  <2>3. AllFailed(r, f) => \A s \in StreamsOf[f] : <<f, s, "ERROR">> \in S
    BY <1>6, Zenon DEF AllFailed
  <2>4. OneValid(r, f) => \E s \in StreamsOf[f] : <<f, s, "OK">> \in S
    BY <1>6, Zenon DEF OneValid
  <2>. QED BY <2>1, <2>2, <2>3, <2>4, Zenon
<1>9. "ERROR" \in r["result"] /\ Error(r, f) # {} => "NOTIFIED" \in r["result"] \/ now # {}
  BY DEF NewErrorOf
<1>. HIDE DEF R, Q, r, now
<1>10. \A g \in DOMAIN R : \A i \in Items(g) :
         /\ \A b : b # "NOTIFIED" => (b \in Q[g][i] <=> b \in R[g][i])
         /\ "NOTIFIED" \in Q[g][i]
              <=> "NOTIFIED" \in R[g][i] \/ (g = f /\ i = "result" /\ now # {})
         /\ Q[g][i] \subseteq R[g][i] \cup {"NOTIFIED"}
  <2>. SUFFICES ASSUME NEW g \in DOMAIN R, NEW i \in Items(g)
               PROVE  /\ \A b : b # "NOTIFIED" => (b \in Q[g][i] <=> b \in R[g][i])
                      /\ "NOTIFIED" \in Q[g][i]
                           <=> "NOTIFIED" \in R[g][i] \/ (g = f /\ i = "result" /\ now # {})
                      /\ Q[g][i] \subseteq R[g][i] \cup {"NOTIFIED"}
    OBVIOUS
  <2>1. CASE g = f
    <3>1. Q[g][i] = IF i = "result" /\ now # {} THEN R[g][i] \cup {"NOTIFIED"} ELSE R[g][i]
      BY <1>2, <2>1 DEF r
    <3>. QED BY <2>1, <3>1
  <2>2. CASE g # f
    BY <1>2, <2>2
  <2>. QED BY <2>1, <2>2
<1>11. \A g \in DOMAIN R : \A i \in Items(g) : Q[g][i] = INFLIGHT <=> R[g][i] = INFLIGHT
  <2>1. now # {} => "ERROR" \in R[f]["result"]
    BY DEF now, r, NewErrorOf
  <2>. QED BY <1>10, <2>1 DEF INFLIGHT
<1>12. \A g \in DOMAIN R : Q[g] \in [Items(g) -> SUBSET Status]
  <2>. SUFFICES ASSUME NEW g \in DOMAIN R PROVE Q[g] \in [Items(g) -> SUBSET Status]
    OBVIOUS
  <2>1. Q[g] = [i \in Items(g) |-> Q[g][i]]
    BY <1>1, <1>2
  <2>2. ASSUME NEW i \in Items(g) PROVE Q[g][i] \in SUBSET Status
    <3>1. R[g][i] \in SUBSET Status
      BY <1>1
    <3>2. Q[g][i] \subseteq R[g][i] \cup {"NOTIFIED"}
      BY <1>10
    <3>. QED BY <3>1, <3>2 DEF Status
  <2>. QED BY <2>1, <2>2
<1>13. Y \in Updates
  <2>1. DOMAIN R \in SUBSET Frames
    BY <1>3
  <2>2. Y.out.errors \in SUBSET (Frames \X {"ERROR_RESULT", "ERROR_REQUEST"})
    BY <1>2, <1>3, <1>5 DEF R
  <2>3. UpdateRec(Q, X.out.items, Y.out.errors, X.out.removable) \in Updates
    BY <1>2, <1>3, <1>12, <2>1, <2>2, IsUpdate, Zenon
  <2>. QED BY <1>2, <2>3
<1>14. MapSound(Y)
  BY <1>0, <1>2, <1>12 DEF MapSound, Q, R
<1>15. StatusSound(Q, S)
  <2>. SUFFICES ASSUME NEW g \in DOMAIN R, NEW i \in Items(g) PROVE StatusOf(Q[g][i], g, i, S)
    BY <1>2 DEF StatusSound
  <2>1. StatusOf(R[g][i], g, i, S)
    BY <1>0 DEF StatusSound
  <2>2. \A b : b # "NOTIFIED" => (b \in Q[g][i] <=> b \in R[g][i])
    BY <1>10
  <2>3. Q[g][i] = INFLIGHT <=> R[g][i] = INFLIGHT
    BY <1>11
  <2>. QED BY <2>1, <2>2, <2>3 DEF StatusOf
<1>16. \A g \in DOMAIN R : \A i \in Items(g) : "RELEASED" \in Q[g][i] <=> "RELEASED" \in R[g][i]
  BY <1>10
<1>17. ItemsSound(Y, S)
  BY <1>0, <1>2, <1>16 DEF ItemsSound, Made, Q, R
<1>18. \A g : Erred(Y, g) <=> Erred(X, g) \/ (g = f /\ now # {})
  BY <1>2, <1>5 DEF Erred
<1>19. ErrorsSound(Y, S)
  <2>1. \A g \in DOMAIN R :
          "NOTIFIED" \in Q[g]["result"] <=> WasNotified(g) \/ Erred(Y, g)
    <3>1. \A g \in DOMAIN R : "result" \in Items(g)
      BY DEF Items
    <3>2. \A g \in DOMAIN R : "NOTIFIED" \in R[g]["result"] <=> WasNotified(g) \/ Erred(X, g)
      BY <1>0 DEF ErrorsSound, R
    <3>. QED BY <1>10, <1>18, <3>1, <3>2
  <2>2. \A g \in X.out.removable :
          \/ <<g, "result", "OK">> \in S
          \/ <<g, "result", "ERROR">> \in S /\ (WasNotified(g) \/ Erred(Y, g))
    <3>. SUFFICES ASSUME NEW g \in X.out.removable
                 PROVE  \/ <<g, "result", "OK">> \in S
                        \/ <<g, "result", "ERROR">> \in S /\ (WasNotified(g) \/ Erred(Y, g))
      BY Zenon
    <3>1. \/ <<g, "result", "OK">> \in S
          \/ <<g, "result", "ERROR">> \in S /\ (WasNotified(g) \/ Erred(X, g))
      BY <1>0 DEF ErrorsSound
    <3>. QED BY <1>18, <3>1
  <2>3. ASSUME NEW g \in Frames
        PROVE  /\ Erred(Y, g) => /\ g \in DOMAIN mRequestMap /\ ~WasNotified(g)
                                  /\ <<g, "result", "ERROR">> \in S
               /\ <<g, "ERROR_REQUEST">> \in Y.out.errors =>
                     \A s \in StreamsOf[g] : <<g, s, "ERROR">> \in S
               /\ <<g, "ERROR_RESULT">> \in Y.out.errors =>
                     \E s \in StreamsOf[g] : <<g, s, "OK">> \in S
    <3>1. /\ Erred(X, g) => /\ g \in DOMAIN mRequestMap /\ ~WasNotified(g)
                            /\ <<g, "result", "ERROR">> \in S
          /\ <<g, "ERROR_REQUEST">> \in X.out.errors =>
                \A s \in StreamsOf[g] : <<g, s, "ERROR">> \in S
          /\ <<g, "ERROR_RESULT">> \in X.out.errors =>
                \E s \in StreamsOf[g] : <<g, s, "OK">> \in S
      BY <1>0 DEF ErrorsSound
    <3>2. now # {} => f \in DOMAIN mRequestMap /\ ~WasNotified(f)
      BY <1>0, <1>7 DEF MapSound, ErrorsSound, R, r
    <3>3. \A e : <<g, e>> \in Y.out.errors <=> <<g, e>> \in X.out.errors \/ (g = f /\ e \in now)
      BY <1>2
    <3>. QED BY <1>7, <1>8, <1>18, <3>1, <3>2, <3>3
  <2>. QED BY <1>2, <2>1, <2>2, <2>3 DEF ErrorsSound, Q, R
<1>20. EldersReleased(Y)
  <2>. SUFFICES ASSUME NEW e \in Frames, NEW g \in DOMAIN R, Earlier(g, e),
                      NEW i \in Items(e) \cap Items(g), <<e, i, "OK">> \in X.out.items
               PROVE  "RELEASED" \in Q[g][i]
    BY <1>2 DEF EldersReleased, Q, R
  <2>1. "RELEASED" \in R[g][i]
    BY <1>0 DEF EldersReleased, R
  <2>. QED BY <1>16, <2>1
<1>21. Core(Y, S)
  BY <1>13, <1>14, <1>15, <1>17, <1>19, <1>20 DEF Core, Q
<1>22. NotifiedOf(Q[f], f)
  <2>1. \A i \in Items(f) : "ERROR" \in Q[f][i] <=> "ERROR" \in r[i]
    BY <1>10 DEF r, R
  <2>2. \A i \in Items(f) : "VALID" \in Q[f][i] <=> "VALID" \in r[i]
    BY <1>10 DEF r, R
  <2>3. Error(Q[f], f) = Error(r, f)
    BY <1>4, <2>1, <2>2 DEF Error, OneValid, AllFailed
  <2>4. "NOTIFIED" \in Q[f]["result"] <=> "NOTIFIED" \in r["result"] \/ now # {}
    BY <1>4, <1>10 DEF r, R
  <2>. QED BY <1>4, <1>9, <2>1, <2>3, <2>4 DEF NotifiedOf
<1>23. Notified(Q)
  <2>. SUFFICES ASSUME NEW g \in DOMAIN R PROVE NotifiedOf(Q[g], g)
    BY <1>2 DEF Notified
  <2>1. CASE g = f
    BY <1>22, <2>1
  <2>2. CASE g # f
    BY <1>2, <2>2 DEF NotifiedBut, R
  <2>. QED BY <2>1, <2>2
<1>24. FrontBut(R, f, L) => FrontBut(Q, f, L)
  <2>. SUFFICES ASSUME FrontBut(R, f, L), NEW g \in DOMAIN R, NEW i \in Items(g),
                      ~(RequestType[g] = RequestType[f] /\ i \in L),
                      Q[g][i] # INFLIGHT,
                      \A h \in Queue(Q, g, i) : h < g => Q[h][i] # INFLIGHT
               PROVE  "RELEASED" \in Q[g][i]
    BY <1>2 DEF FrontBut
  <2>1. R[g][i] # INFLIGHT
    BY <1>11
  <2>2. \A h \in Queue(R, g, i) : h < g => R[h][i] # INFLIGHT
    BY <1>2, <1>11 DEF Queue
  <2>3. "RELEASED" \in R[g][i]
    BY <2>1, <2>2 DEF FrontBut
  <2>. QED BY <1>16, <2>3
<1>. QED BY <1>2, <1>21, <1>23, <1>24 DEF Q, R

(***************************************************************************)
(* Removing what has been released: nothing of a frame is left untold.     *)
(***************************************************************************)
LEMMA RemoveKeeps ==
  ASSUME NEW X, NEW S, NEW f, Core(X, S), Notified(X.requests), FrontReleased(X.requests),
         NEW Y, Y = RemoveRequests(X, f)
  PROVE  Good(Y, S)
<1>. DEFINE R == X.requests
            Q == Y.requests
            V == {g \in DOMAIN R :
                    /\ IsRemovable(R[g])
                    /\ g = f \/ \A h \in DOMAIN R : h < g => IsRemovable(R[h])}
<1>0. X \in Updates /\ MapSound(X) /\ StatusSound(R, S) /\ ItemsSound(X, S)
      /\ ErrorsSound(X, S) /\ EldersReleased(X)
  BY DEF Core
<1>a. Y = Remove(X, V)
  BY Zenon DEF RemoveRequests
<1>1. /\ Y = UpdateRec(Q, X.out.items, X.out.errors, Y.out.removable)
      /\ Y.out.items = X.out.items /\ Y.out.errors = X.out.errors
      /\ Y.out.removable = X.out.removable \cup V
      /\ DOMAIN Q = DOMAIN R \ V
      /\ Q = [g \in DOMAIN R \ V |-> Q[g]]
      /\ \A g \in DOMAIN R \ V : Q[g] = R[g]
  <2>. HIDE DEF V
  <2>. QED BY <1>0, <1>a, RemoveIs
<1>2. /\ DOMAIN R \subseteq Frames
      /\ X.out.items \in SUBSET UNION {{g} \X Items(g) \X Statuses : g \in Frames}
      /\ X.out.errors \in SUBSET (Frames \X {"ERROR_RESULT", "ERROR_REQUEST"})
      /\ X.out.removable \in SUBSET Frames
  BY <1>0, UpdateIs
<1>3. \A g \in DOMAIN R : R[g] \in [Items(g) -> SUBSET Status]
  BY <1>0 DEF MapSound
<1>4. V \subseteq DOMAIN R /\ \A g \in V : \A i \in Items(g) : "RELEASED" \in R[g][i]
  BY <1>3 DEF IsRemovable
<1>5. \A g \in DOMAIN R \ V : IsRemovable(R[g]) =>
        \E h \in DOMAIN R : h < g /\ ~IsRemovable(R[h])
  OBVIOUS
<1>6. \A g \in V : IsRemovable(R[g])
  OBVIOUS
<1>. HIDE DEF R, Q, V
<1>7. Y \in Updates
  <2>1. DOMAIN R \ V \in SUBSET Frames /\ Y.out.removable \in SUBSET Frames
    BY <1>1, <1>2, <1>4
  <2>2. \A g \in DOMAIN R \ V : Q[g] \in [Items(g) -> SUBSET Status]
    BY <1>1, <1>3
  <2>3. UpdateRec(Q, X.out.items, X.out.errors, Y.out.removable) \in Updates
    BY <1>1, <1>2, <2>1, <2>2, IsUpdate, Zenon
  <2>. QED BY <1>1, <2>3
<1>8. MapSound(Y)
  <2>1. \A g \in DOMAIN Q : Q[g] \in [Items(g) -> SUBSET Status]
    BY <1>1, <1>3
  <2>2. X.out.removable \subseteq DOMAIN mRequestMap /\ DOMAIN R = DOMAIN mRequestMap \ X.out.removable
    BY <1>0 DEF MapSound, R
  <2>3. DOMAIN Q = DOMAIN mRequestMap \ Y.out.removable
    BY <1>1, <2>2
  <2>4. Y.out.removable \subseteq DOMAIN mRequestMap
    BY <1>1, <1>4, <2>2
  <2>. QED BY <2>1, <2>3, <2>4 DEF MapSound, Q
<1>9. StatusSound(Q, S)
  BY <1>0, <1>1 DEF StatusSound
<1>10. ItemsSound(Y, S)
  <2>1. \A g \in DOMAIN Q : \A i \in Items(g) :
          "RELEASED" \in Q[g][i] <=> WasReleased(g, i) \/ Made(Y, g, i)
    BY <1>0, <1>1 DEF ItemsSound, Made, R
  <2>2. \A g \in Y.out.removable : \A i \in Items(g) : WasReleased(g, i) \/ Made(Y, g, i)
    BY <1>0, <1>1, <1>4 DEF ItemsSound, Made, R
  <2>3. \A g \in Frames : \A i \in Items(g) :
          /\ Made(Y, g, i) => g \in DOMAIN mRequestMap /\ ~WasReleased(g, i)
          /\ <<g, i, "OK">> \in Y.out.items => <<g, i, "OK">> \in S
          /\ <<g, i, "ERROR">> \in Y.out.items => Failure(g, i) \in S
    BY <1>0, <1>1 DEF ItemsSound, Made
  <2>. QED BY <2>1, <2>2, <2>3 DEF ItemsSound, Q
<1>11. \A g : Erred(Y, g) <=> Erred(X, g)
  BY <1>1 DEF Erred
<1>12. ASSUME NEW g \in V
       PROVE  \/ <<g, "result", "OK">> \in S
              \/ <<g, "result", "ERROR">> \in S /\ (WasNotified(g) \/ Erred(X, g))
  <2>1. \A i \in Items(g) : "ERROR" \in R[g][i] \/ "VALID" \in R[g][i]
    <3>. SUFFICES ASSUME NEW i \in Items(g) PROVE "ERROR" \in R[g][i] \/ "VALID" \in R[g][i]
      OBVIOUS
    <3>1. StatusOf(R[g][i], g, i, S)
      BY <1>0, <1>4 DEF StatusSound
    <3>2. R[g][i] # INFLIGHT
      BY <1>4 DEF INFLIGHT
    <3>. QED BY <3>1, <3>2 DEF StatusOf
  <2>2. "result" \in Items(g) /\ StreamsOf[g] \subseteq Items(g)
    BY DEF Items
  <2>3. StatusOf(R[g]["result"], g, "result", S)
    BY <1>0, <1>4, <2>2 DEF StatusSound
  <2>4. CASE "ERROR" \in R[g]["result"]
    <3>1. AllFailed(R[g], g) \/ OneValid(R[g], g)
      BY <2>1, <2>2 DEF AllFailed, OneValid
    <3>2. Error(R[g], g) # {}
      BY <3>1 DEF Error
    <3>3. "NOTIFIED" \in R[g]["result"]
      BY <1>4, <2>4, <3>2 DEF Notified, NotifiedOf, R
    <3>4. WasNotified(g) \/ Erred(X, g)
      BY <1>0, <1>4, <3>3 DEF ErrorsSound, R
    <3>. QED BY <2>3, <2>4, <3>4 DEF StatusOf, Failure
  <2>5. CASE "ERROR" \notin R[g]["result"]
    BY <2>1, <2>2, <2>3, <2>5 DEF StatusOf
  <2>. QED BY <2>4, <2>5
<1>13. ErrorsSound(Y, S)
  <2>1. \A g \in DOMAIN Q : "NOTIFIED" \in Q[g]["result"] <=> WasNotified(g) \/ Erred(Y, g)
    BY <1>0, <1>1, <1>11 DEF ErrorsSound, R
  <2>2. ASSUME NEW g \in Y.out.removable
        PROVE  \/ <<g, "result", "OK">> \in S
               \/ <<g, "result", "ERROR">> \in S /\ (WasNotified(g) \/ Erred(Y, g))
    <3>1. CASE g \in V
      BY <1>11, <1>12, <3>1
    <3>2. CASE g \in X.out.removable
      BY <1>0, <1>11, <3>2 DEF ErrorsSound
    <3>. QED BY <1>1, <3>1, <3>2
  <2>3. \A g \in Frames :
         /\ Erred(Y, g) => /\ g \in DOMAIN mRequestMap /\ ~WasNotified(g)
                           /\ <<g, "result", "ERROR">> \in S
         /\ <<g, "ERROR_REQUEST">> \in Y.out.errors => \A s \in StreamsOf[g] : <<g, s, "ERROR">> \in S
         /\ <<g, "ERROR_RESULT">> \in Y.out.errors => \E s \in StreamsOf[g] : <<g, s, "OK">> \in S
    BY <1>0, <1>1, <1>11 DEF ErrorsSound
  <2>. QED BY <2>1, <2>2, <2>3 DEF ErrorsSound, Q
<1>14. EldersReleased(Y)
  <2>. SUFFICES ASSUME NEW e \in Frames, NEW g \in DOMAIN Q, Earlier(g, e),
                      NEW i \in Items(e) \cap Items(g), <<e, i, "OK">> \in Y.out.items
               PROVE  "RELEASED" \in Q[g][i]
    BY DEF EldersReleased, Q
  <2>1. g \in DOMAIN R /\ Q[g] = R[g] /\ <<e, i, "OK">> \in X.out.items
    BY <1>1
  <2>. QED BY <1>0, <2>1 DEF EldersReleased, R
<1>15. Core(Y, S)
  BY <1>7, <1>8, <1>9, <1>10, <1>13, <1>14 DEF Core, Q
<1>16. Notified(Q)
  BY <1>1 DEF Notified, R
<1>17. FrontReleased(Q)
  <2>. SUFFICES ASSUME NEW g \in DOMAIN R \ V, NEW i \in Items(g), R[g][i] # INFLIGHT,
                      \A h \in Queue(Q, g, i) : h < g => Q[h][i] # INFLIGHT
               PROVE  "RELEASED" \in R[g][i]
    BY <1>1 DEF FrontReleased
  <2>1. ASSUME NEW h \in Queue(R, g, i), h < g PROVE R[h][i] # INFLIGHT
    <3>1. CASE h \in V
      BY <1>4, <3>1 DEF Queue, INFLIGHT
    <3>2. CASE h \notin V
      <4>1. h \in Queue(Q, g, i)
        BY <1>1, <3>2 DEF Queue
      <4>2. h \in DOMAIN R \ V
        BY <3>2 DEF Queue
      <4>. QED BY <1>1, <2>1, <4>1, <4>2
    <3>. QED BY <3>1, <3>2
  <2>. QED BY <2>1 DEF FrontReleased, R
<1>18. FrontRemoved(Q)
  <2>. SUFFICES ASSUME NEW g \in DOMAIN R \ V, IsRemovable(R[g])
               PROVE  \E h \in DOMAIN Q : h < g /\ ~IsRemovable(Q[h])
    BY <1>1 DEF FrontRemoved
  <2>1. PICK h \in DOMAIN R : h < g /\ ~IsRemovable(R[h])
    BY <1>5
  <2>2. h \in DOMAIN R \ V
    BY <1>6, <2>1
  <2>. QED BY <1>1, <2>1, <2>2
<1>. QED BY <1>15, <1>16, <1>17, <1>18 DEF Good, Q
(***************************************************************************)
(* What every call ends with: the queues of the items in K are released,   *)
(* and what is done with is removed.                                       *)
(***************************************************************************)
LEMMA EndKeeps ==
  ASSUME NEW X, NEW S, NEW f \in Frames, NEW K \in SUBSET Items(f), NEW L, L \subseteq K,
         Core(X, S), Notified(X.requests), FrontBut(X.requests, f, L),
         NEW Y, Y = RemoveRequests(PrepareCallback(X, f, K), f)
  PROVE  Good(Y, S)
<1>. DEFINE P == PrepareCallback(X, f, K)
<1>1. /\ Core(P, S) /\ Notified(P.requests)
      /\ FrontBut(P.requests, f, L \ K)
  BY PrepareKeeps, Zenon
<1>. HIDE DEF P
<1>2. FrontReleased(P.requests)
  BY <1>1 DEF FrontReleased, FrontBut
<1>3. Y = RemoveRequests(P, f)
  BY DEF P
<1>. QED BY <1>1, <1>2, <1>3, RemoveKeeps, Zenon

\* Marking items in K disturbs the queues of K only, and no other frame's error.
LEMMA MarkFront ==
  ASSUME NEW X \in Updates, NEW f \in DOMAIN X.requests, NEW m, NEW K,
         \A i \in Items(f) : i \notin K => m[i] = X.requests[f][i],
         FrontReleased(X.requests), Notified(X.requests),
         NEW Y, Y = MarkOf(X, f, m)
  PROVE  /\ FrontBut(Y.requests, f, K) /\ NotifiedBut(Y.requests, f)
         /\ NotifiedOf(m, f) => Notified(Y.requests)
<1>a. /\ Y = UpdateRec(Y.requests, X.out.items, X.out.errors, X.out.removable)
      /\ Y.out = X.out /\ DOMAIN Y.requests = DOMAIN X.requests
      /\ Y.requests = [g \in DOMAIN X.requests |-> Y.requests[g]]
      /\ Y.requests[f] = m
      /\ \A g \in DOMAIN X.requests : g # f => Y.requests[g] = X.requests[g]
  BY MarkIs
<1>. DEFINE R == X.requests
            Q == Y.requests
<1>1. /\ DOMAIN Q = DOMAIN R /\ Q[f] = m
      /\ \A g \in DOMAIN R : g # f => Q[g] = R[g]
  BY <1>a
<1>2. \A g \in DOMAIN R : \A i \in Items(g) : g # f \/ i \notin K => Q[g][i] = R[g][i]
  BY <1>1
<1>3. NotifiedBut(Q, f)
  BY <1>1 DEF NotifiedBut, Notified
<1>4. NotifiedOf(m, f) => Notified(Q)
  BY <1>1 DEF Notified
<1>. HIDE DEF Q, R
<1>5. FrontBut(Q, f, K)
  <2>. SUFFICES ASSUME NEW g \in DOMAIN R, NEW i \in Items(g),
                      ~(RequestType[g] = RequestType[f] /\ i \in K),
                      Q[g][i] # INFLIGHT,
                      \A h \in Queue(Q, g, i) : h < g => Q[h][i] # INFLIGHT
               PROVE  "RELEASED" \in Q[g][i]
    BY <1>1 DEF FrontBut
  <2>1. \A h \in Queue(R, g, i) : h \in Queue(Q, g, i) /\ Q[h][i] = R[h][i]
    BY <1>1, <1>2 DEF Queue
  <2>2. Q[g][i] = R[g][i]
    BY <1>2
  <2>. QED BY <2>1, <2>2 DEF FrontReleased, R
<1>. QED BY <1>1, <1>3, <1>4, <1>5 DEF Q, R

\* More results of f are seen, of which its status in the map knows already.
LEMMA SeenGood ==
  ASSUME NEW X, NEW S, NEW T, NEW f, Good(X, S), OnlyOf(X.requests, f, S, T),
         f \in DOMAIN X.requests => \A i \in Items(f) : StatusOf(X.requests[f][i], f, i, T)
  PROVE  Good(X, T)
<1>1. StatusSound(X.requests, T)
  BY OthersSound DEF Good, Core, StatusSound
<1>2. ItemsSound(X, T) /\ ErrorsSound(X, T)
  BY SeenMore DEF Good, Core, OnlyOf
<1>. QED BY <1>1, <1>2 DEF Good, Core
(***************************************************************************)
(* The four calls, when what they are called with has just come.           *)
(***************************************************************************)
LEMMA NotifyShutterKeeps ==
  ASSUME NEW X, NEW S, NEW f \in Frames, Good(X, S),
         NEW Y, Y = NotifyShutter(X, f)
  PROVE  Good(Y, S \cup {<<f, "shutter", "OK">>})
<1>. DEFINE R == X.requests
            T == S \cup {<<f, "shutter", "OK">>}
            m == [R[f] EXCEPT !["shutter"] = {"VALID"}]
            M == MarkOf(X, f, m)
<1>1. X \in Updates /\ StatusSound(R, S) /\ Core(X, S) /\ Notified(R) /\ FrontReleased(R)
  BY DEF Good, Core
<1>2. OnlyOf(R, f, S, T)
  BY DEF OnlyOf
<1>3. CASE f \notin DOMAIN R \/ R[f]["shutter"] # INFLIGHT
  <2>1. Y = X
    BY <1>3 DEF NotifyShutter
  <2>2. ASSUME f \in DOMAIN R, NEW i \in Items(f) PROVE StatusOf(R[f][i], f, i, T)
    <3>1. StatusOf(R[f][i], f, i, S)
      BY <1>1, <2>2 DEF StatusSound
    <3>2. Failure(f, i) \in T <=> Failure(f, i) \in S
      BY DEF Failure
    <3>3. <<f, i, "OK">> \in T <=> <<f, i, "OK">> \in S \/ i = "shutter"
      OBVIOUS
    <3>. QED BY <1>3, <2>2, <3>1, <3>2, <3>3 DEF StatusOf
  <2>. HIDE DEF R, T
  <2>3. Good(X, T)
    BY <1>2, <2>2, SeenGood DEF R
  <2>. QED BY <2>1, <2>3 DEF T
<1>4. CASE f \in DOMAIN R /\ R[f]["shutter"] = INFLIGHT
  <2>0. f \in DOMAIN X.requests
    BY <1>4
  <2>1. R[f] \in [Items(f) -> SUBSET Status] /\ "shutter" \in Items(f) /\ "result" \in Items(f)
    BY <1>1, <1>4 DEF Core, MapSound, Items
  <2>2. /\ m \in [Items(f) -> SUBSET Status] /\ m["shutter"] = {"VALID"}
        /\ \A i \in Items(f) : i # "shutter" => m[i] = R[f][i]
    BY <2>1 DEF Status
  <2>3. Y = RemoveRequests(PrepareCallback(M, f, {"shutter"}), f)
    BY <1>4 DEF NotifyShutter, MarkOf
  <2>4. ASSUME NEW i \in Items(f)
        PROVE  /\ R[f][i] \subseteq m[i] /\ m[i] \ R[f][i] \subseteq {"ERROR", "VALID"}
               /\ StatusOf(m[i], f, i, T)
    <3>1. StatusOf(R[f][i], f, i, S)
      BY <1>1, <1>4 DEF StatusSound
    <3>2. Failure(f, i) \in T <=> Failure(f, i) \in S
      BY DEF Failure
    <3>3. <<f, i, "OK">> \in T <=> <<f, i, "OK">> \in S \/ i = "shutter"
      OBVIOUS
    <3>4. CASE i = "shutter"
      BY <1>4, <2>2, <3>1, <3>2, <3>3, <3>4 DEF StatusOf, INFLIGHT
    <3>5. CASE i # "shutter"
      BY <2>2, <3>1, <3>2, <3>3, <3>5 DEF StatusOf
    <3>. QED BY <3>4, <3>5
  <2>5. NotifiedOf(m, f)
    <3>1. \A s \in StreamsOf[f] : m[s] = R[f][s]
      BY <2>2 DEF Items
    <3>2. Error(m, f) = Error(R[f], f)
      BY <3>1 DEF Error, OneValid, AllFailed
    <3>3. NotifiedOf(R[f], f)
      BY <1>1, <1>4 DEF Notified
    <3>. QED BY <2>1, <2>2, <3>2, <3>3 DEF NotifiedOf
  <2>. HIDE DEF m, T
  <2>6. Core(M, T)
    BY <1>1, <1>2, <2>0, <2>2, <2>4, MarkKeeps
  <2>7. FrontBut(M.requests, f, {"shutter"}) /\ Notified(M.requests)
    BY <1>1, <2>0, <2>2, <2>5, MarkFront
  <2>. HIDE DEF M
  <2>8. {"shutter"} \in SUBSET Items(f)
    BY <2>1
  <2>9. Good(Y, T)
    BY <2>3, <2>6, <2>7, <2>8, EndKeeps
  <2>. QED BY <2>9 DEF T
<1>. QED BY <1>3, <1>4

\* receiveMetadataResults() of f's result keeps the map good.
LEMMA ReceiveResultKeeps ==
  ASSUME NEW X, NEW S, NEW f \in Frames, Good(X, S),
         NEW Y, Y = ReceiveResult(X, f)
  PROVE  Good(Y, S \cup {<<f, "result", "OK">>})
<1>. DEFINE R == X.requests
            T == S \cup {<<f, "result", "OK">>}
            m == [R[f] EXCEPT !["result"] = IF @ = INFLIGHT THEN {"VALID"} ELSE @]
            M == MarkOf(X, f, m)
<1>1. X \in Updates /\ StatusSound(R, S) /\ Core(X, S) /\ Notified(R) /\ FrontReleased(R)
  BY DEF Good, Core
<1>2. OnlyOf(R, f, S, T)
  BY DEF OnlyOf
<1>3. CASE f \notin DOMAIN R
  <2>1. Y = X
    BY <1>3 DEF ReceiveResult
  <2>. HIDE DEF R, T
  <2>2. Good(X, T)
    BY <1>2, <1>3, SeenGood DEF R
  <2>. QED BY <2>1, <2>2 DEF T
<1>4. CASE f \in DOMAIN R
  <2>0. f \in DOMAIN X.requests
    BY <1>4
  <2>1. R[f] \in [Items(f) -> SUBSET Status] /\ "result" \in Items(f)
    BY <1>1, <1>4 DEF Core, MapSound, Items
  <2>2. /\ m \in [Items(f) -> SUBSET Status]
        /\ m["result"] = IF R[f]["result"] = INFLIGHT THEN {"VALID"} ELSE R[f]["result"]
        /\ \A i \in Items(f) : i # "result" => m[i] = R[f][i]
    BY <2>1 DEF Status
  <2>3. Y = RemoveRequests(PrepareCallback(M, f, {"result"}), f)
    BY <1>4 DEF ReceiveResult, MarkOf
  <2>4. ASSUME NEW i \in Items(f)
        PROVE  /\ R[f][i] \subseteq m[i] /\ m[i] \ R[f][i] \subseteq {"ERROR", "VALID"}
               /\ StatusOf(m[i], f, i, T)
    <3>1. StatusOf(R[f][i], f, i, S)
      BY <1>1, <1>4 DEF StatusSound
    <3>2. Failure(f, i) \in T <=> Failure(f, i) \in S
      BY DEF Failure
    <3>3. <<f, i, "OK">> \in T <=> <<f, i, "OK">> \in S \/ i = "result"
      OBVIOUS
    <3>4. CASE i = "result"
      BY <2>2, <3>1, <3>2, <3>3, <3>4 DEF StatusOf, INFLIGHT
    <3>5. CASE i # "result"
      BY <2>2, <3>1, <3>2, <3>3, <3>5 DEF StatusOf
    <3>. QED BY <3>4, <3>5
  <2>5. NotifiedOf(m, f)
    <3>1. \A s \in StreamsOf[f] : m[s] = R[f][s]
      BY <2>2 DEF Items
    <3>2. Error(m, f) = Error(R[f], f)
      BY <3>1 DEF Error, OneValid, AllFailed
    <3>3. NotifiedOf(R[f], f)
      BY <1>1, <1>4 DEF Notified
    <3>. QED BY <2>1, <2>2, <3>2, <3>3 DEF NotifiedOf
  <2>. HIDE DEF m, T
  <2>6. Core(M, T)
    BY <1>1, <1>2, <2>0, <2>2, <2>4, MarkKeeps
  <2>7. FrontBut(M.requests, f, {"result"}) /\ Notified(M.requests)
    BY <1>1, <2>0, <2>2, <2>5, MarkFront
  <2>. HIDE DEF M
  <2>8. {"result"} \in SUBSET Items(f)
    BY <2>1
  <2>9. Good(Y, T)
    BY <2>3, <2>6, <2>7, <2>8, EndKeeps
  <2>. QED BY <2>9 DEF T
<1>. QED BY <1>3, <1>4

\* notifyErrors() of f's failed result keeps the map good.
LEMMA NotifyErrorKeeps ==
  ASSUME NEW X, NEW S, NEW f \in Frames, Good(X, S), f \in DOMAIN X.requests,
         NEW Y, Y = NotifyError(X, f)
  PROVE  Good(Y, S \cup {<<f, "result", "ERROR">>})
<1>. DEFINE R == X.requests
            T == S \cup {<<f, "result", "ERROR">>}
            L == {"shutter", "result"}
            m == [i \in Items(f) |-> IF i \in L THEN R[f][i] \cup {"ERROR"} ELSE R[f][i]]
            M == MarkOf(X, f, m)
            J == {"shutter"}
            P == PrepareCallback(M, f, J)
            E == PrepareCallbackErrors(P, f)
            K == Items(f) \ {"shutter"}
<1>1. X \in Updates /\ StatusSound(R, S) /\ Core(X, S) /\ Notified(R) /\ FrontReleased(R)
  BY DEF Good, Core
<1>2. OnlyOf(R, f, S, T)
  BY DEF OnlyOf
<1>3. R[f] \in [Items(f) -> SUBSET Status] /\ {"shutter", "result"} \in SUBSET Items(f)
  BY <1>1 DEF Core, MapSound, Items
<1>4. /\ m \in [Items(f) -> SUBSET Status]
      /\ \A i \in Items(f) : m[i] = IF i \in L THEN R[f][i] \cup {"ERROR"} ELSE R[f][i]
  BY <1>3 DEF Status
<1>6. Y = RemoveRequests(PrepareCallback(E, f, K), f)
  BY Zenon DEF NotifyError, MarkOf
<1>7. ASSUME NEW i \in Items(f)
      PROVE  /\ R[f][i] \subseteq m[i] /\ m[i] \ R[f][i] \subseteq {"ERROR", "VALID"}
             /\ StatusOf(m[i], f, i, T)
  <2>1. StatusOf(R[f][i], f, i, S)
    BY <1>1 DEF StatusSound
  <2>2. i \in {"shutter", "result"} => Failure(f, i) \in T
    BY DEF Failure
  <2>3. i \notin {"shutter", "result"} => (Failure(f, i) \in T <=> Failure(f, i) \in S)
    BY DEF Failure
  <2>4. <<f, i, "OK">> \in T <=> <<f, i, "OK">> \in S
    OBVIOUS
  <2>5. CASE i \in {"shutter", "result"}
    BY <1>4, <2>1, <2>2, <2>4, <2>5 DEF StatusOf, INFLIGHT
  <2>6. CASE i \notin {"shutter", "result"}
    BY <1>4, <2>1, <2>3, <2>4, <2>6 DEF StatusOf
  <2>. QED BY <2>5, <2>6
<1>. HIDE DEF m, T
<1>8. Core(M, T)
  BY <1>1, <1>2, <1>4, <1>7, MarkKeeps
<1>11. J \in SUBSET Items(f) /\ K \in SUBSET Items(f) /\ L \ J \subseteq K
  BY <1>3
<1>. HIDE DEF L
<1>9. FrontBut(M.requests, f, L) /\ NotifiedBut(M.requests, f)
  <2>1. \A i \in Items(f) : i \notin L => m[i] = R[f][i]
    BY <1>4
  <2>. QED BY <1>1, <2>1, MarkFront
<1>10. f \in DOMAIN M.requests
  BY <1>1, MarkDomain
<1>. HIDE DEF M
<1>12. /\ Core(P, T) /\ DOMAIN P.requests = DOMAIN M.requests
       /\ NotifiedBut(P.requests, f) /\ FrontBut(P.requests, f, L \ J)
  <2>. HIDE DEF J, K
  <2>. QED BY <1>8, <1>9, <1>11, PrepareKeeps
<1>. HIDE DEF P, J
<1>13. Core(E, T) /\ Notified(E.requests) /\ FrontBut(E.requests, f, L \ J)
  BY <1>10, <1>12, ErrorsKeeps
<1>. HIDE DEF E
<1>15. Good(Y, T)
  BY <1>6, <1>11, <1>13, EndKeeps, Zenon
<1>. QED BY <1>15 DEF T

\* receiveBuffers() of images that come for the first time keeps the map good.
LEMMA ReceiveBuffersKeeps ==
  ASSUME NEW X, NEW S, NEW f \in Frames, Good(X, S),
         NEW images, NEW D \in SUBSET StreamsOf[f], images \in [D -> Statuses],
         \A s \in D : \A e \in Statuses : <<f, s, e>> \notin S,
         NEW Y, Y = ReceiveBuffers(X, f, images)
  PROVE  Good(Y, S \cup {<<f, s, images[s]>> : s \in D})
<1>. DEFINE R == X.requests
            T == S \cup {<<f, s, images[s]>> : s \in D}
            m == [i \in Items(f) |-> IF i \in D THEN UpdateBufferStatus(R[f][i], images[i])
                                     ELSE R[f][i]]
            M == MarkOf(X, f, m)
            E == PrepareCallbackErrors(M, f)
<1>1. X \in Updates /\ StatusSound(R, S) /\ Core(X, S) /\ Notified(R) /\ FrontReleased(R)
  BY DEF Good, Core
<1>2. OnlyOf(R, f, S, T)
  BY DEF OnlyOf
<1>3. DOMAIN images = D /\ \A s \in D : images[s] \in Statuses
  OBVIOUS
<1>4. CASE f \notin DOMAIN R
  <2>1. Y = X
    BY <1>4 DEF ReceiveBuffers
  <2>. HIDE DEF R, T
  <2>2. Good(X, T)
    BY <1>2, <1>4, SeenGood DEF R
  <2>. QED BY <2>1, <2>2 DEF T
<1>5. CASE f \in DOMAIN R
  <2>0. f \in DOMAIN X.requests
    BY <1>5
  <2>1. R[f] \in [Items(f) -> SUBSET Status] /\ D \subseteq Items(f)
        /\ StreamsOf[f] \in SUBSET Items(f) /\ D \subseteq StreamsOf[f]
    BY <1>1, <1>5 DEF Core, MapSound, Items
  <2>2. Y = RemoveRequests(PrepareCallback(E, f, StreamsOf[f]), f)
    BY <1>3, <1>5, Zenon DEF ReceiveBuffers, MarkOf
  <2>3. ASSUME NEW i \in D
        PROVE  /\ R[f][i] = INFLIGHT /\ m[i] = IF images[i] = "ERROR" THEN {"ERROR"} ELSE {"VALID"}
               /\ i # "shutter" /\ i # "result"
               /\ StatusOf(m[i], f, i, T)
    <3>1. StatusOf(R[f][i], f, i, S)
      BY <1>1, <1>5, <2>1 DEF StatusSound
    <3>2. i # "shutter" /\ i # "result"
      BY StreamsAssumption
    <3>3. <<f, i, "OK">> \notin S /\ <<f, i, "ERROR">> \notin S
      BY DEF Statuses
    <3>4. R[f][i] = INFLIGHT
      BY <3>1, <3>2, <3>3 DEF StatusOf, Failure
    <3>5. m[i] = IF images[i] = "ERROR" THEN {"ERROR"} ELSE {"VALID"}
      BY <2>1, <3>4 DEF UpdateBufferStatus
    <3>6. images[i] \in {"OK", "ERROR"}
      BY <1>3 DEF Statuses
    <3>7. \A e \in Statuses : <<f, i, e>> \in T <=> images[i] = e
      BY <3>3 DEF Statuses
    <3>8. Failure(f, i) \in T <=> images[i] = "ERROR"
      BY <3>2, <3>7 DEF Failure, Statuses
    <3>9. <<f, i, "OK">> \in T <=> images[i] = "OK"
      BY <3>7 DEF Statuses
    <3>. HIDE DEF m, T
    <3>10. StatusOf(m[i], f, i, T)
      BY <3>5, <3>6, <3>8, <3>9 DEF StatusOf, INFLIGHT
    <3>. QED BY <3>2, <3>4, <3>5, <3>10
  <2>4. ASSUME NEW i \in Items(f), i \notin D
        PROVE  m[i] = R[f][i] /\ StatusOf(m[i], f, i, T)
    <3>1. StatusOf(R[f][i], f, i, S)
      BY <1>1, <1>5 DEF StatusSound
    <3>2. \A e \in Statuses : <<f, i, e>> \in T <=> <<f, i, e>> \in S
      BY <2>4
    <3>3. Failure(f, i) \in T <=> Failure(f, i) \in S
      <4>1. "result" \notin D
        BY StreamsAssumption
      <4>. QED BY <2>4, <4>1 DEF Failure
    <3>4. m[i] = R[f][i]
      BY <2>4
    <3>5. <<f, i, "OK">> \in T <=> <<f, i, "OK">> \in S
      BY <3>2 DEF Statuses
    <3>. HIDE DEF m, T
    <3>. QED BY <3>1, <3>3, <3>4, <3>5 DEF StatusOf
  <2>5. m = [i \in Items(f) |-> m[i]]
    OBVIOUS
  <2>. HIDE DEF m, T
  <2>6. ASSUME NEW i \in Items(f)
        PROVE  /\ R[f][i] \subseteq m[i] /\ m[i] \ R[f][i] \subseteq {"ERROR", "VALID"}
               /\ StatusOf(m[i], f, i, T)
    <3>1. CASE i \in D
      BY <2>3, <3>1 DEF INFLIGHT
    <3>2. CASE i \notin D
      BY <2>4, <3>2
    <3>. QED BY <3>1, <3>2
  <2>7. m \in [Items(f) -> SUBSET Status]
    <3>1. \A i \in Items(f) : R[f][i] \in SUBSET Status
      BY <2>1
    <3>2. \A i \in Items(f) : m[i] \in SUBSET Status
      BY <2>6, <3>1 DEF Status
    <3>. QED BY <2>5, <3>2
  <2>8. Core(M, T)
    BY <1>1, <1>2, <2>0, <2>6, <2>7, MarkKeeps
  <2>9. FrontBut(M.requests, f, D) /\ NotifiedBut(M.requests, f)
    <3>1. \A i \in Items(f) : i \notin D => m[i] = R[f][i]
      BY <2>4
    <3>. QED BY <1>1, <2>0, <3>1, MarkFront
  <2>10. f \in DOMAIN M.requests
    BY <1>1, <2>0, MarkDomain
  <2>. HIDE DEF M
  <2>11. Core(E, T) /\ Notified(E.requests) /\ FrontBut(E.requests, f, D)
    BY <2>8, <2>9, <2>10, ErrorsKeeps
  <2>. HIDE DEF E
  <2>12. Good(Y, T)
    BY <2>1, <2>2, <2>11, EndKeeps, Zenon
  <2>. QED BY <2>12 DEF T
<1>. QED BY <1>4, <1>5
(***************************************************************************)
(* One call of an update: of this kind, of frame n.                        *)
(***************************************************************************)
Came(kind, n) == {x \in mResultQueue : KindOf(x) = kind /\ x[1] = n}

\* What the pipeline gives back is of a frame and of one of its items.
LEMMA GivenIs ==
  ASSUME TypeOK, NEW x \in given
  PROVE  /\ x[1] \in Frames /\ x[2] \in Items(x[1]) /\ x[3] \in Statuses
         /\ x = <<x[1], x[2], x[3]>>
<1>1. PICK f \in Frames : x \in {f} \X Items(f) \X {"OK", "ERROR"}
  BY DEF TypeOK
<1>. QED BY <1>1 DEF Statuses

\* After the call of frame n, what has come of n has been handed over.
LEMMA SeenNext ==
  ASSUME TypeOK, NEW K, NEW kind, NEW n \in Frames
  PROVE  Seen(K, kind, n) = Seen(K, kind, n - 1) \cup Came(kind, n)
<1>1. \A x \in mResultQueue : x[1] \in Nat
  BY GivenIs DEF TypeOK, Frames
<1>2. \A x \in mResultQueue : x[1] <= n <=> x[1] <= n - 1 \/ x[1] = n
  BY <1>1 DEF Frames
<1>. QED BY <1>2 DEF Seen, Came

\* A thing comes once.
LEMMA CameOnce ==
  ASSUME TypeOK, Submitted, NEW K, NEW kind, kind \notin K, NEW n \in Frames,
         NEW x \in Came(kind, n), NEW e
  PROVE  <<x[1], x[2], e>> \notin Seen(K, kind, n - 1)
<1>. SUFFICES ASSUME <<x[1], x[2], e>> \in Seen(K, kind, n - 1) PROVE FALSE
  OBVIOUS
<1>1. x \in mResultQueue /\ x \in given /\ KindOf(x) = kind /\ x[1] = n
  BY DEF Came, TypeOK
<1>2. <<x[1], x[2], e>> \in given
  BY DEF Seen, Taken, TypeOK
<1>3. <<x[1], x[2], e>> = x
  BY <1>1, <1>2 DEF Submitted
<1>4. x \in Seen(K, kind, n - 1)
  BY <1>3
<1>5. ~ (n <= n - 1)
  BY DEF Frames
<1>. QED BY <1>1, <1>4, <1>5 DEF Seen, Taken

\* The images of frame n that a call of this kind hands over are those of Z.
ImagesOf(kind, n, Z) ==
  \/ kind = "output" /\ Z = Outputs(n)
  \/ kind = "input" /\ Z = InputStreams

\* The images handed over are those in the queue, each with its status.
LEMMA ImagesCame ==
  ASSUME TypeOK, Submitted, NEW n \in Frames, NEW kind, NEW Z,
         ImagesOf(kind, n, Z),
         NEW D, D = DOMAIN NewImages(n, Z)
  PROVE  /\ D \in SUBSET StreamsOf[n] /\ NewImages(n, Z) \in [D -> Statuses]
         /\ Came(kind, n) = {<<n, s, NewImages(n, Z)[s]>> : s \in D}
         /\ \A s \in D : \E x \in Came(kind, n) : x[1] = n /\ x[2] = s
<1>1. D = {t \in StreamsOf[n] \cap Z : \E x \in mResultQueue : x[1] = n /\ x[2] = t}
  BY DEF NewImages
<1>2. NewImages(n, Z) = [s \in D |-> IF <<n, s, "ERROR">> \in mResultQueue THEN "ERROR" ELSE "OK"]
  BY <1>1 DEF NewImages
<1>3. NewImages(n, Z) \in [D -> Statuses]
  BY <1>2 DEF Statuses
<1>4. ASSUME NEW x \in mResultQueue, x[1] = n, x[2] \in D
      PROVE  x = <<n, x[2], NewImages(n, Z)[x[2]]>> /\ x \in Came(kind, n)
  <2>1. x \in given /\ x = <<n, x[2], x[3]>> /\ x[3] \in {"OK", "ERROR"}
    BY <1>4, GivenIs DEF TypeOK, Statuses
  <2>2. x[3] = NewImages(n, Z)[x[2]]
    <3>1. CASE x[3] = "ERROR"
      <4>1. <<n, x[2], "ERROR">> \in mResultQueue
        BY <2>1, <3>1
      <4>. QED BY <1>2, <1>4, <3>1, <4>1
    <3>2. CASE x[3] = "OK"
      <4>1. <<n, x[2], "ERROR">> \notin mResultQueue
        <5>. SUFFICES ASSUME <<n, x[2], "ERROR">> \in mResultQueue PROVE FALSE
          OBVIOUS
        <5>1. <<n, x[2], "ERROR">> = x
          BY <2>1 DEF Submitted, TypeOK
        <5>. QED BY <3>2, <5>1
      <4>. QED BY <1>2, <1>4, <3>2, <4>1
    <3>. QED BY <2>1, <3>1, <3>2
  <2>3. x[2] \in StreamsOf[n] /\ x[2] \in Z /\ x[2] # "shutter" /\ x[2] # "result"
    BY <1>1, <1>4, StreamsAssumption
  <2>4. KindOf(x) = kind
    BY <2>3 DEF KindOf, Outputs, ImagesOf
  <2>. QED BY <1>4, <2>1, <2>2, <2>4 DEF Came
<1>5. ASSUME NEW x \in Came(kind, n) PROVE x \in mResultQueue /\ x[1] = n /\ x[2] \in D
  <2>1. x \in mResultQueue /\ x[1] = n /\ KindOf(x) = kind
    BY DEF Came
  <2>2. x[2] \in Items(n)
    BY <2>1, GivenIs DEF TypeOK
  <2>3. x[2] \in StreamsOf[n] \cap Z
    BY <2>1, <2>2 DEF KindOf, Items, Outputs, ImagesOf
  <2>. QED BY <1>1, <2>1, <2>3
<1>6. ASSUME NEW s \in D
      PROVE  \E x \in Came(kind, n) : x = <<n, s, NewImages(n, Z)[s]>> /\ x[1] = n /\ x[2] = s
  <2>1. PICK x \in mResultQueue : x[1] = n /\ x[2] = s
    BY <1>1
  <2>. QED BY <1>4, <2>1
<1>7. Came(kind, n) = {<<n, s, NewImages(n, Z)[s]>> : s \in D}
  <2>1. ASSUME NEW x \in Came(kind, n) PROVE \E s \in D : x = <<n, s, NewImages(n, Z)[s]>>
    BY <1>4, <1>5
  <2>2. ASSUME NEW s \in D PROVE <<n, s, NewImages(n, Z)[s]>> \in Came(kind, n)
    BY <1>6
  <2>. QED BY <2>1, <2>2
<1>. QED BY <1>1, <1>3, <1>6, <1>7

\* A call that hands over images keeps the map good.
LEMMA ImagesKeep ==
  ASSUME TypeOK, Submitted, NEW K, NEW kind, kind \notin K, NEW n \in Frames, NEW Z,
         ImagesOf(kind, n, Z),
         NEW X, Good(X, Seen(K, kind, n - 1))
  PROVE  Good(ReceiveImages(X, n, Z), Seen(K, kind, n))
<1>. DEFINE D == DOMAIN NewImages(n, Z)
            S == Seen(K, kind, n - 1)
<1>1. /\ D \in SUBSET StreamsOf[n] /\ NewImages(n, Z) \in [D -> Statuses]
      /\ Came(kind, n) = {<<n, s, NewImages(n, Z)[s]>> : s \in D}
      /\ \A s \in D : \E x \in Came(kind, n) : x[1] = n /\ x[2] = s
  BY ImagesCame
<1>2. Seen(K, kind, n) = S \cup Came(kind, n)
  BY SeenNext
<1>3. \A s \in D : \A e \in Statuses : <<n, s, e>> \notin S
  BY <1>1, CameOnce
<1>4. CASE D = {}
  <2>1. ReceiveImages(X, n, Z) = X
    BY <1>4 DEF ReceiveImages
  <2>2. Seen(K, kind, n) = S
    BY <1>1, <1>2, <1>4
  <2>. QED BY <2>1, <2>2
<1>5. CASE D # {}
  <2>1. ReceiveImages(X, n, Z) = ReceiveBuffers(X, n, NewImages(n, Z))
    BY <1>5 DEF ReceiveImages
  <2>. HIDE DEF D, S
  <2>2. Good(ReceiveImages(X, n, Z), S \cup {<<n, s, NewImages(n, Z)[s]>> : s \in D})
    BY <1>1, <1>3, <2>1, ReceiveBuffersKeeps DEF S
  <2>. QED BY <1>1, <1>2, <2>2
<1>. QED BY <1>4, <1>5
\* What is new of a frame's last metadata is taken: none has come before it.
LEMMA NewLastIs ==
  ASSUME TypeOK, Submitted, ParcelSound, NEW n \in DOMAIN mFrameMap
  PROVE  n \in NewLast <=> <<n, "result", "OK">> \in mResultQueue
<1>1. ASSUME <<n, "result", "OK">> \in mResultQueue
      PROVE  \A e \in Statuses : <<n, "result", e>> \in given => e = "OK"
  <2>. SUFFICES ASSUME NEW e \in Statuses, <<n, "result", e>> \in given PROVE e = "OK"
    OBVIOUS
  <2>. DEFINE x == <<n, "result", "OK">>
              y == <<n, "result", e>>
  <2>1. x \in given
    BY <1>1 DEF TypeOK
  <2>2. x[1] = y[1] /\ x[2] = y[2] /\ x[3] = "OK" /\ y[3] = e
    OBVIOUS
  <2>. HIDE DEF x, y
  <2>3. x = y
    BY <2>1, <2>2 DEF Submitted, y
  <2>. QED BY <2>2, <2>3
<1>2. ASSUME <<n, "result", "OK">> \in mResultQueue
      PROVE  n \notin NewErrors /\ mFrameMap[n].error = "NONE" /\ ~mFrameMap[n].hasLastPartial
  <2>1. <<n, "result", "ERROR">> \notin given /\ "ERROR" \in Statuses
    BY <1>1, <1>2 DEF Statuses
  <2>2. <<n, "result", "OK">> \notin Taken /\ <<n, "result", "ERROR">> \notin Taken
    BY <1>2, <2>1 DEF Taken
  <2>. QED BY <2>1, <2>2 DEF NewErrors, New, ParcelSound, TypeOK
<1>. QED BY <1>2 DEF NewLast, TakesMetas, New

\* Each call keeps the map good, with what it hands over.
LEMMA CallKeeps ==
  ASSUME TypeOK, Submitted, LeavesComplete, ParcelSound,
         NEW K, NEW kind \in Kinds, kind \notin K, NEW n \in Frames,
         NEW X, Good(X, Seen(K, kind, n - 1))
  PROVE  Good(Call(X, kind, n), Seen(K, kind, n))
<1>. DEFINE S == Seen(K, kind, n - 1)
            T == Seen(K, kind, n)
<1>1. T = S \cup Came(kind, n)
  BY SeenNext
<1>2. CASE n \notin DOMAIN mFrameMap
  <2>1. Call(X, kind, n) = X
    BY <1>2 DEF Call, NewShutters, NewErrors, NewLast, TakesMetas, New
  <2>2. n \notin DOMAIN X.requests
    BY <1>2 DEF Good, Core, MapSound, LeavesComplete
  <2>3. OnlyOf(X.requests, n, S, T)
    <3>1. \A x \in Came(kind, n) : x[1] = n
      BY DEF Came
    <3>. HIDE DEF S, T
    <3>. QED BY <1>1, <3>1 DEF OnlyOf
  <2>. HIDE DEF S, T
  <2>4. Good(X, T)
    BY <2>2, <2>3, SeenGood DEF S
  <2>. QED BY <2>1, <2>4 DEF T
<1>3. ASSUME n \in DOMAIN mFrameMap, NEW x \in Came(kind, n), x[2] \in {"shutter", "result"}
      PROVE  /\ x = <<n, x[2], x[3]>> /\ x \in mResultQueue /\ x \in given /\ KindOf(x) = kind
             /\ x[3] \in {"OK", "ERROR"}
  BY <1>3, GivenIs DEF Came, TypeOK, Statuses
<1>4. CASE n \in DOMAIN mFrameMap /\ kind = "shutter"
  <2>1. \A x \in Came(kind, n) : x = <<n, "shutter", "OK">>
    <3>. SUFFICES ASSUME NEW x \in Came(kind, n) PROVE x = <<n, "shutter", "OK">>
      OBVIOUS
    <3>1. x[2] = "shutter"
      BY <1>4 DEF Came, KindOf
    <3>. QED BY <1>3, <1>4, <3>1 DEF Submitted
  <2>2. n \in NewShutters <=> <<n, "shutter", "OK">> \in Came(kind, n)
    BY <1>4 DEF NewShutters, New, Came, KindOf
  <2>3. Call(X, kind, n) = IF n \in NewShutters THEN NotifyShutter(X, n) ELSE X
    BY <1>4, Zenon DEF Call
  <2>4. CASE n \in NewShutters
    <3>1. T = S \cup {<<n, "shutter", "OK">>}
      BY <1>1, <2>1, <2>2, <2>4
    <3>. HIDE DEF S, T
    <3>2. Good(Call(X, kind, n), T)
      BY <2>3, <2>4, <3>1, NotifyShutterKeeps DEF S
    <3>. QED BY <3>2 DEF T
  <2>5. CASE n \notin NewShutters
    <3>1. T = S
      BY <1>1, <2>1, <2>2, <2>5
    <3>. QED BY <2>3, <2>5, <3>1
  <2>. QED BY <2>4, <2>5
<1>5. CASE n \in DOMAIN mFrameMap /\ kind = "error"
  <2>1. \A x \in Came(kind, n) : x = <<n, "result", "ERROR">>
    <3>. SUFFICES ASSUME NEW x \in Came(kind, n) PROVE x = <<n, "result", "ERROR">>
      OBVIOUS
    <3>1. x[2] = "result" /\ x[3] = "ERROR"
      BY <1>5 DEF Came, KindOf
    <3>. QED BY <1>3, <1>5, <3>1
  <2>2. n \in NewErrors <=> <<n, "result", "ERROR">> \in Came(kind, n)
    BY <1>5 DEF NewErrors, New, Came, KindOf
  <2>3. Call(X, kind, n) = IF n \in NewErrors THEN NotifyError(X, n) ELSE X
    BY <1>5, Zenon DEF Call
  <2>4. CASE n \in NewErrors
    <3>1. T = S \cup {<<n, "result", "ERROR">>}
      BY <1>1, <2>1, <2>2, <2>4
    <3>2. <<n, "result", "OK">> \notin S /\ <<n, "result", "ERROR">> \notin S
      <4>. DEFINE x == <<n, "result", "ERROR">>
      <4>1. x \in Came(kind, n) /\ x[1] = n /\ x[2] = "result"
        BY <2>2, <2>4
      <4>. HIDE DEF x
      <4>2. \A e : <<x[1], x[2], e>> \notin S
        BY <4>1, CameOnce
      <4>. QED BY <4>1, <4>2
    <3>3. n \in DOMAIN X.requests
      BY <1>5, <3>2 DEF Good, Core, MapSound, ErrorsSound, LeavesComplete
    <3>. HIDE DEF S, T
    <3>4. Good(Call(X, kind, n), T)
      BY <2>3, <2>4, <3>1, <3>3, NotifyErrorKeeps DEF S
    <3>. QED BY <3>4 DEF T
  <2>5. CASE n \notin NewErrors
    <3>1. T = S
      BY <1>1, <2>1, <2>2, <2>5
    <3>. QED BY <2>3, <2>5, <3>1
  <2>. QED BY <2>4, <2>5
<1>6. CASE n \in DOMAIN mFrameMap /\ kind = "result"
  <2>1. \A x \in Came(kind, n) : x = <<n, "result", "OK">>
    <3>. SUFFICES ASSUME NEW x \in Came(kind, n) PROVE x = <<n, "result", "OK">>
      OBVIOUS
    <3>1. x[2] = "result" /\ x[3] # "ERROR"
      BY <1>6 DEF Came, KindOf
    <3>. QED BY <1>3, <1>6, <3>1
  <2>2. n \in NewLast <=> <<n, "result", "OK">> \in Came(kind, n)
    <3>1. <<n, "result", "OK">> \in Came(kind, n) <=> <<n, "result", "OK">> \in mResultQueue
      BY <1>6 DEF Came, KindOf
    <3>. QED BY <1>6, <3>1, NewLastIs
  <2>3. Call(X, kind, n) = IF n \in NewLast THEN ReceiveResult(X, n) ELSE X
    BY <1>6, Zenon DEF Call
  <2>4. CASE n \in NewLast
    <3>1. T = S \cup {<<n, "result", "OK">>}
      BY <1>1, <2>1, <2>2, <2>4
    <3>. HIDE DEF S, T
    <3>2. Good(Call(X, kind, n), T)
      BY <2>3, <2>4, <3>1, ReceiveResultKeeps DEF S
    <3>. QED BY <3>2 DEF T
  <2>5. CASE n \notin NewLast
    <3>1. T = S
      BY <1>1, <2>1, <2>2, <2>5
    <3>. QED BY <2>3, <2>5, <3>1
  <2>. QED BY <2>4, <2>5
<1>7. CASE n \in DOMAIN mFrameMap /\ kind = "output"
  <2>1. Call(X, kind, n) = ReceiveImages(X, n, Outputs(n))
    BY <1>7, Zenon DEF Call
  <2>2. ImagesOf(kind, n, Outputs(n))
    BY <1>7 DEF ImagesOf
  <2>. QED BY <2>1, <2>2, ImagesKeep
<1>8. CASE n \in DOMAIN mFrameMap /\ kind = "input"
  <2>1. Call(X, kind, n) = ReceiveImages(X, n, InputStreams)
    BY <1>8, Zenon DEF Call
  <2>2. ImagesOf(kind, n, InputStreams)
    BY <1>8 DEF ImagesOf
  <2>. QED BY <2>1, <2>2, ImagesKeep
<1>. QED BY <1>2, <1>4, <1>5, <1>6, <1>7, <1>8 DEF Kinds

(***************************************************************************)
(* The calls of one kind, frame after frame.                               *)
(***************************************************************************)
CallsOf(X, kind, k, g) ==
  g = [n \in 0..k |-> IF n = 0 THEN X ELSE Call(g[n - 1], kind, n)]

\* The recursive function of Calls exists.
LEMMA CallsExist ==
  ASSUME NEW X, NEW kind, NEW k \in Nat
  PROVE  \E g : CallsOf(X, kind, k, g)
<1>. DEFINE T == {j \in Nat : \E g : CallsOf(X, kind, j, g)}
<1>1. 0 \in T
  <2>. DEFINE g == [n \in 0..0 |-> X]
  <2>1. g = [n \in 0..0 |-> IF n = 0 THEN X ELSE Call(g[n - 1], kind, n)]
    OBVIOUS
  <2>. HIDE DEF g
  <2>2. CallsOf(X, kind, 0, g)
    BY <2>1 DEF CallsOf
  <2>. QED BY <2>2
<1>2. ASSUME NEW j \in Nat, j \in T PROVE j + 1 \in T
  <2>1. PICK g : CallsOf(X, kind, j, g)
    BY <1>2
  <2>2. g = [n \in 0..j |-> IF n = 0 THEN X ELSE Call(g[n - 1], kind, n)]
    BY <2>1, Zenon DEF CallsOf
  <2>. DEFINE h == [n \in 0..(j + 1) |-> IF n = j + 1 THEN Call(g[j], kind, j + 1) ELSE g[n]]
  <2>3. \A n \in 0..(j + 1) : h[n] = IF n = j + 1 THEN Call(g[j], kind, j + 1) ELSE g[n]
    OBVIOUS
  <2>4. h = [n \in 0..(j + 1) |-> h[n]]
    OBVIOUS
  <2>. HIDE DEF h
  <2>5. ASSUME NEW n \in 0..(j + 1) PROVE h[n] = IF n = 0 THEN X ELSE Call(h[n - 1], kind, n)
    <3>1. CASE n = j + 1
      <4>1. h[j] = g[j]
        BY <2>3
      <4>2. h[n] = Call(g[j], kind, j + 1)
        BY <2>3, <3>1
      <4>3. n - 1 = j /\ n # 0
        BY <3>1
      <4>. QED BY <3>1, <4>1, <4>2, <4>3
    <3>2. CASE n = 0
      <4>1. h[n] = g[n] /\ n \in 0..j
        BY <2>3, <3>2
      <4>2. g[n] = X
        BY <2>2, <3>2, <4>1
      <4>. QED BY <3>2, <4>1, <4>2
    <3>3. CASE n # 0 /\ n # j + 1
      <4>1. n \in 0..j /\ n - 1 \in 0..(j + 1) /\ n - 1 # j + 1
        BY <3>3
      <4>2. h[n] = g[n] /\ h[n - 1] = g[n - 1]
        BY <2>3, <3>3, <4>1
      <4>3. g[n] = Call(g[n - 1], kind, n)
        BY <2>2, <3>3, <4>1
      <4>. QED BY <3>3, <4>2, <4>3
    <3>. QED BY <3>1, <3>2, <3>3
  <2>6. h = [n \in 0..(j + 1) |-> IF n = 0 THEN X ELSE Call(h[n - 1], kind, n)]
    BY <2>4, <2>5
  <2>7. CallsOf(X, kind, j + 1, h)
    BY <2>6, Zenon DEF CallsOf
  <2>. QED BY <2>7
<1>. HIDE DEF T
<1>3. Nat \subseteq T
  BY <1>1, <1>2, UpTo
<1>. QED BY <1>3 DEF T

\* What has been handed over once all calls of the kinds in K have been made.
After(K) == Taken \cup {x \in mResultQueue : KindOf(x) \in K}

\* All calls of a kind, by induction over the frames.
LEMMA CallsKeep ==
  ASSUME TypeOK, Submitted, LeavesComplete, ParcelSound,
         NEW K, NEW kind \in Kinds, kind \notin K, NEW X, Good(X, After(K))
  PROVE  Good(Calls(X, kind), After(K \cup {kind}))
<1>. DEFINE after == CHOOSE g : CallsOf(X, kind, NumFrames, g)
            T == {k \in Nat : k <= NumFrames => Good(after[k], Seen(K, kind, k))}
<1>1. CallsOf(X, kind, NumFrames, after)
  BY CallsExist
<1>2. Calls(X, kind) = after[NumFrames]
  BY Zenon DEF Calls, CallsOf
<1>. HIDE DEF after
<1>3. \A n \in 0..NumFrames : after[n] = IF n = 0 THEN X ELSE Call(after[n - 1], kind, n)
  <2>1. after = [n \in 0..NumFrames |-> IF n = 0 THEN X ELSE Call(after[n - 1], kind, n)]
    BY <1>1, Zenon DEF CallsOf
  <2>. QED BY <2>1
<1>4. \A x \in mResultQueue : x[1] \in 1..NumFrames
  BY GivenIs DEF TypeOK, Frames
<1>5. Seen(K, kind, 0) = After(K)
  <2>1. \A x \in mResultQueue : ~ (x[1] <= 0)
    BY <1>4
  <2>. QED BY <2>1 DEF Seen, After
<1>6. Seen(K, kind, NumFrames) = After(K \cup {kind})
  <2>1. \A x \in mResultQueue : x[1] <= NumFrames
    BY <1>4
  <2>. QED BY <2>1 DEF Seen, After
<1>7. 0 \in T
  BY <1>3, <1>5
<1>8. ASSUME NEW k \in Nat, k \in T PROVE k + 1 \in T
  <2>. SUFFICES ASSUME k + 1 <= NumFrames PROVE Good(after[k + 1], Seen(K, kind, k + 1))
    OBVIOUS
  <2>. DEFINE n == k + 1
  <2>1. n \in Frames /\ n - 1 = k /\ n \in 0..NumFrames /\ n # 0 /\ k <= NumFrames
    BY DEF Frames
  <2>2. Good(after[k], Seen(K, kind, n - 1))
    BY <1>8, <2>1
  <2>3. after[n] = Call(after[k], kind, n)
    BY <1>3, <2>1
  <2>. HIDE DEF n
  <2>4. Good(after[n], Seen(K, kind, n))
    BY <2>1, <2>2, <2>3, CallKeeps
  <2>. QED BY <2>4 DEF n
<1>9. Good(after[NumFrames], Seen(K, kind, NumFrames))
  <2>. HIDE DEF T
  <2>1. Nat \subseteq T
    BY <1>7, <1>8, UpTo
  <2>. QED BY <2>1 DEF T
<1>. QED BY <1>2, <1>6, <1>9

(***************************************************************************)
(* The whole of an update.                                                 *)
(***************************************************************************)
LEMMA RecommendedGood ==
  ASSUME TypeOK, Submitted, LeavesComplete, ParcelSound, RequestsSound
  PROVE  Good(Recommended, given)
<1>. DEFINE X == [requests |-> mRequestMap, out |-> Nothing]
<1>1. /\ X.requests = mRequestMap /\ X.out.items = {} /\ X.out.errors = {}
      /\ X.out.removable = {}
      /\ X = UpdateRec(mRequestMap, {}, {}, {})
  BY DEF Nothing, UpdateRec
<1>. HIDE DEF X
<1>2. /\ mRequestMap = [f \in DOMAIN mFrameMap |-> mRequestMap[f]]
      /\ DOMAIN mRequestMap = DOMAIN mFrameMap /\ DOMAIN mFrameMap \in SUBSET Frames
      /\ \A f \in DOMAIN mFrameMap : mRequestMap[f] \in [Items(f) -> SUBSET Status]
  BY DEF TypeOK, IsRequestMap, LeavesComplete
<1>3. X \in Updates
  <2>1. \A U : {} \in SUBSET U
    OBVIOUS
  <2>2. UpdateRec(mRequestMap, {}, {}, {}) \in Updates
    BY <1>2, <2>1, IsUpdate, Zenon
  <2>. QED BY <1>1, <2>2
<1>4. MapSound(X) /\ StatusSound(X.requests, Taken)
  BY <1>1, <1>2 DEF MapSound, RequestsSound
<1>5. \A f, i : ~Made(X, f, i)
  BY <1>1 DEF Made
<1>6. \A f : ~Erred(X, f)
  BY <1>1 DEF Erred
<1>7. ItemsSound(X, Taken)
  BY <1>1, <1>5 DEF ItemsSound, WasReleased
<1>8. ErrorsSound(X, Taken)
  BY <1>1, <1>6 DEF ErrorsSound, WasNotified
<1>9. EldersReleased(X)
  BY <1>1 DEF EldersReleased
<1>10. Good(X, Taken)
  BY <1>1, <1>3, <1>4, <1>7, <1>8, <1>9 DEF Good, Core, RequestsSound
<1>11. After({}) = Taken
  BY DEF After
<1>12. Good(Calls(X, "shutter"), After({} \cup {"shutter"}))
  BY <1>10, <1>11, CallsKeep DEF Kinds
<1>. DEFINE X1 == Calls(X, "shutter")  X2 == Calls(X1, "error")  X3 == Calls(X2, "result")
            X4 == Calls(X3, "output")  X5 == Calls(X4, "input")
            K1 == {} \cup {"shutter"}  K2 == K1 \cup {"error"}  K3 == K2 \cup {"result"}
            K4 == K3 \cup {"output"}
<1>k. "error" \notin K1 /\ "result" \notin K2 /\ "output" \notin K3 /\ "input" \notin K4
      /\ K4 \cup {"input"} = Kinds
  BY DEF Kinds
<1>s. {"shutter", "error", "result", "output", "input"} \subseteq Kinds
  BY DEF Kinds
<1>r. Recommended = X5
  BY Zenon DEF Recommended, X
<1>. HIDE DEF X1, X2, X3, X4, X5, K1, K2, K3, K4
<1>13. Good(X1, After(K1))
  BY <1>12 DEF X1, K1
<1>14. Good(X2, After(K2))
  BY <1>13, <1>k, <1>s, CallsKeep DEF X2, K2
<1>15. Good(X3, After(K3))
  BY <1>14, <1>k, <1>s, CallsKeep DEF X3, K3
<1>16. Good(X4, After(K4))
  BY <1>15, <1>k, <1>s, CallsKeep DEF X4, K4
<1>17. Good(X5, After(Kinds))
  BY <1>16, <1>k, <1>s, CallsKeep DEF X5
<1>18. After(Kinds) = given
  BY DEF After, Taken, TypeOK, KindOf, Kinds
<1>. QED BY <1>17, <1>18, <1>r
(***************************************************************************)
(* What an update leaves behind: the map, the parcels and the RETURNED     *)
(* bits, all by what the recommender has made of the results given.        *)
(***************************************************************************)
LEMMA UpdatedIs ==
  ASSUME TypeOK, Submitted, ParcelSound, NEW f \in DOMAIN mFrameMap
  PROVE  /\ Updated[f] \in Parcels
         /\ Updated[f].available = mFrameMap[f].available
         /\ Updated[f].error = "NONE" => mFrameMap[f].error = "NONE"
         /\ Updated[f].error # "NONE" <=> <<f, "result", "ERROR">> \in given
         /\ Updated[f].hasLastPartial <=> <<f, "result", "OK">> \in given
<1>. DEFINE p == mFrameMap[f]
            e == IF f \in NewErrors THEN "ERROR_RESULT" ELSE p.error
            n == p.metas + (IF f \in TakesMetas \cap NewShutters THEN 1 ELSE 0)
                         + (IF f \in NewLast THEN 1 ELSE 0)
            l == p.hasLastPartial \/ f \in NewLast
<1>1. p \in Parcels
  BY DEF TypeOK
<1>2. Updated[f] = [p EXCEPT !.error = e, !.metas = n, !.hasLastPartial = l]
  BY Zenon DEF Updated
<1>3. n \in Nat
  BY <1>1 DEF Parcels
<1>4. e \in {"NONE", "ERROR_RESULT"} /\ l \in BOOLEAN
  BY <1>1 DEF Parcels
<1>5. e # "NONE" <=> <<f, "result", "ERROR">> \in given
  BY DEF ParcelSound, Taken, NewErrors, New, TypeOK
<1>6. l <=> <<f, "result", "OK">> \in given
  BY NewLastIs DEF ParcelSound, Taken, TypeOK
<1>7. e = "NONE" => p.error = "NONE"
  OBVIOUS
<1>. HIDE DEF p, e, n, l
<1>8. /\ Updated[f] \in Parcels /\ Updated[f].available = p.available
      /\ Updated[f].error = e /\ Updated[f].hasLastPartial = l
  BY <1>1, <1>2, <1>3, <1>4 DEF Parcels
<1>. QED BY <1>5, <1>6, <1>7, <1>8 DEF p

\* The new RETURNED bits of a frame in the map, from the old ones.
Returns(f, out, c) ==
  LET metas == <<f, "result", "OK">> \in given /\ <<f, "result", "ERROR">> \notin given IN
  /\ c \in Callbacks(f)
  /\ c.shutter <=> returned[f].shutter \/ <<f, "shutter", "OK">> \in out.items
  /\ c.partials # returned[f].partials => metas
  /\ c.last <=> \/ returned[f].last
                \/ metas /\ (mFrameMap[f].available \/ <<f, "result", "OK">> \in out.items)
  /\ c.error = ErrorOf(f, out)
  /\ \A s \in StreamsOf[f] : c.images[s] = ImageOf(f, s, out)

\* CallBack() in terms of what has been given.
LEMMA CallBackReturns ==
  ASSUME TypeOK, Submitted, ParcelSound, NEW f \in DOMAIN mFrameMap, NEW out
  PROVE  Returns(f, out, CallBack(f, Updated[f], out))
<1>. DEFINE p == Updated[f]
            c == CallBack(f, p, out)
            metas == p.error = "NONE" /\ p.hasLastPartial
<1>1. /\ p \in Parcels /\ p.available = mFrameMap[f].available
      /\ metas <=> <<f, "result", "OK">> \in given /\ <<f, "result", "ERROR">> \notin given
  BY UpdatedIs
<1>2. f \in Frames /\ returned[f] \in Callbacks(f)
  BY DEF TypeOK
<1>3. ErrorOf(f, out) \in {"NONE", "ERROR_RESULT", "ERROR_REQUEST"}
  BY <1>2 DEF ErrorOf, Callbacks
<1>4. \A s \in StreamsOf[f] : ImageOf(f, s, out) \in {"none", "OK", "ERROR"}
  BY <1>2 DEF ImageOf, Callbacks
<1>. HIDE DEF p
<1>5. c = [shutter  |-> returned[f].shutter \/ <<f, "shutter", "OK">> \in out.items,
           partials |-> IF metas THEN p.metas - 1 ELSE returned[f].partials,
           last     |-> returned[f].last \/ (metas /\ (p.available \/ ResultOf(f, out))),
           error    |-> ErrorOf(f, out),
           images   |-> [s \in StreamsOf[f] |-> ImageOf(f, s, out)]]
  BY Zenon DEF CallBack
<1>6. p.metas - 1 \in Int /\ returned[f].partials \in Int
  BY <1>1, <1>2 DEF Parcels, Callbacks
<1>. HIDE DEF c, metas
<1>7. c \in Callbacks(f)
  BY <1>3, <1>4, <1>5, <1>6 DEF Callbacks
<1>8. /\ c.shutter <=> returned[f].shutter \/ <<f, "shutter", "OK">> \in out.items
      /\ c.partials # returned[f].partials => metas
      /\ c.last <=> returned[f].last \/ (metas /\ (p.available \/ ResultOf(f, out)))
      /\ c.error = ErrorOf(f, out)
      /\ \A s \in StreamsOf[f] : c.images[s] = ImageOf(f, s, out)
  BY <1>5
<1>9. Returns(f, out, c)
  BY <1>1, <1>7, <1>8 DEF Returns, ResultOf, metas
<1>. QED BY <1>9 DEF c, p
\* The step of an update, in which the recommender has returned X.
UpdateStep(X) ==
  /\ Good(X, given)
  /\ mRequestMap' = X.requests
  /\ DOMAIN mFrameMap' = DOMAIN mFrameMap \ X.out.removable
  /\ \A f \in DOMAIN mFrameMap' :
       /\ mFrameMap'[f] \in Parcels
       /\ mFrameMap'[f].error = Updated[f].error
       /\ mFrameMap'[f].hasLastPartial = Updated[f].hasLastPartial
       /\ mFrameMap'[f].available <=>
            mFrameMap[f].available \/ <<f, "result", "OK">> \in X.out.items
  /\ mFrameMap' \in [DOMAIN mFrameMap' -> Parcels]
  /\ DOMAIN returned' = Frames
  /\ \A f \in DOMAIN mFrameMap : Returns(f, X.out, returned'[f])
  /\ \A f \in Frames : f \notin DOMAIN mFrameMap => returned'[f] = returned[f]
  /\ mResultQueue' = {} /\ Taken' = given
  /\ thread = "idle" /\ thread' = "pushing"
  /\ UNCHANGED <<request, given, told, drainer>>

\* Update, in terms of what the recommender makes available.
LEMMA UpdateSteps ==
  ASSUME IInv, Update
  PROVE  UpdateStep(Recommended)
<1>. DEFINE X == Recommended
            D == DOMAIN mFrameMap \ X.out.removable
            P == [f \in D |-> [Updated[f] EXCEPT !.available = @ \/ ResultOf(f, X.out)]]
            C == [f \in Frames |-> IF f \in DOMAIN mFrameMap
                    THEN CallBack(f, Updated[f], X.out) ELSE returned[f]]
<1>1. TypeOK /\ Submitted /\ LeavesComplete /\ ParcelSound /\ RequestsSound
  BY DEF IInv
<1>2. Good(X, given)
  BY <1>1, RecommendedGood
<1>3. /\ mRequestMap' = X.requests /\ mFrameMap' = P /\ returned' = C
      /\ mResultQueue' = {} /\ thread = "idle" /\ thread' = "pushing"
      /\ UNCHANGED <<request, given, told, drainer>>
  BY Zenon DEF Update
<1>4. Taken' = given
  BY <1>3 DEF Taken
<1>5. \A f \in DOMAIN mFrameMap : Returns(f, X.out, CallBack(f, Updated[f], X.out))
  BY <1>1, CallBackReturns
<1>. HIDE DEF X
<1>6. DOMAIN mFrameMap \subseteq Frames
  BY <1>1 DEF TypeOK
<1>7. /\ DOMAIN C = Frames
      /\ \A f \in DOMAIN mFrameMap : C[f] = CallBack(f, Updated[f], X.out)
      /\ \A f \in Frames : f \notin DOMAIN mFrameMap => C[f] = returned[f]
  BY <1>6
<1>8. /\ DOMAIN P = D
      /\ P = [f \in D |-> P[f]]
      /\ \A f \in D : P[f] = [Updated[f] EXCEPT !.available = @ \/ ResultOf(f, X.out)]
  OBVIOUS
<1>. HIDE DEF P, C
<1>9. ASSUME NEW f \in D
      PROVE  /\ P[f] \in Parcels /\ P[f].error = Updated[f].error
             /\ P[f].hasLastPartial = Updated[f].hasLastPartial
             /\ P[f].available <=>
                  mFrameMap[f].available \/ <<f, "result", "OK">> \in X.out.items
  <2>. DEFINE p == Updated[f]
              a == p.available \/ ResultOf(f, X.out)
  <2>1. p \in Parcels /\ p.available = mFrameMap[f].available
    BY <1>1, UpdatedIs
  <2>2. P[f] = [p EXCEPT !.available = a]
    BY <1>8, Zenon
  <2>3. a \in BOOLEAN
    BY <2>1 DEF Parcels
  <2>4. a <=> mFrameMap[f].available \/ <<f, "result", "OK">> \in X.out.items
    BY <2>1 DEF ResultOf
  <2>. HIDE DEF p, a
  <2>5. /\ P[f] \in Parcels /\ P[f].error = p.error
        /\ P[f].hasLastPartial = p.hasLastPartial /\ P[f].available = a
    BY <2>1, <2>2, <2>3 DEF Parcels
  <2>. QED BY <2>4, <2>5 DEF p
<1>10. P \in [D -> Parcels]
  <2>. HIDE DEF D
  <2>. QED BY <1>8, <1>9
<1>11. /\ DOMAIN mFrameMap' = D
       /\ \A f \in DOMAIN mFrameMap' :
            /\ mFrameMap'[f] \in Parcels
            /\ mFrameMap'[f].error = Updated[f].error
            /\ mFrameMap'[f].hasLastPartial = Updated[f].hasLastPartial
            /\ mFrameMap'[f].available <=>
                 mFrameMap[f].available \/ <<f, "result", "OK">> \in X.out.items
       /\ mFrameMap' \in [DOMAIN mFrameMap' -> Parcels]
  BY <1>3, <1>8, <1>9, <1>10
<1>12. /\ DOMAIN returned' = Frames
       /\ \A f \in DOMAIN mFrameMap : Returns(f, X.out, returned'[f])
       /\ \A f \in Frames : f \notin DOMAIN mFrameMap => returned'[f] = returned[f]
  BY <1>3, <1>5, <1>7
<1>. QED BY <1>2, <1>3, <1>4, <1>11, <1>12, Zenon DEF UpdateStep, X

\* What of an item that is released by now has been called back, and the error.
LEMMA ReleasedReturns ==
  ASSUME IInv, NEW X, UpdateStep(X), NEW f \in DOMAIN mFrameMap
  PROVE  /\ WasReleased(f, "shutter") \/ Made(X, f, "shutter") =>
              returned'[f].shutter \/ <<f, "result", "ERROR">> \in given
         /\ WasReleased(f, "result") \/ Made(X, f, "result") =>
              \/ <<f, "result", "ERROR">> \in given
              \/ returned'[f].last
                 /\ (mFrameMap[f].available \/ <<f, "result", "OK">> \in X.out.items)
         /\ \A s \in Outputs(f) : WasReleased(f, s) \/ Made(X, f, s) =>
              returned'[f].images[s] # "none"
         /\ returned'[f].error # "NONE" <=> WasNotified(f) \/ Erred(X, f)
<1>1. /\ Returns(f, X.out, returned'[f]) /\ f \in Frames /\ Taken \subseteq given
      /\ f \in DOMAIN mRequestMap
  BY DEF UpdateStep, IInv, TypeOK, Taken, LeavesComplete
<1>2. /\ returned'[f].shutter <=> returned[f].shutter \/ <<f, "shutter", "OK">> \in X.out.items
      /\ returned'[f].last <=>
           \/ returned[f].last
           \/ /\ <<f, "result", "OK">> \in given /\ <<f, "result", "ERROR">> \notin given
              /\ mFrameMap[f].available \/ <<f, "result", "OK">> \in X.out.items
      /\ returned'[f].error = ErrorOf(f, X.out)
      /\ \A s \in StreamsOf[f] : returned'[f].images[s] = ImageOf(f, s, X.out)
  BY <1>1 DEF Returns
<1>3. \A i \in Items(f) :
        /\ <<f, i, "OK">> \in X.out.items => <<f, i, "OK">> \in given
        /\ <<f, i, "ERROR">> \in X.out.items => Failure(f, i) \in given
  BY <1>1 DEF UpdateStep, Good, Core, ItemsSound
<1>4. "shutter" \in Items(f) /\ "result" \in Items(f) /\ StreamsOf[f] \subseteq Items(f)
  BY DEF Items
<1>5. \A i \in Items(f) : "ERROR" \in mRequestMap[f][i] => Failure(f, i) \in given
  BY <1>1 DEF IInv, RequestsSound, StatusSound, StatusOf
<1>6. /\ WasReleased(f, "shutter") => returned[f].shutter \/ "ERROR" \in mRequestMap[f]["shutter"]
      /\ WasReleased(f, "result") =>
           mFrameMap[f].available \/ "ERROR" \in mRequestMap[f]["result"]
      /\ \A s \in Outputs(f) : WasReleased(f, s) => returned[f].images[s] # "none"
      /\ Told(f) <=> WasNotified(f)
  BY <1>1 DEF IInv, ReleasedSound, WasReleased, WasNotified
<1>7. Failure(f, "shutter") = <<f, "result", "ERROR">>
      /\ Failure(f, "result") = <<f, "result", "ERROR">>
  BY DEF Failure
<1>8. ASSUME WasReleased(f, "shutter") \/ Made(X, f, "shutter")
      PROVE  returned'[f].shutter \/ <<f, "result", "ERROR">> \in given
  BY <1>2, <1>3, <1>4, <1>5, <1>6, <1>7, <1>8 DEF Made, Statuses
<1>9. ASSUME WasReleased(f, "result") \/ Made(X, f, "result"),
             <<f, "result", "ERROR">> \notin given
      PROVE  returned'[f].last
             /\ (mFrameMap[f].available \/ <<f, "result", "OK">> \in X.out.items)
  <2>1. mFrameMap[f].available \/ <<f, "result", "OK">> \in X.out.items
    BY <1>3, <1>4, <1>5, <1>6, <1>7, <1>9 DEF Made, Statuses
  <2>2. mFrameMap[f].available => returned[f].last
    BY <1>1, <1>9 DEF IInv, ParcelSound
  <2>3. <<f, "result", "OK">> \in X.out.items => returned'[f].last
    BY <1>2, <1>3, <1>4, <1>9
  <2>. QED BY <1>2, <2>1, <2>2, <2>3
<1>10. ASSUME NEW s \in Outputs(f), WasReleased(f, s) \/ Made(X, f, s)
       PROVE  returned'[f].images[s] # "none"
  <2>1. s \in StreamsOf[f] /\ s \notin InputStreams
    BY DEF Outputs
  <2>. QED BY <1>2, <1>6, <1>10, <2>1 DEF Made, Statuses, ImageOf
<1>11. returned'[f].error # "NONE" <=> WasNotified(f) \/ Erred(X, f)
  BY <1>2, <1>6 DEF ErrorOf, Erred, Told
<1>. QED BY <1>8, <1>9, <1>10, <1>11

\* Update keeps the types, the order of the requests and the map of requests.
LEMMA UpdateKeepsTypes ==
  ASSUME IInv, NEW X, UpdateStep(X)
  PROVE  TypeOK' /\ Submitted' /\ RequestsSound'
<1>1. /\ X \in Updates /\ MapSound(X) /\ StatusSound(X.requests, given)
      /\ Notified(X.requests) /\ FrontReleased(X.requests) /\ FrontRemoved(X.requests)
  BY DEF UpdateStep, Good, Core
<1>2. TypeOK /\ Submitted /\ LeavesComplete
  BY DEF IInv
<1>3. /\ mRequestMap' = X.requests /\ mResultQueue' = {} /\ Taken' = given
      /\ DOMAIN mFrameMap' = DOMAIN mFrameMap \ X.out.removable
      /\ mFrameMap' \in [DOMAIN mFrameMap' -> Parcels]
      /\ DOMAIN returned' = Frames /\ thread' = "pushing"
      /\ \A f \in DOMAIN mFrameMap : returned'[f] \in Callbacks(f)
      /\ \A f \in Frames : f \notin DOMAIN mFrameMap => returned'[f] = returned[f]
      /\ UNCHANGED <<request, given, told, drainer>>
  BY DEF UpdateStep, Returns
<1>4. DOMAIN X.requests = DOMAIN mFrameMap'
  BY <1>1, <1>2, <1>3 DEF MapSound, LeavesComplete
<1>5. IsRequestMap(X.requests, DOMAIN mFrameMap')
  <2>1. X.requests = [f \in DOMAIN mFrameMap' |-> X.requests[f]]
    <3>1. X.requests = [f \in DOMAIN X.requests |-> X.requests[f]]
      BY <1>1, UpdateIs
    <3>. QED BY <1>4, <3>1
  <2>2. \A f \in DOMAIN mFrameMap' : X.requests[f] \in [Items(f) -> SUBSET Status]
    BY <1>1, <1>4 DEF MapSound
  <2>. QED BY <2>1, <2>2, Zenon DEF IsRequestMap
<1>6. TypeOK'
  <2>1. \A f \in Frames : returned'[f] \in Callbacks(f)
    BY <1>2, <1>3 DEF TypeOK
  <2>2. IsRequestMap(mRequestMap, DOMAIN mFrameMap)'
    BY <1>3, <1>5 DEF IsRequestMap
  <2>3. DOMAIN mFrameMap' \subseteq Frames
    BY <1>2, <1>3 DEF TypeOK
  <2>4. \A f : Callbacks(f)' = Callbacks(f)
    BY DEF Callbacks
  <2>. QED BY <1>2, <1>3, <2>1, <2>2, <2>3, <2>4 DEF TypeOK
<1>7. Submitted'
  <2>1. \A f \in Frames : request[f] = "none" => returned'[f] = Untold(f)
    BY <1>2, <1>3 DEF Submitted
  <2>. QED BY <1>2, <1>3, <2>1 DEF Submitted, Untold
<1>8. RequestsSound'
  <2>1. StatusSound(mRequestMap, Taken)'
    BY <1>1, <1>3 DEF StatusSound, StatusOf, Failure
  <2>2. Notified(mRequestMap)'
    BY <1>1, <1>3 DEF Notified, NotifiedOf, Error, OneValid, AllFailed
  <2>3. FrontReleased(mRequestMap)'
    BY <1>1, <1>3 DEF FrontReleased, Queue, INFLIGHT
  <2>4. FrontRemoved(mRequestMap)'
    BY <1>1, <1>3 DEF FrontRemoved, IsRemovable
  <2>. QED BY <2>1, <2>2, <2>3, <2>4 DEF RequestsSound
<1>. QED BY <1>6, <1>7, <1>8

\* Update keeps what a FrameParcel says, and a frame leaves complete.
LEMMA UpdateKeepsFrames ==
  ASSUME IInv, NEW X, UpdateStep(X)
  PROVE  ParcelSound' /\ ReleasedSound' /\ LeavesComplete'
<1>1. TypeOK /\ Submitted /\ LeavesComplete /\ ParcelSound
  BY DEF IInv
<1>2. /\ mRequestMap' = X.requests /\ Taken' = given /\ Taken \subseteq given
      /\ DOMAIN mFrameMap' = DOMAIN mFrameMap \ X.out.removable
      /\ DOMAIN mFrameMap = DOMAIN mRequestMap /\ DOMAIN mFrameMap \subseteq Frames
      /\ DOMAIN X.requests = DOMAIN mFrameMap'
      /\ DOMAIN X.requests \subseteq DOMAIN mFrameMap
      /\ request' = request
  BY <1>1 DEF UpdateStep, Good, Core, MapSound, LeavesComplete, TypeOK, Taken
<1>3. \A f \in DOMAIN mFrameMap' :
        /\ mFrameMap'[f].error = Updated[f].error
        /\ mFrameMap'[f].hasLastPartial = Updated[f].hasLastPartial
        /\ mFrameMap'[f].available <=>
             mFrameMap[f].available \/ <<f, "result", "OK">> \in X.out.items
  BY DEF UpdateStep
<1>4. \A f \in DOMAIN mFrameMap :
        /\ Updated[f].error # "NONE" <=> <<f, "result", "ERROR">> \in given
        /\ Updated[f].hasLastPartial <=> <<f, "result", "OK">> \in given
  BY <1>1, UpdatedIs
<1>5. \A f \in DOMAIN mFrameMap : \A i \in Items(f) :
        /\ f \in DOMAIN X.requests =>
             ("RELEASED" \in X.requests[f][i] <=> WasReleased(f, i) \/ Made(X, f, i))
        /\ f \in X.out.removable => WasReleased(f, i) \/ Made(X, f, i)
        /\ <<f, i, "OK">> \in X.out.items => <<f, i, "OK">> \in given
  BY <1>2 DEF UpdateStep, Good, Core, ItemsSound
<1>6. \A f \in DOMAIN X.requests : \A i \in Items(f) :
        "ERROR" \in X.requests[f][i] <=> Failure(f, i) \in given
  BY DEF UpdateStep, Good, Core, StatusSound, StatusOf
<1>7. \A f : /\ "shutter" \in Items(f) /\ "result" \in Items(f)
             /\ \A s \in Outputs(f) : s \in Items(f)
             /\ Failure(f, "shutter") = <<f, "result", "ERROR">>
             /\ Failure(f, "result") = <<f, "result", "ERROR">>
  BY DEF Items, Failure, Outputs
<1>8. \A f \in DOMAIN mFrameMap :
        /\ WasReleased(f, "shutter") \/ Made(X, f, "shutter") =>
              returned'[f].shutter \/ <<f, "result", "ERROR">> \in given
        /\ WasReleased(f, "result") \/ Made(X, f, "result") =>
              \/ <<f, "result", "ERROR">> \in given
              \/ returned'[f].last
                 /\ (mFrameMap[f].available \/ <<f, "result", "OK">> \in X.out.items)
        /\ \A s \in Outputs(f) : WasReleased(f, s) \/ Made(X, f, s) =>
              returned'[f].images[s] # "none"
        /\ returned'[f].error # "NONE" <=> WasNotified(f) \/ Erred(X, f)
  BY ReleasedReturns
<1>9. ParcelSound'
  <2>. SUFFICES ASSUME NEW f \in DOMAIN mFrameMap'
               PROVE  /\ mFrameMap'[f].error # "NONE" <=> <<f, "result", "ERROR">> \in given
                      /\ mFrameMap'[f].hasLastPartial <=> <<f, "result", "OK">> \in given
                      /\ mFrameMap'[f].available /\ mFrameMap'[f].error = "NONE"
                           => returned'[f].last
    BY <1>2 DEF ParcelSound
  <2>1. f \in DOMAIN mFrameMap
    BY <1>2
  <2>2. ASSUME mFrameMap'[f].available, mFrameMap'[f].error = "NONE" PROVE returned'[f].last
    <3>1. <<f, "result", "ERROR">> \notin given
      BY <1>3, <1>4, <2>1, <2>2
    <3>2. Returns(f, X.out, returned'[f])
      BY <2>1 DEF UpdateStep
    <3>3. mFrameMap[f].available => returned[f].last
      BY <1>1, <1>2, <2>1, <3>1 DEF ParcelSound
    <3>4. <<f, "result", "OK">> \in X.out.items => <<f, "result", "OK">> \in given
      BY <1>5, <1>7, <2>1
    <3>. QED BY <1>3, <2>2, <3>1, <3>2, <3>3, <3>4 DEF Returns
  <2>. QED BY <1>3, <1>4, <2>1, <2>2
<1>10. ReleasedSound'
  <2>. SUFFICES ASSUME NEW f \in DOMAIN X.requests
               PROVE  LET r == X.requests[f] IN
                 /\ "RELEASED" \in r["shutter"] => returned'[f].shutter \/ "ERROR" \in r["shutter"]
                 /\ "RELEASED" \in r["result"] =>
                      mFrameMap'[f].available \/ "ERROR" \in r["result"]
                 /\ \A s \in Outputs(f) : "RELEASED" \in r[s] => returned'[f].images[s] # "none"
                 /\ returned'[f].error # "NONE" <=> "NOTIFIED" \in r["result"]
    BY <1>2 DEF ReleasedSound, Told, Outputs
  <2>1. f \in DOMAIN mFrameMap /\ f \in DOMAIN mFrameMap'
    BY <1>2
  <2>2. "RELEASED" \in X.requests[f]["shutter"] =>
          returned'[f].shutter \/ "ERROR" \in X.requests[f]["shutter"]
    BY <1>5, <1>6, <1>7, <1>8, <2>1
  <2>3. "RELEASED" \in X.requests[f]["result"] =>
          mFrameMap'[f].available \/ "ERROR" \in X.requests[f]["result"]
    BY <1>3, <1>5, <1>6, <1>7, <1>8, <2>1
  <2>4. \A s \in Outputs(f) : "RELEASED" \in X.requests[f][s] => returned'[f].images[s] # "none"
    BY <1>5, <1>7, <1>8, <2>1
  <2>5. "NOTIFIED" \in X.requests[f]["result"] <=> WasNotified(f) \/ Erred(X, f)
    BY DEF UpdateStep, Good, Core, ErrorsSound
  <2>. QED BY <1>8, <2>1, <2>2, <2>3, <2>4, <2>5
<1>11. LeavesComplete'
  <2>. SUFFICES ASSUME NEW f \in Frames, request[f] = "submitted", f \notin DOMAIN mFrameMap'
               PROVE  /\ \A s \in Outputs(f) : returned'[f].images[s] # "none"
                      /\ \/ returned'[f].last /\ returned'[f].shutter
                         \/ returned'[f].error # "NONE"
    BY <1>2 DEF LeavesComplete, Left, Told, Outputs
  <2>1. CASE f \notin DOMAIN mFrameMap
    BY <1>1, <2>1 DEF LeavesComplete, Left, Told, UpdateStep
  <2>2. CASE f \in DOMAIN mFrameMap
    <3>1. f \in X.out.removable
      BY <1>2, <2>2
    <3>2. \A s \in Outputs(f) : returned'[f].images[s] # "none"
      BY <1>5, <1>7, <1>8, <2>2, <3>1
    <3>3. \/ <<f, "result", "OK">> \in given
          \/ <<f, "result", "ERROR">> \in given /\ (WasNotified(f) \/ Erred(X, f))
      BY <3>1 DEF UpdateStep, Good, Core, ErrorsSound
    <3>4. CASE <<f, "result", "ERROR">> \notin given
      BY <1>5, <1>7, <1>8, <2>2, <3>1, <3>2, <3>4
    <3>5. CASE <<f, "result", "ERROR">> \in given
      <4>. DEFINE x == <<f, "result", "OK">>
                  y == <<f, "result", "ERROR">>
      <4>1. x[1] = y[1] /\ x[2] = y[2] /\ x[3] = "OK" /\ y[3] = "ERROR"
        OBVIOUS
      <4>2. y \in given
        BY <3>5
      <4>. HIDE DEF x, y
      <4>3. x \notin given
        BY <1>1, <4>1, <4>2 DEF Submitted
      <4>. QED BY <1>8, <2>2, <3>2, <3>3, <4>3 DEF x
    <3>. QED BY <3>4, <3>5
  <2>. QED BY <2>1, <2>2
<1>. QED BY <1>9, <1>10, <1>11

\* Update returns in order and tells the truth.
LEMMA UpdateKeepsReturned ==
  ASSUME IInv, NEW X, UpdateStep(X)
  PROVE  ReturnedSound' /\ ReturnedInOrder' /\ Pushed'
<1>1. TypeOK /\ Submitted /\ LeavesComplete /\ ParcelSound /\ ReturnedSound /\ ReturnedInOrder
      /\ Pushed
  BY DEF IInv
<1>2. /\ mRequestMap' = X.requests /\ Taken' = given /\ Taken \subseteq given
      /\ DOMAIN mFrameMap = DOMAIN mRequestMap /\ DOMAIN mFrameMap \subseteq Frames
      /\ DOMAIN X.requests \subseteq DOMAIN mFrameMap
      /\ request' = request /\ told' = told /\ thread = "idle" /\ thread' = "pushing"
  BY <1>1 DEF UpdateStep, Good, Core, MapSound, LeavesComplete, TypeOK, Taken
<1>3. \A f \in DOMAIN mFrameMap : Returns(f, X.out, returned'[f])
  BY DEF UpdateStep
<1>4. \A f \in Frames : f \notin DOMAIN mFrameMap => returned'[f] = returned[f]
  BY DEF UpdateStep
<1>5. \A f \in Frames : \A i \in Items(f) :
        /\ <<f, i, "OK">> \in X.out.items =>
             <<f, i, "OK">> \in given /\ f \in DOMAIN mRequestMap /\ ~WasReleased(f, i)
        /\ <<f, i, "ERROR">> \in X.out.items => Failure(f, i) \in given
  BY DEF UpdateStep, Good, Core, ItemsSound, Made, Statuses
<1>6. \A f : /\ "shutter" \in Items(f) /\ "result" \in Items(f)
             /\ \A s \in StreamsOf[f] : s \in Items(f)
  BY DEF Items
<1>7. \A f \in Frames : \A s \in StreamsOf[f] : Failure(f, s) = <<f, s, "ERROR">>
  BY StreamsAssumption DEF Failure
<1>8. \A f \in DOMAIN mFrameMap :
        /\ <<f, "ERROR_REQUEST">> \in X.out.errors =>
             <<f, "result", "ERROR">> \in given /\ \A s \in StreamsOf[f] : <<f, s, "ERROR">> \in given
        /\ <<f, "ERROR_RESULT">> \in X.out.errors =>
             <<f, "result", "ERROR">> \in given /\ \E s \in StreamsOf[f] : <<f, s, "OK">> \in given
  BY <1>2 DEF UpdateStep, Good, Core, ErrorsSound, Erred
<1>9. ReturnedSound'
  <2>. SUFFICES ASSUME NEW f \in Frames, request[f] = "submitted"
               PROVE  LET c == returned'[f] IN
                 /\ \A s \in StreamsOf[f] : c.images[s] # "none" => <<f, s, c.images[s]>> \in given
                 /\ c.partials # 0 \/ c.last => <<f, "result", "OK">> \in given
                 /\ c.error # "NONE" => <<f, "result", "ERROR">> \in given
                 /\ c.error = "ERROR_REQUEST" => \A s \in StreamsOf[f] : <<f, s, "ERROR">> \in given
                 /\ c.error = "ERROR_RESULT" => \E s \in StreamsOf[f] : <<f, s, "OK">> \in given
    BY <1>2 DEF ReturnedSound, Told
  <2>. DEFINE c == returned'[f]
  <2>1. /\ \A s \in StreamsOf[f] : returned[f].images[s] # "none" =>
                                     <<f, s, returned[f].images[s]>> \in given
        /\ returned[f].partials # 0 \/ returned[f].last => <<f, "result", "OK">> \in given
        /\ returned[f].error # "NONE" => <<f, "result", "ERROR">> \in given
        /\ returned[f].error = "ERROR_REQUEST" => \A s \in StreamsOf[f] : <<f, s, "ERROR">> \in given
        /\ returned[f].error = "ERROR_RESULT" => \E s \in StreamsOf[f] : <<f, s, "OK">> \in given
    BY <1>1, <1>2 DEF ReturnedSound, Told
  <2>2. CASE f \notin DOMAIN mFrameMap
    BY <1>4, <2>1, <2>2
  <2>3. CASE f \in DOMAIN mFrameMap
    <3>1. Returns(f, X.out, c)
      BY <1>3, <2>3
    <3>2. c.partials # 0 \/ c.last => <<f, "result", "OK">> \in given
      BY <2>1, <3>1 DEF Returns
    <3>3. c.error = ErrorOf(f, X.out)
      BY <3>1 DEF Returns
    <3>4. /\ c.error # "NONE" => <<f, "result", "ERROR">> \in given
          /\ c.error = "ERROR_REQUEST" => \A s \in StreamsOf[f] : <<f, s, "ERROR">> \in given
          /\ c.error = "ERROR_RESULT" => \E s \in StreamsOf[f] : <<f, s, "OK">> \in given
      BY <1>8, <2>1, <2>3, <3>3 DEF ErrorOf, Told
    <3>5. ASSUME NEW s \in StreamsOf[f], c.images[s] # "none"
          PROVE  <<f, s, c.images[s]>> \in given
      <4>1. c.images[s] = ImageOf(f, s, X.out)
        BY <3>1 DEF Returns
      <4>2. /\ <<f, s, "OK">> \in X.out.items => <<f, s, "OK">> \in given
            /\ <<f, s, "ERROR">> \in X.out.items => <<f, s, "ERROR">> \in given
        BY <1>5, <1>6, <1>7
      <4>. QED BY <2>1, <3>3, <3>4, <3>5, <4>1, <4>2 DEF ImageOf
    <3>. QED BY <3>2, <3>4, <3>5
  <2>. QED BY <2>2, <2>3
<1>10. ASSUME NEW f \in Frames
       PROVE  /\ returned'[f].shutter =>
                   returned[f].shutter \/ <<f, "shutter", "OK">> \in X.out.items
              /\ returned'[f].last => returned[f].last \/ <<f, "result", "OK">> \in X.out.items
              /\ \A s \in StreamsOf[f] : returned'[f].images[s] = "OK" =>
                   returned[f].images[s] = "OK" \/ <<f, s, "OK">> \in X.out.items
  <2>1. CASE f \notin DOMAIN mFrameMap
    BY <1>4, <2>1
  <2>2. CASE f \in DOMAIN mFrameMap
    <3>1. Returns(f, X.out, returned'[f])
      BY <1>3, <2>2
    <3>2. mFrameMap[f].available /\ <<f, "result", "ERROR">> \notin given => returned[f].last
      BY <1>1, <1>2, <2>2 DEF ParcelSound
    <3>. QED BY <3>1, <3>2 DEF Returns, ImageOf
  <2>. QED BY <2>1, <2>2
<1>11. ReturnedInOrder'
  <2>. SUFFICES ASSUME NEW f \in Frames, NEW g \in DOMAIN X.requests, Earlier(g, f)
               PROVE  LET r == X.requests[g] IN
                 /\ returned'[f].shutter => "RELEASED" \in r["shutter"]
                 /\ returned'[f].last => "RELEASED" \in r["result"]
                 /\ \A s \in StreamsOf[f] \cap StreamsOf[g] :
                      returned'[f].images[s] = "OK" => "RELEASED" \in r[s]
    BY <1>2 DEF ReturnedInOrder, Earlier
  <2>1. g \in DOMAIN mRequestMap
    BY <1>2
  <2>2. \A i \in Items(g) : WasReleased(g, i) => "RELEASED" \in X.requests[g][i]
    BY DEF UpdateStep, Good, Core, ItemsSound
  <2>3. \A i \in Items(f) \cap Items(g) :
          <<f, i, "OK">> \in X.out.items => "RELEASED" \in X.requests[g][i]
    BY DEF UpdateStep, Good, Core, EldersReleased
  <2>4. /\ returned[f].shutter => WasReleased(g, "shutter")
        /\ returned[f].last => WasReleased(g, "result")
        /\ \A s \in StreamsOf[f] \cap StreamsOf[g] :
             returned[f].images[s] = "OK" => WasReleased(g, s)
    BY <1>1, <2>1 DEF ReturnedInOrder, WasReleased
  <2>. QED BY <1>6, <1>10, <2>2, <2>3, <2>4
<1>12. Pushed'
  <2>1. told = returned
    BY <1>1, <1>2 DEF Pushed
  <2>2. ASSUME NEW f \in Frames, NEW g \in Frames, Earlier(g, f)
        PROVE  /\ returned[f].shutter /\ returned'[g].shutter => returned[g].shutter
               /\ returned[f].last /\ returned'[g].last => returned[g].last
               /\ \A s \in StreamsOf[f] \cap StreamsOf[g] :
                    returned[f].images[s] = "OK" /\ returned'[g].images[s] = "OK" =>
                      returned[g].images[s] = "OK"
    <3>1. g \in DOMAIN mRequestMap =>
            /\ returned[f].shutter => WasReleased(g, "shutter")
            /\ returned[f].last => WasReleased(g, "result")
            /\ \A s \in StreamsOf[f] \cap StreamsOf[g] :
                 returned[f].images[s] = "OK" => WasReleased(g, s)
      BY <1>1, <2>2 DEF ReturnedInOrder, WasReleased
    <3>. QED BY <1>5, <1>6, <1>10, <3>1
  <2>3. InOrder(told, returned')
    BY <2>1, <2>2 DEF InOrder
  <2>4. InOrder(told, returned)'
    BY <1>2, <2>3 DEF InOrder, Earlier
  <2>. QED BY <1>2, <2>4 DEF Pushed
<1>. QED BY <1>9, <1>11, <1>12

\* Together: an update keeps the invariant.
LEMMA UpdateKeeps ==
  ASSUME IInv, Update
  PROVE  IInv'
<1>1. UpdateStep(Recommended)
  BY UpdateSteps
<1>2. TypeOK' /\ Submitted' /\ RequestsSound'
  BY <1>1, UpdateKeepsTypes
<1>3. ParcelSound' /\ ReleasedSound' /\ LeavesComplete'
  BY <1>1, UpdateKeepsFrames
<1>4. ReturnedSound' /\ ReturnedInOrder' /\ Pushed'
  BY <1>1, UpdateKeepsReturned
<1>. QED BY <1>2, <1>3, <1>4 DEF IInv
(***************************************************************************)
(* The other actions.                                                      *)
(***************************************************************************)
LEMMA InitKeeps ==
  ASSUME Init
  PROVE  IInv
<1>1. /\ \A f \in Frames : request[f] = "none" /\ returned[f] = Untold(f)
      /\ request = [f \in Frames |-> "none"]
      /\ given = {} /\ mResultQueue = {} /\ Taken = {}
      /\ DOMAIN returned = Frames /\ told = returned
      /\ thread = "idle" /\ drainer = "away"
  BY DEF Init, Taken
<1>2. /\ mFrameMap = <<>> /\ mRequestMap = <<>>
      /\ DOMAIN mFrameMap = {} /\ DOMAIN mRequestMap = {}
  BY DEF Init
<1>3. mFrameMap \in [{} -> Parcels] /\ mRequestMap = [f \in {} |-> mRequestMap[f]]
  BY <1>2
<1>4. \A f \in Frames : Untold(f) \in Callbacks(f)
  BY DEF Untold, Callbacks
<1>5. TypeOK
  BY <1>1, <1>2, <1>3, <1>4 DEF TypeOK, IsRequestMap
<1>6. Submitted
  BY <1>1, <1>2 DEF Submitted, Frames
<1>7. RequestsSound
  BY <1>2 DEF RequestsSound, StatusSound, Notified, FrontReleased, FrontRemoved
<1>8. LeavesComplete
  BY <1>1, <1>2 DEF LeavesComplete, Left
<1>9. ParcelSound /\ ReleasedSound /\ ReturnedSound /\ ReturnedInOrder
  BY <1>1, <1>2 DEF ParcelSound, ReleasedSound, ReturnedSound, ReturnedInOrder
<1>10. Pushed
  BY <1>1 DEF Pushed
<1>. QED BY <1>5, <1>6, <1>7, <1>8, <1>9, <1>10 DEF IInv

\* Nothing has been given of a frame that is yet to come, nor of a later one.
LEMMA NextIs ==
  ASSUME IInv, NEW f \in Frames, IsNext(f)
  PROVE  /\ f \notin DOMAIN mFrameMap /\ returned[f] = Untold(f)
         /\ \A x \in given : x[1] # f
         /\ \A g \in DOMAIN mFrameMap : g < f
         /\ \A g \in Frames : g > f => returned[g] = Untold(g)
         /\ \A g \in 1..f : g # f => request[g] # "none"
<1>1. TypeOK /\ Submitted
  BY DEF IInv
<1>2. request[f] = "none" /\ \A g \in Frames : g < f => request[g] # "none"
  BY DEF IsNext
<1>3. \A g \in Frames : g > f => request[g] = "none"
  <2>. SUFFICES ASSUME NEW g \in Frames, g > f, request[g] # "none" PROVE FALSE
    OBVIOUS
  <2>1. f \in 1..g
    BY DEF Frames
  <2>. QED BY <1>1, <1>2, <2>1 DEF Submitted
<1>4. \A g \in Frames : g < f \/ g = f \/ g > f
  BY DEF Frames
<1>5. \A g \in DOMAIN mFrameMap : g \in Frames /\ request[g] # "none"
  BY <1>1 DEF TypeOK, Submitted
<1>6. \A x \in given : request[x[1]] # "none"
  BY <1>1 DEF Submitted
<1>7. \A g \in 1..f : g # f => request[g] # "none"
  BY <1>2 DEF Frames
<1>. QED BY <1>1, <1>2, <1>3, <1>4, <1>5, <1>6, <1>7 DEF Submitted

\* A request that is registered has nothing that could be released or removed.
LEMMA SubmitKeeps ==
  ASSUME IInv, NEW f \in Frames, SubmitRequest(f)
  PROVE  IInv'
<1>1. TypeOK /\ Submitted /\ RequestsSound /\ ParcelSound /\ ReleasedSound /\ ReturnedSound
      /\ LeavesComplete /\ ReturnedInOrder /\ Pushed
  BY DEF IInv
<1>2. /\ f \notin DOMAIN mFrameMap /\ returned[f] = Untold(f)
      /\ \A x \in given : x[1] # f
      /\ \A g \in DOMAIN mFrameMap : g < f
      /\ \A g \in Frames : g > f => returned[g] = Untold(g)
      /\ \A g \in 1..f : g # f => request[g] # "none"
  BY NextIs DEF SubmitRequest
<1>3. /\ request' = [request EXCEPT ![f] = "submitted"]
      /\ Taken' = Taken /\ Taken \subseteq given
      /\ UNCHANGED <<given, mResultQueue, returned, thread, told, drainer>>
  BY DEF SubmitRequest, Taken
<1>4. /\ request'[f] = "submitted" /\ \A g \in Frames : g # f => request'[g] = request[g]
      /\ request' \in [Frames -> {"none", "submitted", "flushed"}]
  BY <1>1, <1>3 DEF TypeOK
<1>5. /\ DOMAIN mFrameMap' = DOMAIN mFrameMap \cup {f}
      /\ mFrameMap' = [g \in DOMAIN mFrameMap \cup {f} |-> mFrameMap'[g]]
      /\ mFrameMap'[f] = FrameParcel
      /\ \A g \in DOMAIN mFrameMap : mFrameMap'[g] = mFrameMap[g]
  BY <1>2 DEF SubmitRequest
<1>6. DOMAIN mRequestMap = DOMAIN mFrameMap /\ DOMAIN mFrameMap \subseteq Frames
  BY <1>1 DEF LeavesComplete, TypeOK
<1>. DEFINE R == mRequestMap
            Q == mRequestMap'
<1>7. /\ DOMAIN Q = DOMAIN R \cup {f}
      /\ Q = [g \in DOMAIN R \cup {f} |-> Q[g]]
      /\ Q[f] = [i \in Items(f) |-> INFLIGHT]
      /\ \A g \in DOMAIN R : Q[g] = R[g]
  BY <1>2, <1>6 DEF SubmitRequest, RegisterRequest
<1>. HIDE DEF R, Q
<1>8. \A i : /\ <<f, i, "OK">> \notin Taken /\ <<f, i, "ERROR">> \notin Taken
             /\ Failure(f, i) \notin Taken
  BY <1>2, <1>3 DEF Failure
<1>9. TypeOK'
  <2>1. FrameParcel \in Parcels
    BY DEF FrameParcel, Parcels
  <2>2. mFrameMap' \in [DOMAIN mFrameMap' -> Parcels]
    BY <1>1, <1>5, <2>1 DEF TypeOK
  <2>3. \A g \in DOMAIN mFrameMap \cup {f} : Q[g] \in [Items(g) -> SUBSET Status]
    BY <1>1, <1>6, <1>7 DEF TypeOK, IsRequestMap, INFLIGHT, R
  <2>4. IsRequestMap(mRequestMap, DOMAIN mFrameMap)'
    BY <1>5, <1>6, <1>7, <2>3 DEF IsRequestMap, Q, R
  <2>. QED BY <1>1, <1>3, <1>4, <1>5, <2>2, <2>4 DEF TypeOK, Callbacks
<1>10. Submitted'
  <2>1. \A g \in Frames : request'[g] # "none" => \A h \in 1..g : request'[h] # "none"
    <3>. SUFFICES ASSUME NEW g \in Frames, request'[g] # "none", NEW h \in 1..g
                 PROVE  request'[h] # "none"
      OBVIOUS
    <3>1. h \in Frames
      BY DEF Frames
    <3>2. CASE g = f
      BY <1>2, <1>4, <3>1, <3>2
    <3>3. CASE g # f
      BY <1>1, <1>4, <3>1, <3>3 DEF Submitted
    <3>. QED BY <3>2, <3>3
  <2>2. \A g \in Frames : request'[g] = "none" => returned[g] = Untold(g)
    BY <1>1, <1>4 DEF Submitted
  <2>3. \A x \in given : request'[x[1]] = "submitted" /\ (x[2] = "shutter" => x[3] = "OK")
    BY <1>1, <1>2, <1>4, GivenIs DEF Submitted
  <2>4. \A g \in DOMAIN mFrameMap' : request'[g] = "submitted"
    BY <1>1, <1>4, <1>5, <1>6 DEF Submitted
  <2>5. \A x, y \in given : x[1] = y[1] /\ x[2] = y[2] => x = y
    BY <1>1 DEF Submitted
  <2>. QED BY <1>3, <2>1, <2>2, <2>3, <2>4, <2>5 DEF Submitted, Untold
<1>11. \A g \in DOMAIN Q : \A i \in Items(g) : Q[g][i] # INFLIGHT => g \in DOMAIN R
  BY <1>7
<1>12. RequestsSound'
  <2>1. StatusSound(Q, Taken)
    <3>. SUFFICES ASSUME NEW g \in DOMAIN Q, NEW i \in Items(g)
                 PROVE  StatusOf(Q[g][i], g, i, Taken)
      BY DEF StatusSound
    <3>1. CASE g = f
      BY <1>7, <1>8, <3>1 DEF StatusOf, INFLIGHT
    <3>2. CASE g # f
      BY <1>1, <1>7, <3>2 DEF RequestsSound, StatusSound, R
    <3>. QED BY <3>1, <3>2
  <2>2. Notified(Q)
    <3>. SUFFICES ASSUME NEW g \in DOMAIN Q PROVE NotifiedOf(Q[g], g)
      BY DEF Notified
    <3>1. CASE g = f
      BY <1>7, <3>1 DEF NotifiedOf, INFLIGHT, Items
    <3>2. CASE g # f
      BY <1>1, <1>7, <3>2 DEF RequestsSound, Notified, R
    <3>. QED BY <3>1, <3>2
  <2>3. FrontReleased(Q)
    <3>. SUFFICES ASSUME NEW g \in DOMAIN Q, NEW i \in Items(g), Q[g][i] # INFLIGHT,
                        \A h \in Queue(Q, g, i) : h < g => Q[h][i] # INFLIGHT
                 PROVE  "RELEASED" \in Q[g][i]
      BY DEF FrontReleased
    <3>1. g \in DOMAIN R /\ Q[g] = R[g]
      BY <1>7, <1>11
    <3>2. \A h \in Queue(R, g, i) : h \in Queue(Q, g, i) /\ Q[h] = R[h]
      BY <1>7 DEF Queue
    <3>. QED BY <1>1, <3>1, <3>2 DEF RequestsSound, FrontReleased, R
  <2>4. FrontRemoved(Q)
    <3>. SUFFICES ASSUME NEW g \in DOMAIN Q, IsRemovable(Q[g])
                 PROVE  \E h \in DOMAIN Q : h < g /\ ~IsRemovable(Q[h])
      BY DEF FrontRemoved
    <3>1. g # f
      BY <1>7 DEF IsRemovable, INFLIGHT, Items
    <3>2. g \in DOMAIN R /\ IsRemovable(R[g])
      BY <1>7, <3>1
    <3>3. PICK h \in DOMAIN R : h < g /\ ~IsRemovable(R[h])
      BY <1>1, <3>2 DEF RequestsSound, FrontRemoved, R
    <3>. QED BY <1>7, <3>3
  <2>5. StatusSound(mRequestMap, Taken)'
    BY <1>3, <2>1 DEF StatusSound, StatusOf, Failure, Q
  <2>6. Notified(mRequestMap)'
    BY <2>2 DEF Notified, NotifiedOf, Error, OneValid, AllFailed, Q
  <2>7. FrontReleased(mRequestMap)'
    BY <2>3 DEF FrontReleased, Queue, INFLIGHT, Q
  <2>8. FrontRemoved(mRequestMap)'
    BY <2>4 DEF FrontRemoved, IsRemovable, Q
  <2>. QED BY <2>5, <2>6, <2>7, <2>8 DEF RequestsSound
<1>13. ParcelSound'
  <2>. SUFFICES ASSUME NEW g \in DOMAIN mFrameMap'
               PROVE  /\ mFrameMap'[g].error # "NONE" <=> <<g, "result", "ERROR">> \in Taken
                      /\ mFrameMap'[g].hasLastPartial <=> <<g, "result", "OK">> \in Taken
                      /\ mFrameMap'[g].available /\ mFrameMap'[g].error = "NONE"
                           => returned[g].last
    BY <1>3 DEF ParcelSound
  <2>1. CASE g = f
    BY <1>5, <1>8, <2>1 DEF FrameParcel
  <2>2. CASE g # f
    BY <1>1, <1>5, <2>2 DEF ParcelSound
  <2>. QED BY <2>1, <2>2
<1>14. ReleasedSound'
  <2>. SUFFICES ASSUME NEW g \in DOMAIN Q
               PROVE  LET r == Q[g] IN
                 /\ "RELEASED" \in r["shutter"] => returned[g].shutter \/ "ERROR" \in r["shutter"]
                 /\ "RELEASED" \in r["result"] =>
                      mFrameMap'[g].available \/ "ERROR" \in r["result"]
                 /\ \A s \in Outputs(g) : "RELEASED" \in r[s] => returned[g].images[s] # "none"
                 /\ returned[g].error # "NONE" <=> "NOTIFIED" \in r["result"]
    BY <1>3 DEF ReleasedSound, Told, Outputs, Q
  <2>1. CASE g = f
    BY <1>2, <1>7, <2>1 DEF INFLIGHT, Items, Outputs, Untold
  <2>2. CASE g # f
    BY <1>1, <1>5, <1>6, <1>7, <2>2 DEF ReleasedSound, R, Told
  <2>. QED BY <2>1, <2>2
<1>15. ReturnedSound'
  <2>1. /\ \A s \in StreamsOf[f] : returned[f].images[s] = "none"
        /\ returned[f].partials = 0 /\ ~returned[f].last /\ returned[f].error = "NONE"
    BY <1>2 DEF Untold
  <2>2. \A g \in Frames : request'[g] = "submitted" => g = f \/ request[g] = "submitted"
    BY <1>4
  <2>. QED BY <1>1, <1>3, <2>1, <2>2 DEF ReturnedSound, Told
<1>16. LeavesComplete'
  <2>1. Left' = Left
    <3>1. request[f] = "none"
      BY DEF SubmitRequest, IsNext
    <3>. QED BY <1>4, <1>5, <1>6, <3>1 DEF Left
  <2>. QED BY <1>1, <1>3, <1>5, <1>6, <1>7, <2>1 DEF LeavesComplete, Outputs, Told, R, Q
<1>17. ReturnedInOrder'
  <2>. SUFFICES ASSUME NEW e \in Frames, NEW g \in DOMAIN Q, Earlier(g, e)
               PROVE  LET r == Q[g] IN
                 /\ returned[e].shutter => "RELEASED" \in r["shutter"]
                 /\ returned[e].last => "RELEASED" \in r["result"]
                 /\ \A s \in StreamsOf[e] \cap StreamsOf[g] :
                      returned[e].images[s] = "OK" => "RELEASED" \in r[s]
    BY <1>3 DEF ReturnedInOrder, Earlier, Q
  <2>1. CASE g = f
    <3>1. returned[e] = Untold(e)
      BY <1>2, <2>1 DEF Earlier, Frames
    <3>. QED BY <3>1 DEF Untold
  <2>2. CASE g # f
    BY <1>1, <1>6, <1>7, <2>2 DEF ReturnedInOrder, R
  <2>. QED BY <2>1, <2>2
<1>18. Pushed'
  BY <1>1, <1>3 DEF Pushed, InOrder, Earlier
<1>. QED BY <1>9, <1>10, <1>12, <1>13, <1>14, <1>15, <1>16, <1>17, <1>18 DEF IInv

\* A flushed request fails as a whole: of it, nobody gets anything good.
LEMMA FlushKeeps ==
  ASSUME IInv, NEW f \in Frames, FlushRequest(f)
  PROVE  IInv'
<1>1. TypeOK /\ Submitted /\ RequestsSound /\ ParcelSound /\ ReleasedSound /\ ReturnedSound
      /\ LeavesComplete /\ ReturnedInOrder /\ Pushed
  BY DEF IInv
<1>2. /\ f \notin DOMAIN mFrameMap /\ request[f] = "none"
      /\ \A x \in given : x[1] # f
      /\ \A g \in 1..f : g # f => request[g] # "none"
  BY NextIs DEF FlushRequest, IsNext
<1>3. /\ request' = [request EXCEPT ![f] = "flushed"]
      /\ returned' = [returned EXCEPT ![f] = Flushed(f)]
      /\ told' = [told EXCEPT ![f] = Flushed(f)]
      /\ Taken' = Taken
      /\ UNCHANGED <<given, mResultQueue, mFrameMap, mRequestMap, thread, drainer>>
  BY DEF FlushRequest, Taken
<1>4. /\ request'[f] = "flushed" /\ \A g \in Frames : g # f => request'[g] = request[g]
      /\ request' \in [Frames -> {"none", "submitted", "flushed"}]
      /\ DOMAIN returned' = Frames /\ returned'[f] = Flushed(f)
      /\ \A g \in Frames : g # f => returned'[g] = returned[g]
      /\ DOMAIN told' = Frames /\ told'[f] = Flushed(f)
      /\ \A g \in Frames : g # f => told'[g] = told[g]
  BY <1>1, <1>3 DEF TypeOK
<1>5. /\ Flushed(f) \in Callbacks(f) /\ Flushed(f).shutter = FALSE /\ Flushed(f).last = FALSE
      /\ \A s \in StreamsOf[f] : Flushed(f).images[s] = "ERROR"
  <2>. DEFINE failed == [s \in StreamsOf[f] |-> "ERROR"]
  <2>1. Flushed(f) = [Untold(f) EXCEPT !.error = "ERROR_REQUEST", !.images = failed]
    BY DEF Flushed
  <2>2. failed \in [StreamsOf[f] -> {"none", "OK", "ERROR"}]
        /\ \A s \in StreamsOf[f] : failed[s] = "ERROR"
    OBVIOUS
  <2>3. Untold(f) \in Callbacks(f)
    BY DEF Untold, Callbacks
  <2>4. Flushed(f).shutter = FALSE /\ Flushed(f).last = FALSE
        /\ \A s \in StreamsOf[f] : Flushed(f).images[s] = "ERROR"
    BY DEF Flushed, Untold
  <2>. HIDE DEF failed
  <2>5. Flushed(f) \in Callbacks(f)
    BY <2>1, <2>2, <2>3 DEF Callbacks
  <2>. QED BY <2>4, <2>5
<1>6. DOMAIN mRequestMap = DOMAIN mFrameMap /\ DOMAIN mFrameMap \subseteq Frames
  BY <1>1 DEF LeavesComplete, TypeOK
<1>7. TypeOK'
  <2>1. IsRequestMap(mRequestMap, DOMAIN mFrameMap)'
    BY <1>1, <1>3 DEF TypeOK, IsRequestMap
  <2>2. \A g \in Frames : returned'[g] \in Callbacks(g) /\ told'[g] \in Callbacks(g)
    BY <1>1, <1>4, <1>5 DEF TypeOK
  <2>. QED BY <1>1, <1>3, <1>4, <2>1, <2>2 DEF TypeOK, Callbacks
<1>8. Submitted'
  <2>1. \A g \in Frames : request'[g] # "none" => \A h \in 1..g : request'[h] # "none"
    <3>. SUFFICES ASSUME NEW g \in Frames, request'[g] # "none", NEW h \in 1..g
                 PROVE  request'[h] # "none"
      OBVIOUS
    <3>1. h \in Frames
      BY DEF Frames
    <3>2. CASE g = f
      BY <1>2, <1>4, <3>1, <3>2
    <3>3. CASE g # f
      BY <1>1, <1>4, <3>1, <3>3 DEF Submitted
    <3>. QED BY <3>2, <3>3
  <2>2. \A g \in Frames : request'[g] = "none" => returned'[g] = Untold(g)
    BY <1>1, <1>4 DEF Submitted
  <2>3. \A x \in given : request'[x[1]] = "submitted" /\ (x[2] = "shutter" => x[3] = "OK")
    BY <1>1, <1>2, <1>4, GivenIs DEF Submitted
  <2>4. \A g \in DOMAIN mFrameMap : request'[g] = "submitted"
    BY <1>1, <1>2, <1>4, <1>6 DEF Submitted
  <2>5. \A x, y \in given : x[1] = y[1] /\ x[2] = y[2] => x = y
    BY <1>1 DEF Submitted
  <2>. QED BY <1>3, <2>1, <2>2, <2>3, <2>4, <2>5 DEF Submitted, Untold
<1>9. RequestsSound'
  BY <1>1, <1>3 DEF RequestsSound, StatusSound, StatusOf, Failure, Notified, NotifiedOf,
                    Error, OneValid, AllFailed, FrontReleased, Queue, INFLIGHT, FrontRemoved,
                    IsRemovable
<1>10. ParcelSound'
  BY <1>1, <1>2, <1>3, <1>4, <1>6 DEF ParcelSound
<1>11. ReleasedSound'
  BY <1>1, <1>2, <1>3, <1>4, <1>6 DEF ReleasedSound, Told, Outputs
<1>12. ReturnedSound'
  <2>. SUFFICES ASSUME NEW g \in Frames, request'[g] = "submitted"
               PROVE  LET c == returned'[g] IN
                 /\ \A s \in StreamsOf[g] : c.images[s] # "none" => <<g, s, c.images[s]>> \in Taken
                 /\ c.partials # 0 \/ c.last => <<g, "result", "OK">> \in Taken
                 /\ c.error # "NONE" => <<g, "result", "ERROR">> \in Taken
                 /\ c.error = "ERROR_REQUEST" => \A s \in StreamsOf[g] : <<g, s, "ERROR">> \in Taken
                 /\ c.error = "ERROR_RESULT" => \E s \in StreamsOf[g] : <<g, s, "OK">> \in Taken
    BY <1>3 DEF ReturnedSound, Told
  <2>1. request[g] = "submitted" /\ returned'[g] = returned[g]
    BY <1>4
  <2>. QED BY <1>1, <2>1 DEF ReturnedSound, Told
<1>13. LeavesComplete'
  <2>1. Left' = Left /\ f \notin Left
    <3>1. \A g \in Frames : request'[g] = "submitted" <=> request[g] = "submitted"
      BY <1>2, <1>4
    <3>. QED BY <1>2, <1>3, <3>1 DEF Left
  <2>2. \A g \in Left : returned'[g] = returned[g]
    BY <1>4, <2>1 DEF Left
  <2>. QED BY <1>1, <1>3, <2>1, <2>2 DEF LeavesComplete, Outputs, Told
<1>14. ReturnedInOrder'
  <2>. SUFFICES ASSUME NEW e \in Frames, NEW g \in DOMAIN mRequestMap, Earlier(g, e)
               PROVE  LET r == mRequestMap[g] IN
                 /\ returned'[e].shutter => "RELEASED" \in r["shutter"]
                 /\ returned'[e].last => "RELEASED" \in r["result"]
                 /\ \A s \in StreamsOf[e] \cap StreamsOf[g] :
                      returned'[e].images[s] = "OK" => "RELEASED" \in r[s]
    BY <1>3 DEF ReturnedInOrder, Earlier
  <2>1. CASE e = f
    BY <1>4, <1>5, <2>1
  <2>2. CASE e # f
    BY <1>1, <1>4, <2>2 DEF ReturnedInOrder
  <2>. QED BY <2>1, <2>2
<1>15. Pushed'
  <2>1. CASE thread = "idle"
    BY <1>1, <1>3, <2>1 DEF Pushed
  <2>2. CASE thread # "idle"
    <3>1. InOrder(told, returned)
      BY <1>1, <2>2 DEF Pushed
    <3>2. InOrder(told', returned')
      <4>. SUFFICES ASSUME NEW a \in Frames, NEW b \in Frames, Earlier(b, a)
                   PROVE  /\ told'[a].shutter /\ returned'[b].shutter => told'[b].shutter
                          /\ told'[a].last /\ returned'[b].last => told'[b].last
                          /\ \A s \in StreamsOf[a] \cap StreamsOf[b] :
                               told'[a].images[s] = "OK" /\ returned'[b].images[s] = "OK" =>
                                 told'[b].images[s] = "OK"
        BY DEF InOrder
      <4>1. CASE a = f \/ b = f
        BY <1>4, <1>5, <4>1
      <4>2. CASE a # f /\ b # f
        BY <1>4, <3>1, <4>2 DEF InOrder
      <4>. QED BY <4>1, <4>2
    <3>3. InOrder(told, returned)'
      BY <3>2 DEF InOrder, Earlier
    <3>. QED BY <1>3, <2>2, <3>3 DEF Pushed
  <2>. QED BY <2>1, <2>2
<1>. QED BY <1>7, <1>8, <1>9, <1>10, <1>11, <1>12, <1>13, <1>14, <1>15 DEF IInv

\* Nothing the invariant says depends on the queue but by what has been taken.
LEMMA SameTaken ==
  ASSUME IInv, Taken' = Taken, UNCHANGED <<request, frameVars>>
  PROVE  /\ RequestsSound' /\ ParcelSound' /\ ReleasedSound' /\ ReturnedSound'
         /\ LeavesComplete' /\ ReturnedInOrder'
<1>1. /\ request' = request /\ mFrameMap' = mFrameMap /\ mRequestMap' = mRequestMap
      /\ returned' = returned
  BY DEF frameVars
<1>2. RequestsSound'
  BY <1>1 DEF IInv, RequestsSound, StatusSound, StatusOf, Failure, Notified, NotifiedOf,
              Error, OneValid, AllFailed, FrontReleased, Queue, INFLIGHT, FrontRemoved,
              IsRemovable
<1>3. ParcelSound'
  BY <1>1 DEF IInv, ParcelSound
<1>4. ReleasedSound'
  BY <1>1 DEF IInv, ReleasedSound, Told, Outputs
<1>5. ReturnedSound'
  BY <1>1 DEF IInv, ReturnedSound, Told
<1>6. LeavesComplete'
  BY <1>1 DEF IInv, LeavesComplete, Left, Outputs, Told
<1>7. ReturnedInOrder'
  BY <1>1 DEF IInv, ReturnedInOrder, Earlier
<1>. QED BY <1>2, <1>3, <1>4, <1>5, <1>6, <1>7

\* What comes into the queue is not taken yet.
LEMMA EnqueKeeps ==
  ASSUME IInv, NEW f \in Frames, EnqueResult(f)
  PROVE  IInv'
<1>1. TypeOK /\ Submitted /\ Pushed
  BY DEF IInv
<1>2. PICK what \in Items(f), status \in {"OK", "ERROR"} :
        /\ <<f, what>> \notin {<<x[1], x[2]>> : x \in given}
        /\ status = "ERROR" => what # "shutter"
        /\ given' = given \cup {<<f, what, status>>}
        /\ mResultQueue' = mResultQueue \cup {<<f, what, status>>}
  BY DEF EnqueResult
<1>3. /\ request[f] = "submitted"
      /\ request' = request /\ mFrameMap' = mFrameMap /\ mRequestMap' = mRequestMap
      /\ returned' = returned /\ thread' = thread /\ told' = told /\ drainer' = drainer
  BY DEF EnqueResult, frameVars
<1>. DEFINE y == <<f, what, status>>
<1>4. y[1] = f /\ y[2] = what /\ y[3] = status /\ y \in {f} \X Items(f) \X {"OK", "ERROR"}
  OBVIOUS
<1>5. \A x \in given : ~ (x[1] = y[1] /\ x[2] = y[2])
  BY <1>2, <1>4
<1>6. given' = given \cup {y} /\ mResultQueue' = mResultQueue \cup {y}
  BY <1>2
<1>. HIDE DEF y
<1>7. Taken' = Taken
  BY <1>5, <1>6 DEF Taken
<1>8. TypeOK'
  <2>1. given' \subseteq UNION {{g} \X Items(g) \X {"OK", "ERROR"} : g \in Frames}
    BY <1>1, <1>4, <1>6 DEF TypeOK
  <2>2. IsRequestMap(mRequestMap, DOMAIN mFrameMap)'
    BY <1>1, <1>3 DEF TypeOK, IsRequestMap
  <2>3. mResultQueue' \subseteq given'
    BY <1>1, <1>6 DEF TypeOK
  <2>. QED BY <1>1, <1>3, <2>1, <2>2, <2>3 DEF TypeOK, Callbacks, Items
<1>9. Submitted'
  <2>1. \A x \in given' : request[x[1]] = "submitted" /\ (x[2] = "shutter" => x[3] = "OK")
    BY <1>1, <1>2, <1>3, <1>4, <1>6 DEF Submitted
  <2>2. \A x, z \in given' : x[1] = z[1] /\ x[2] = z[2] => x = z
    BY <1>1, <1>5, <1>6 DEF Submitted
  <2>. QED BY <1>1, <1>3, <2>1, <2>2 DEF Submitted, Untold
<1>10. Pushed'
  BY <1>1, <1>3 DEF Pushed, InOrder, Earlier
<1>11. UNCHANGED <<request, frameVars>>
  BY <1>3 DEF frameVars
<1>. QED BY <1>7, <1>8, <1>9, <1>10, <1>11, SameTaken DEF IInv

\* Pushing, waiting, and no step at all.
LEMMA QuietKeeps ==
  ASSUME IInv, UNCHANGED <<request, given, mResultQueue, frameVars>>,
         \/ thread' = "idle" /\ told' = returned
         \/ UNCHANGED <<thread, told>>,
         drainer' \in {drainer, "OK", "asleep", "TIMED_OUT"}
  PROVE  IInv'
<1>1. TypeOK /\ Submitted /\ Pushed
  BY DEF IInv
<1>2. /\ request' = request /\ mFrameMap' = mFrameMap /\ mRequestMap' = mRequestMap
      /\ returned' = returned /\ given' = given /\ mResultQueue' = mResultQueue
      /\ Taken' = Taken
  BY DEF frameVars, Taken
<1>3. TypeOK'
  <2>1. IsRequestMap(mRequestMap, DOMAIN mFrameMap)'
    BY <1>1, <1>2 DEF TypeOK, IsRequestMap
  <2>2. DOMAIN told' = Frames /\ \A f \in Frames : told'[f] \in Callbacks(f)
    BY <1>1 DEF TypeOK
  <2>3. thread' \in {"idle", "pushing"} /\ drainer' \in {"away", "asleep", "OK", "TIMED_OUT"}
    BY <1>1 DEF TypeOK
  <2>. QED BY <1>1, <1>2, <2>1, <2>2, <2>3 DEF TypeOK, Callbacks, Items
<1>4. Submitted'
  BY <1>1, <1>2 DEF Submitted, Untold
<1>5. Pushed'
  BY <1>1, <1>2 DEF Pushed, InOrder, Earlier
<1>. QED BY <1>2, <1>3, <1>4, <1>5, SameTaken DEF IInv

\* Every step keeps the invariant.
LEMMA NextKeeps ==
  ASSUME IInv, [Next]_vars
  PROVE  IInv'
<1>1. ASSUME NEW f \in Frames, SubmitRequest(f) PROVE IInv'
  BY <1>1, SubmitKeeps
<1>2. ASSUME NEW f \in Frames, FlushRequest(f) PROVE IInv'
  BY <1>2, FlushKeeps
<1>3. ASSUME NEW f \in Frames, EnqueResult(f) PROVE IInv'
  BY <1>3, EnqueKeeps
<1>4. CASE Update
  BY <1>4, UpdateKeeps
<1>5. CASE Push
  BY <1>5, QuietKeeps DEF Push
<1>6. CASE WaitUntilDrained
  BY <1>6, QuietKeeps DEF WaitUntilDrained
<1>7. CASE WaitTimesOut
  BY <1>7, QuietKeeps DEF WaitTimesOut
<1>8. CASE UNCHANGED vars
  BY <1>8, QuietKeeps DEF vars
<1>. QED BY <1>1, <1>2, <1>3, <1>4, <1>5, <1>6, <1>7, <1>8 DEF Next

(***************************************************************************)
(* The invariant, for any requests, types and streams.                     *)
(***************************************************************************)
THEOREM Invariance == Spec => []IInv
<1>1. Init => IInv
  BY InitKeeps
<1>2. IInv /\ [Next]_vars => IInv'
  BY NextKeeps
<1>. QED BY <1>1, <1>2, PTL DEF Spec

(***************************************************************************)
(* A frame leaves the frame handler and the recommender together, with all *)
(* of its output images and its shutter and last metadata, or an error.    *)
(***************************************************************************)
THEOREM LeavesCompleteHolds == Spec => []LeavesComplete
<1>1. IInv => LeavesComplete
  BY DEF IInv
<1>. QED BY <1>1, Invariance, PTL

(***************************************************************************)
(* An image goes out with the status the pipeline gave it, an error only   *)
(* for a failed result and as ERROR_REQUEST just when all images failed.   *)
(***************************************************************************)
THEOREM TellsTheTruthHolds == Spec => []TellsTheTruth
<1>1. ASSUME IInv PROVE TellsTheTruth
  <2>. SUFFICES ASSUME NEW f \in Frames, request[f] = "submitted"
               PROVE  /\ \A s \in StreamsOf[f] : returned[f].images[s] # "none" =>
                               <<f, s, returned[f].images[s]>> \in given
                      /\ Told(f) =>
                           /\ <<f, "result", "ERROR">> \in given
                           /\ returned[f].partials = 0 /\ ~returned[f].last
                           /\ returned[f].error = "ERROR_REQUEST"
                                <=> \A s \in StreamsOf[f] : <<f, s, "ERROR">> \in given
    BY DEF TellsTheTruth
  <2>1. TypeOK /\ Submitted /\ ReturnedSound /\ Taken \subseteq given
    BY <1>1 DEF IInv, Taken
  <2>2. \A s \in StreamsOf[f] : returned[f].images[s] # "none" =>
                               <<f, s, returned[f].images[s]>> \in given
    BY <2>1 DEF ReturnedSound
  <2>3. \A i : ~ (<<f, i, "OK">> \in given /\ <<f, i, "ERROR">> \in given)
    <3>. SUFFICES ASSUME NEW i, <<f, i, "OK">> \in given, <<f, i, "ERROR">> \in given
                 PROVE  FALSE
      OBVIOUS
    <3>. DEFINE x == <<f, i, "OK">>
                y == <<f, i, "ERROR">>
    <3>1. x[1] = y[1] /\ x[2] = y[2] /\ x[3] # y[3] /\ x \in given /\ y \in given
      OBVIOUS
    <3>. HIDE DEF x, y
    <3>. QED BY <2>1, <3>1 DEF Submitted
  <2>4. ASSUME Told(f)
        PROVE  /\ <<f, "result", "ERROR">> \in given
               /\ returned[f].partials = 0 /\ ~returned[f].last
               /\ returned[f].error = "ERROR_REQUEST"
                    <=> \A s \in StreamsOf[f] : <<f, s, "ERROR">> \in given
    <3>1. <<f, "result", "ERROR">> \in given
      BY <2>1, <2>4 DEF ReturnedSound
    <3>2. returned[f].partials = 0 /\ ~returned[f].last
      BY <2>1, <2>3, <3>1 DEF ReturnedSound
    <3>3. returned[f].error = "ERROR_REQUEST" \/ returned[f].error = "ERROR_RESULT"
      BY <2>1, <2>4 DEF Told, TypeOK, Callbacks
    <3>4. returned[f].error = "ERROR_REQUEST" => \A s \in StreamsOf[f] : <<f, s, "ERROR">> \in given
      BY <2>1 DEF ReturnedSound
    <3>5. returned[f].error = "ERROR_RESULT" => \E s \in StreamsOf[f] : <<f, s, "OK">> \in given
      BY <2>1 DEF ReturnedSound
    <3>. QED BY <2>3, <3>1, <3>2, <3>3, <3>4, <3>5
  <2>. QED BY <2>2, <2>4
<1>. QED BY <1>1, Invariance, PTL

(***************************************************************************)
(* When everything has come and has been taken, no frame is left: of those *)
(* that were, the least would have been released and removed.              *)
(***************************************************************************)
THEOREM NoFrameStuckHolds == Spec => []NoFrameStuck
<1>1. ASSUME IInv PROVE NoFrameStuck
  <2>. SUFFICES ASSUME AllGiven, mResultQueue = {}, DOMAIN mFrameMap # {} PROVE FALSE
    BY DEF NoFrameStuck
  <2>1. /\ TypeOK /\ Submitted /\ RequestsSound /\ Taken = given
        /\ DOMAIN mRequestMap = DOMAIN mFrameMap
    BY <1>1 DEF IInv, Taken, LeavesComplete
  <2>. DEFINE R == mRequestMap
  <2>2. \A f \in DOMAIN R : \A i \in Items(f) : R[f][i] # INFLIGHT
    <3>. SUFFICES ASSUME NEW f \in DOMAIN R, NEW i \in Items(f) PROVE R[f][i] # INFLIGHT
      OBVIOUS
    <3>1. f \in Frames /\ request[f] = "submitted"
      BY <2>1 DEF TypeOK, Submitted
    <3>2. PICK x \in given : x[1] = f /\ x[2] = i
      BY <3>1 DEF AllGiven
    <3>3. x = <<f, i, "OK">> \/ x = <<f, i, "ERROR">>
      BY <2>1, <3>2, GivenIs DEF Statuses
    <3>4. StatusOf(R[f][i], f, i, given)
      BY <2>1 DEF RequestsSound, StatusSound
    <3>5. CASE x = <<f, i, "OK">>
      BY <3>4, <3>5 DEF StatusOf
    <3>6. CASE x = <<f, i, "ERROR">>
      <4>1. i # "shutter"
        BY <2>1, <3>6 DEF Submitted
      <4>2. Failure(f, i) \in given
        BY <3>6, <4>1 DEF Failure
      <4>. QED BY <3>4, <4>2 DEF StatusOf, INFLIGHT
    <3>. QED BY <3>3, <3>5, <3>6
  <2>3. \A f \in DOMAIN R : IsRemovable(R[f])
    <3>. SUFFICES ASSUME NEW f \in DOMAIN R PROVE IsRemovable(R[f])
      OBVIOUS
    <3>1. DOMAIN R[f] = Items(f)
      BY <2>1 DEF TypeOK, IsRequestMap
    <3>2. \A i \in Items(f) : \A g \in Queue(R, f, i) : R[g][i] # INFLIGHT
      BY <2>2 DEF Queue
    <3>3. \A i \in Items(f) : "RELEASED" \in R[f][i]
      BY <2>1, <2>2, <3>2 DEF RequestsSound, FrontReleased
    <3>. QED BY <3>1, <3>3 DEF IsRemovable
  <2>4. PICK f \in DOMAIN R : TRUE
    BY <2>1
  <2>5. \E g \in DOMAIN R : g < f /\ ~IsRemovable(R[g])
    BY <2>1, <2>3 DEF RequestsSound, FrontRemoved
  <2>. QED BY <2>3, <2>5
<1>. QED BY <1>1, Invariance, PTL

(***************************************************************************)
(* Among the requests of a type, shutters, last metadata and the images of *)
(* a stream go to the app in the order of the frames.                      *)
(***************************************************************************)
THEOREM CallbacksInOrderHolds == Spec => CallbacksInOrder
<1>1. ASSUME IInv, [Next]_vars PROVE [InOrder(told, told')]_told
  <2>1. TypeOK /\ Pushed
    BY <1>1 DEF IInv
  <2>2. ASSUME NEW f \in Frames, FlushRequest(f) PROVE InOrder(told, told')
    <3>1. /\ told'[f] = Flushed(f) /\ \A g \in Frames : g # f => told'[g] = told[g]
      BY <2>1, <2>2 DEF TypeOK, FlushRequest
    <3>2. /\ Flushed(f).shutter = FALSE /\ Flushed(f).last = FALSE
          /\ \A s \in StreamsOf[f] : Flushed(f).images[s] = "ERROR"
      BY DEF Flushed, Untold
    <3>. SUFFICES ASSUME NEW a \in Frames, NEW b \in Frames, Earlier(b, a)
                 PROVE  /\ told[a].shutter /\ told'[b].shutter => told[b].shutter
                        /\ told[a].last /\ told'[b].last => told[b].last
                        /\ \A s \in StreamsOf[a] \cap StreamsOf[b] :
                             told[a].images[s] = "OK" /\ told'[b].images[s] = "OK" =>
                               told[b].images[s] = "OK"
      BY DEF InOrder
    <3>3. CASE b = f
      BY <3>1, <3>2, <3>3
    <3>4. CASE b # f
      BY <3>1, <3>4
    <3>. QED BY <3>3, <3>4
  <2>3. CASE Push
    BY <2>1, <2>3 DEF Push, Pushed
  <2>4. CASE ~Push /\ ~(\E f \in Frames : FlushRequest(f))
    BY <1>1, <2>4 DEF Next, vars, SubmitRequest, EnqueResult, Update, WaitUntilDrained, WaitTimesOut
  <2>. QED BY <2>2, <2>3, <2>4
<1>2. IInv /\ [Next]_vars => [InOrder(told, told')]_told
  BY <1>1
<1>. QED BY <1>2, Invariance, PTL DEF Spec, CallbacksInOrder
-----------------------------------------------------------------------------
(***************************************************************************)
(* What waitUntilDrained() may rely on.                                    *)
(***************************************************************************)
Complete(f, c) ==
  /\ \A s \in Outputs(f) : c.images[s] # "none"
  /\ (c.last /\ c.shutter) \/ c.error # "NONE"

DrainerSound ==
  /\ drainer # "away" => \A f \in Frames : request[f] # "none"
  /\ drainer = "OK" => DOMAIN mFrameMap = {}

DrainedComplete == drainer = "OK" => \A f \in Frames : request[f] = "submitted" =>
  Complete(f, returned[f]) /\ (thread = "idle" => Complete(f, told[f]))

\* Once somebody waits, no request is new, and the map only shrinks.
LEMMA DrainerKeeps ==
  ASSUME IInv, DrainerSound, [Next]_vars
  PROVE  DrainerSound'
<1>1. ASSUME NEW f \in Frames, request[f] = "none", request' = [request EXCEPT ![f] = "submitted"],
             drainer' = drainer
      PROVE  DrainerSound'
  BY <1>1 DEF DrainerSound
<1>2. ASSUME NEW f \in Frames, SubmitRequest(f) PROVE DrainerSound'
  BY <1>1, <1>2 DEF SubmitRequest, IsNext
<1>3. ASSUME NEW f \in Frames, FlushRequest(f) PROVE DrainerSound'
  <2>1. /\ request' = [request EXCEPT ![f] = "flushed"] /\ request \in [Frames -> {"none", "submitted", "flushed"}]
        /\ UNCHANGED <<drainer, mFrameMap>>
    BY <1>3 DEF FlushRequest, IInv, TypeOK
  <2>. QED BY <2>1 DEF DrainerSound
<1>4. ASSUME NEW f \in Frames, EnqueResult(f) PROVE DrainerSound'
  BY <1>4 DEF EnqueResult, frameVars, DrainerSound
<1>5. CASE Update
  <2>1. UpdateStep(Recommended)
    BY <1>5, UpdateSteps
  <2>2. /\ DOMAIN mFrameMap' \subseteq DOMAIN mFrameMap
        /\ UNCHANGED <<request, drainer>>
    BY <2>1 DEF UpdateStep
  <2>. QED BY <2>2 DEF DrainerSound
<1>6. CASE Push
  BY <1>6 DEF Push, frameVars, DrainerSound
<1>7. CASE WaitUntilDrained
  BY <1>7 DEF WaitUntilDrained, frameVars, DrainerSound
<1>8. CASE WaitTimesOut
  BY <1>8 DEF WaitTimesOut, frameVars, DrainerSound
<1>9. CASE UNCHANGED vars
  BY <1>9 DEF vars, frameVars, DrainerSound
<1>. QED BY <1>2, <1>3, <1>4, <1>5, <1>6, <1>7, <1>8, <1>9 DEF Next

(***************************************************************************)
(* waitUntilDrained() answers OK too early only by the push that is under  *)
(* way: when it does, every frame has been returned in full, and once the  *)
(* thread has pushed the app has been told of it (compare                  *)
(* DrainedMeansReturned, which the code violates).                         *)
(***************************************************************************)
THEOREM DrainedIsComplete == Spec => []DrainedComplete
<1>1. Init => DrainerSound
  BY DEF Init, DrainerSound
<1>2. IInv /\ DrainerSound /\ [Next]_vars => DrainerSound'
  BY DrainerKeeps
<1>3. ASSUME IInv, DrainerSound PROVE DrainedComplete
  <2>. SUFFICES ASSUME drainer = "OK", NEW f \in Frames, request[f] = "submitted"
               PROVE  Complete(f, returned[f]) /\ (thread = "idle" => Complete(f, told[f]))
    BY DEF DrainedComplete
  <2>1. f \in Left
    BY <1>3 DEF DrainerSound, Left
  <2>2. Complete(f, returned[f])
    BY <1>3, <2>1 DEF IInv, LeavesComplete, Told, Complete
  <2>3. thread = "idle" => told = returned
    BY <1>3 DEF IInv, Pushed
  <2>. QED BY <2>2, <2>3
<1>. QED BY <1>1, <1>2, <1>3, Invariance, PTL DEF Spec
=============================================================================
