------------------------ MODULE CallbackRecommender ------------------------
(***************************************************************************)
(* Which shutters, errors, images and results may be called back           *)
(* (CallbackRecommender.cpp): per type of request in the order of the      *)
(* frames, except for what has failed.  Physical results are left out, and *)
(* so are messages of ERROR_REQUEST and ERROR_BUFFER (eITEM_NOTIFING): the *)
(* sessions send ERROR_RESULT only.                                        *)
(*                                                                         *)
(* The operators map X == [requests, out]: requests is mRequestMap, for     *)
(* each item of a request (its shutter, its result, the image of each of   *)
(* its streams) a set of status bits ({} is eITEM_INFLIGHT), and out is    *)
(* what one update makes available, collected from the calls of            *)
(* _available_cb_: items <<frame, item, status>>, errors <<frame, error>>, *)
(* and the requests to be removed.                                         *)
(***************************************************************************)
EXTENDS Integers, FiniteSets

CONSTANTS
  NumFrames,     \* bound: requests
  RequestType,   \* of each frame
  StreamsOf      \* of each frame: the streams of its images, input ones included

Frames == 1..NumFrames
Items(f) == {"shutter", "result"} \cup StreamsOf[f]

ASSUME NumFramesAssumption == NumFrames \in Nat
ASSUME RequestTypeAssumption == DOMAIN RequestType = Frames
ASSUME StreamsAssumption ==
  /\ DOMAIN StreamsOf = Frames
  /\ \A f \in Frames : {"shutter", "result"} \cap StreamsOf[f] = {}

INFLIGHT == {}
Nothing == [items |-> {}, errors |-> {}, removable |-> {}]

RegisterRequest(requests, f) ==
  [g \in DOMAIN requests \cup {f} |->
     IF g = f THEN [i \in Items(f) |-> INFLIGHT] ELSE requests[g]]

\* The queue of f's type that item i is in.
Queue(requests, f, i) ==
  {g \in DOMAIN requests : RequestType[g] = RequestType[f] /\ i \in Items(g)}

(***************************************************************************)
(* The items of a queue that are released now: up to the first that is in  *)
(* flight, and the target's own if it has failed, wherever it is.          *)
(***************************************************************************)
\* Wrong variant: one that is in flight is passed over.
AvailableAnyway(requests, f, i) ==
  {g \in Queue(requests, f, i) :
     "RELEASED" \notin requests[g][i] /\ requests[g][i] \cap {"ERROR", "VALID"} # {}}
Available(requests, f, i) ==
  {g \in Queue(requests, f, i) :
     /\ "RELEASED" \notin requests[g][i] /\ requests[g][i] \cap {"ERROR", "VALID"} # {}
     /\ \/ \A h \in Queue(requests, f, i) : h < g => requests[h][i] # INFLIGHT
        \/ g = f /\ "ERROR" \in requests[g][i]}

\* prepareCallbackShutters(), -Results() and -Buffers() of f's items in S.  What
\* is available of a failed shutter or result, nobody calls back.
PrepareCallback(X, f, S) ==
  LET now(i)    == Available(X.requests, f, i)
      status(s) == IF "ERROR" \in s THEN "ERROR" ELSE "OK"
  IN [X EXCEPT
        !.requests = [g \in DOMAIN @ |-> [i \in Items(g) |->
           IF i \in S /\ g \in now(i) THEN @[g][i] \cup {"RELEASED"} ELSE @[g][i]]],
        !.out.items = @ \cup UNION
           {{<<g, i, status(X.requests[g][i])>> : g \in now(i)} : i \in S}]

(***************************************************************************)
(* A failed result is the failure of the request if every image has failed *)
(* too, and of the result if one is there; until then it is kept back.     *)
(***************************************************************************)
OneValid(r, f) == \E s \in StreamsOf[f] : "VALID" \in r[s]
AllFailed(r, f) == \A s \in StreamsOf[f] : "ERROR" \in r[s]
\* Wrong variant: an image that is in flight counts as failed.
ErrorIfNoneValid(r, f) == IF OneValid(r, f) THEN {"ERROR_RESULT"} ELSE {"ERROR_REQUEST"}
Error(r, f) ==
  IF AllFailed(r, f) THEN {"ERROR_REQUEST"}
  ELSE IF OneValid(r, f) THEN {"ERROR_RESULT"} ELSE {}

\* ERROR_BUFFER is left out: the frame handler tells it with the image.
PrepareCallbackErrors(X, f) ==
  LET r      == X.requests[f]
      errors == IF "ERROR" \in r["result"] /\ "NOTIFIED" \notin r["result"]
                THEN Error(r, f) ELSE {}
  IN [X EXCEPT
        !.requests[f]["result"] = IF errors = {} THEN @ ELSE @ \cup {"NOTIFIED"},
        !.out.errors = @ \cup ({f} \X errors)]

(***************************************************************************)
(* Requests that have been called back are removed from the front of the   *)
(* map, and f itself also behind one that has not.                         *)
(***************************************************************************)
\* Wrong variant: the images are not looked at.
IsRemovableEarly(r) == "RELEASED" \in r["shutter"] /\ "RELEASED" \in r["result"]
IsRemovable(r) == \A i \in DOMAIN r : "RELEASED" \in r[i]

Remove(X, S) ==
  [X EXCEPT !.requests = [g \in DOMAIN @ \ S |-> @[g]], !.out.removable = @ \cup S]
\* Wrong variant: only f itself.
RemoveTarget(X, f) == Remove(X, {g \in {f} : IsRemovable(X.requests[g])})
RemoveRequests(X, f) ==
  Remove(X, {g \in DOMAIN X.requests :
               /\ IsRemovable(X.requests[g])
               /\ g = f \/ \A h \in DOMAIN X.requests : h < g => IsRemovable(X.requests[h])})
-----------------------------------------------------------------------------
(***************************************************************************)
(* The calls of the frame handler.                                         *)
(***************************************************************************)
NotifyShutter(X, f) ==
  IF f \notin DOMAIN X.requests \/ X.requests[f]["shutter"] # INFLIGHT THEN X
  ELSE RemoveRequests(PrepareCallback(
         [X EXCEPT !.requests[f]["shutter"] = {"VALID"}], f, {"shutter"}), f)

NotifyError(X, f) ==
  LET failed == [X EXCEPT !.requests[f] = [i \in Items(f) |->
                  IF i \in {"shutter", "result"} THEN @[i] \cup {"ERROR"} ELSE @[i]]]
      told   == PrepareCallbackErrors(PrepareCallback(failed, f, {"shutter"}), f)
  IN RemoveRequests(PrepareCallback(told, f, Items(f) \ {"shutter"}), f)

ReceiveResult(X, f) ==
  IF f \notin DOMAIN X.requests THEN X
  ELSE RemoveRequests(PrepareCallback(
         [X EXCEPT !.requests[f]["result"] = IF @ = INFLIGHT THEN {"VALID"} ELSE @],
         f, {"result"}), f)

UpdateBufferStatus(status, new) ==
  IF status # INFLIGHT THEN status ELSE IF new = "ERROR" THEN {"ERROR"} ELSE {"VALID"}

\* images: the status of each image that has come.
ReceiveBuffers(X, f, images) ==
  IF f \notin DOMAIN X.requests THEN X
  ELSE LET updated == [X EXCEPT !.requests[f] = [i \in Items(f) |->
                         IF i \in DOMAIN images THEN UpdateBufferStatus(@[i], images[i]) ELSE @[i]]]
       IN RemoveRequests(PrepareCallback(
            PrepareCallbackErrors(updated, f), f, StreamsOf[f]), f)
=============================================================================
