---------------------------- MODULE CallbackCore ----------------------------
(***************************************************************************)
(* The core of the callbacks to the app (CallbackCore.cpp and its Result-, *)
(* Frame- and BatchHandler): the pipeline's results are queued, a thread   *)
(* takes the whole queue, asks the CallbackRecommender what may go out,    *)
(* and calls the app back after it has let go of mFrameMapLock.            *)
(*                                                                         *)
(* As the ACallbackAdaptor sets it up: pending metadata goes out with the  *)
(* last partial result, which follows the recommender (METAPENDING,        *)
(* AOSP_META_RULE); no physical metadata, no real-time partials, no        *)
(* batched streams.  The pipeline gives everything back once, so that what *)
(* the handlers do with a second shutter, error or image is left out.      *)
(***************************************************************************)
EXTENDS CallbackRecommender

CONSTANTS
  InputStreams,  \* the streams that are an input
  MaxErrors,     \* bound: results and images that fail
  MaxQueue,      \* bound: results in the queue at a time
  MaxInFlight    \* bound: frames that are being called back

ASSUME InputAssumption == InputStreams \subseteq UNION {StreamsOf[f] : f \in Frames}
ASSUME BoundsAssumption == {MaxErrors, MaxQueue, MaxInFlight} \subseteq Nat

VARIABLES
  request,       \* of each frame: "none", "submitted", "flushed"
  given,         \* <<frame, what, status>>: all the pipeline has given back
  mResultQueue,  \* what of it the thread has yet to take
  mFrameMap,     \* FrameParcels of the frames that are being called back
  mRequestMap,   \* the recommender's
  returned,      \* RETURNED bits of each frame's items, kept when it is erased
  thread,        \* "idle", or "pushing" what it has prepared
  told,          \* what the app has been called back of
  drainer        \* a caller of waitUntilDrained(): "away", "asleep", "OK", "TIMED_OUT"
frameVars == <<mFrameMap, mRequestMap, returned>>
vars == <<request, given, mResultQueue, frameVars, thread, told, drainer>>

Outputs(f) == StreamsOf[f] \ InputStreams

\* Of a frame the app gets the shutter, the partial metadata, the last one, an
\* error, and the images.
Untold(f) == [shutter |-> FALSE, partials |-> 0, last |-> FALSE, error |-> "NONE",
              images |-> [s \in StreamsOf[f] |-> "none"]]
Flushed(f) == [Untold(f) EXCEPT !.error = "ERROR_REQUEST",
                                !.images = [s \in StreamsOf[f] |-> "ERROR"]]
\* Its error, how many metadata it has, and of the last one whether it has
\* come and the recommender has made it AVAILABLE.
FrameParcel == [error |-> "NONE", metas |-> 0, hasLastPartial |-> FALSE, available |-> FALSE]

Init ==
  /\ request = [f \in Frames |-> "none"]
  /\ given = {} /\ mResultQueue = {}
  /\ mFrameMap = <<>> /\ mRequestMap = <<>>
  /\ returned = [f \in Frames |-> Untold(f)] /\ told = returned
  /\ thread = "idle" /\ drainer = "away"
-----------------------------------------------------------------------------
(***************************************************************************)
(* Requests come in the order of their numbers.  waitUntilDrained() holds  *)
(* mInterfaceLock, which both calls take.                                  *)
(***************************************************************************)
IsNext(f) == /\ request[f] = "none" /\ \A g \in Frames : g < f => request[g] # "none"
             /\ drainer # "asleep"

SubmitRequest(f) ==
  /\ IsNext(f) /\ Cardinality(DOMAIN mFrameMap) < MaxInFlight
  /\ request' = [request EXCEPT ![f] = "submitted"]
  /\ mFrameMap' = [g \in DOMAIN mFrameMap \cup {f} |->
                     IF g = f THEN FrameParcel ELSE mFrameMap[g]]
  /\ mRequestMap' = RegisterRequest(mRequestMap, f)
  /\ UNCHANGED <<given, mResultQueue, returned, thread, told, drainer>>

\* A flushed request is not registered: the caller itself pushes its error.
FlushRequest(f) ==
  /\ IsNext(f)
  /\ request' = [request EXCEPT ![f] = "flushed"]
  /\ returned' = [returned EXCEPT ![f] = Flushed(f)]
  /\ told' = [told EXCEPT ![f] = Flushed(f)]
  /\ UNCHANGED <<given, mResultQueue, mFrameMap, mRequestMap, thread, drainer>>

(***************************************************************************)
(* The pipeline gives back a shutter, with which a metadata of its         *)
(* timestamp comes, the last metadata or ERROR_RESULT, and each image.     *)
(* What comes while the thread pushes is taken to come right after: that   *)
(* is the same to both.                                                    *)
(***************************************************************************)
MayFail == Cardinality({x \in given : x[3] = "ERROR"}) < MaxErrors

EnqueResult(f) ==
  /\ request[f] = "submitted" /\ thread = "idle" /\ Cardinality(mResultQueue) < MaxQueue
  /\ \E what \in Items(f), status \in {"OK", "ERROR"} :
       /\ <<f, what>> \notin {<<x[1], x[2]>> : x \in given}
       /\ status = "ERROR" => what # "shutter" /\ MayFail
       /\ given' = given \cup {<<f, what, status>>}
       /\ mResultQueue' = mResultQueue \cup {<<f, what, status>>}
  /\ UNCHANGED <<request, frameVars, thread, told, drainer>>
-----------------------------------------------------------------------------
(***************************************************************************)
(* FrameHandler::updateResult(): what is new of each frame that is still   *)
(* called back.                                                            *)
(***************************************************************************)
New(what, status) == {f \in DOMAIN mFrameMap : <<f, what, status>> \in mResultQueue}
NewShutters == New("shutter", "OK")
NewErrors   == New("result", "ERROR")
NewImages(f, S) ==
  [s \in {t \in StreamsOf[f] \cap S : \E x \in mResultQueue : x[1] = f /\ x[2] = t} |->
     IF <<f, s, "ERROR">> \in mResultQueue THEN "ERROR" ELSE "OK"]
\* Metadata is ignored after an error, and after the last one.
TakesMetas == {f \in DOMAIN mFrameMap \ NewErrors :
                 mFrameMap[f].error = "NONE" /\ ~mFrameMap[f].hasLastPartial}
NewLast == TakesMetas \cap New("result", "OK")

Updated ==
  [f \in DOMAIN mFrameMap |->
     [mFrameMap[f] EXCEPT
        !.error = IF f \in NewErrors THEN "ERROR_RESULT" ELSE @,
        !.metas = @ + (IF f \in TakesMetas \cap NewShutters THEN 1 ELSE 0)
                    + (IF f \in NewLast THEN 1 ELSE 0),
        !.hasLastPartial = @ \/ f \in NewLast]]

\* onHandleRecommenderCb(): shutters, errors, results, output and input images,
\* each by frame number.
ReceiveImages(X, f, S) ==
  IF DOMAIN NewImages(f, S) = {} THEN X ELSE ReceiveBuffers(X, f, NewImages(f, S))
Call(X, kind, f) ==
  CASE kind = "shutter" /\ f \in NewShutters -> NotifyShutter(X, f)
    [] kind = "error" /\ f \in NewErrors -> NotifyError(X, f)
    [] kind = "result" /\ f \in NewLast -> ReceiveResult(X, f)
    [] kind = "output" /\ f \in DOMAIN mFrameMap -> ReceiveImages(X, f, Outputs(f))
    [] kind = "input" /\ f \in DOMAIN mFrameMap -> ReceiveImages(X, f, InputStreams)
    [] OTHER -> X
Calls(X, kind) ==
  LET after[n \in 0..NumFrames] == IF n = 0 THEN X ELSE Call(after[n - 1], kind, n)
  IN after[NumFrames]

Recommended ==
  LET X == [requests |-> mRequestMap, out |-> Nothing]
  IN Calls(Calls(Calls(Calls(Calls(X, "shutter"), "error"), "result"), "output"), "input")

(***************************************************************************)
(* FrameHandler::updateCallback(): what goes out of frame f, which an      *)
(* error is told of once.                                                  *)
(***************************************************************************)
Told(f) == returned[f].error # "NONE"
ErrorOf(f, out) ==
  IF Told(f) THEN returned[f].error
  ELSE IF <<f, "ERROR_REQUEST">> \in out.errors THEN "ERROR_REQUEST"
  ELSE IF <<f, "ERROR_RESULT">> \in out.errors THEN "ERROR_RESULT" ELSE "NONE"

\* ERROR_REQUEST takes all output images with it that are not returned yet;
\* after it no image of the frame is returned.
ImageOf(f, s, out) ==
  IF returned[f].images[s] # "none" THEN returned[f].images[s]
  ELSE IF ErrorOf(f, out) = "ERROR_REQUEST" THEN IF s \in InputStreams THEN "none" ELSE "ERROR"
  ELSE IF <<f, s, "ERROR">> \in out.items THEN "ERROR"
  ELSE IF <<f, s, "OK">> \in out.items THEN "OK" ELSE "none"

ResultOf(f, out) == <<f, "result", "OK">> \in out.items

\* The metadata of a frame without an error goes out with the last one; that
\* itself waits for the recommender.
CallBack(f, parcel, out) ==
  LET metas == parcel.error = "NONE" /\ parcel.hasLastPartial
  IN [shutter  |-> returned[f].shutter \/ <<f, "shutter", "OK">> \in out.items,
      partials |-> IF metas THEN parcel.metas - 1 ELSE returned[f].partials,
      last     |-> returned[f].last \/ (metas /\ (parcel.available \/ ResultOf(f, out))),
      error    |-> ErrorOf(f, out),
      images   |-> [s \in StreamsOf[f] |-> ImageOf(f, s, out)]]

\* FrameHandler::update(), up to the callback.
Update ==
  /\ thread = "idle" /\ mResultQueue # {}
  /\ LET X == Recommended IN
     /\ mRequestMap' = X.requests
     /\ mFrameMap' = [f \in DOMAIN mFrameMap \ X.out.removable |->
                        [Updated[f] EXCEPT !.available = @ \/ ResultOf(f, X.out)]]
     /\ returned' = [f \in Frames |-> IF f \in DOMAIN mFrameMap
                       THEN CallBack(f, Updated[f], X.out) ELSE returned[f]]
  /\ mResultQueue' = {}
  /\ thread' = "pushing"
  /\ UNCHANGED <<request, given, told, drainer>>

\* BatchHandler::push(), and the broadcast if no frame is left.
Push ==
  /\ thread = "pushing" /\ thread' = "idle"
  /\ told' = returned
  /\ drainer' = IF drainer = "asleep" /\ DOMAIN mFrameMap = {} THEN "OK" ELSE drainer
  /\ UNCHANGED <<request, given, mResultQueue, frameVars>>
-----------------------------------------------------------------------------
(***************************************************************************)
(* waitUntilDrained(), once all requests have been made.                   *)
(***************************************************************************)
WaitUntilDrained ==
  /\ drainer = "away" /\ \A f \in Frames : request[f] # "none"
  /\ drainer' = IF DOMAIN mFrameMap = {} THEN "OK" ELSE "asleep"
  /\ UNCHANGED <<request, given, mResultQueue, frameVars, thread, told>>

WaitTimesOut ==
  /\ drainer = "asleep"
  /\ drainer' = IF DOMAIN mFrameMap = {} THEN "OK" ELSE "TIMED_OUT"
  /\ UNCHANGED <<request, given, mResultQueue, frameVars, thread, told>>
-----------------------------------------------------------------------------
Next ==
  \/ \E f \in Frames : SubmitRequest(f) \/ FlushRequest(f) \/ EnqueResult(f)
  \/ Update \/ Push \/ WaitUntilDrained \/ WaitTimesOut

Spec == Init /\ [][Next]_vars
-----------------------------------------------------------------------------
Earlier(g, f) == g < f /\ RequestType[g] = RequestType[f]
Left == {f \in Frames : request[f] = "submitted"} \ DOMAIN mFrameMap

\* Among the requests of a type the app gets the shutters, the last metadata
\* and, per stream, the good images in the order of the frames, in whatever
\* order the pipeline gives them back and the thread takes them.
InOrder(before, after) == \A f, g \in Frames : Earlier(g, f) =>
  /\ before[f].shutter /\ after[g].shutter => before[g].shutter
  /\ before[f].last /\ after[g].last => before[g].last
  /\ \A s \in StreamsOf[f] \cap StreamsOf[g] :
       before[f].images[s] = "OK" /\ after[g].images[s] = "OK" => before[g].images[s] = "OK"
CallbacksInOrder == [][InOrder(told, told')]_told

\* A frame leaves mFrameMap and the recommender's map together, after all its
\* output images and either its shutter and last metadata or an error: "there
\* MUST have error frames or meta be sent for the request"
\* (CallbackCore.FrameHandler.cpp:1508).
LeavesComplete ==
  /\ DOMAIN mRequestMap = DOMAIN mFrameMap
  /\ \A f \in Left :
       /\ \A s \in Outputs(f) : returned[f].images[s] # "none"
       /\ (returned[f].last /\ returned[f].shutter) \/ Told(f)

\* An image goes to the app with the status the pipeline gave it and never
\* while the pipeline has it; an error is told of a failed result only, as
\* ERROR_REQUEST just when every image has failed, and no metadata with it.
TellsTheTruth == \A f \in Frames : request[f] = "submitted" =>
  /\ \A s \in StreamsOf[f] : returned[f].images[s] # "none" =>
                               <<f, s, returned[f].images[s]>> \in given
  /\ Told(f) =>
       /\ <<f, "result", "ERROR">> \in given
       /\ returned[f].partials = 0 /\ ~returned[f].last
       /\ returned[f].error = "ERROR_REQUEST" <=> \A s \in StreamsOf[f] : <<f, s, "ERROR">> \in given

\* Once the pipeline has given everything back and the thread has taken it, no
\* frame is left: nothing waits for an event that has been, such as the end of
\* the frame that blocked it.
AllGiven == \A f \in Frames : request[f] = "submitted" =>
              \A what \in Items(f) : \E x \in given : x[1] = f /\ x[2] = what
NoFrameStuck == AllGiven /\ mResultQueue = {} => DOMAIN mFrameMap = {}

\* "Wait until all the registered requests have finished returning."
\* (ICallbackCore.h:297)
DrainedMeansReturned == drainer = "OK" => told = returned
-----------------------------------------------------------------------------
(***************************************************************************)
(* What every step keeps, and the properties above rest on.                *)
(***************************************************************************)
Status == {"ERROR", "VALID", "NOTIFIED", "RELEASED"}
IsRequestMap(R, D) ==
  R = [f \in D |-> R[f]] /\ \A f \in D : R[f] \in [Items(f) -> SUBSET Status]
Parcels == [error : {"NONE", "ERROR_RESULT"}, metas : Nat, hasLastPartial : BOOLEAN,
            available : BOOLEAN]
Callbacks(f) ==
  [shutter : BOOLEAN, partials : Int, last : BOOLEAN,
   error : {"NONE", "ERROR_RESULT", "ERROR_REQUEST"},
   images : [StreamsOf[f] -> {"none", "OK", "ERROR"}]]

TypeOK ==
  /\ request \in [Frames -> {"none", "submitted", "flushed"}]
  /\ given \subseteq UNION {{f} \X Items(f) \X {"OK", "ERROR"} : f \in Frames}
  /\ mResultQueue \subseteq given
  /\ DOMAIN mFrameMap \subseteq Frames /\ mFrameMap \in [DOMAIN mFrameMap -> Parcels]
  /\ IsRequestMap(mRequestMap, DOMAIN mFrameMap)
  /\ DOMAIN returned = Frames /\ \A f \in Frames : returned[f] \in Callbacks(f)
  /\ DOMAIN told = Frames /\ \A f \in Frames : told[f] \in Callbacks(f)
  /\ thread \in {"idle", "pushing"} /\ drainer \in {"away", "asleep", "OK", "TIMED_OUT"}

\* Requests come in order, only those that were submitted have results, each
\* of a thing once, and only they are in the map.
Submitted ==
  /\ \A f \in Frames : request[f] # "none" => \A g \in 1..f : request[g] # "none"
  /\ \A f \in Frames : request[f] = "none" => returned[f] = Untold(f)
  /\ \A x \in given : request[x[1]] = "submitted" /\ (x[2] = "shutter" => x[3] = "OK")
  /\ \A x, y \in given : x[1] = y[1] /\ x[2] = y[2] => x = y
  /\ \A f \in DOMAIN mFrameMap : request[f] = "submitted"

\* The recommender's status of an item says what has come, here in S; a failed
\* result makes the shutter fail with it.
Failure(f, i) == <<f, IF i = "shutter" THEN "result" ELSE i, "ERROR">>
StatusOf(status, f, i, S) ==
  /\ "ERROR" \in status <=> Failure(f, i) \in S
  /\ "VALID" \in status => <<f, i, "OK">> \in S
  /\ <<f, i, "OK">> \in S => status # INFLIGHT
  /\ status # INFLIGHT => status \cap {"ERROR", "VALID"} # {}
StatusSound(R, S) == \A f \in DOMAIN R : \A i \in Items(f) : StatusOf(R[f][i], f, i, S)

\* Nothing waits in the recommender that needs not: an error that can be told,
\* an item that nothing in flight is in front of, a request whose elders are
\* gone.
NotifiedOf(r, f) == "ERROR" \in r["result"] /\ Error(r, f) # {} => "NOTIFIED" \in r["result"]
Notified(R) == \A f \in DOMAIN R : NotifiedOf(R[f], f)
FrontReleased(R) == \A f \in DOMAIN R : \A i \in Items(f) :
  R[f][i] # INFLIGHT /\ (\A g \in Queue(R, f, i) : g < f => R[g][i] # INFLIGHT)
    => "RELEASED" \in R[f][i]
FrontRemoved(R) == \A f \in DOMAIN R :
  IsRemovable(R[f]) => \E g \in DOMAIN R : g < f /\ ~IsRemovable(R[g])

\* What the thread has taken, and a FrameParcel and the RETURNED bits say of it.
Taken == given \ mResultQueue
ParcelSound == \A f \in DOMAIN mFrameMap :
  /\ mFrameMap[f].error # "NONE" <=> <<f, "result", "ERROR">> \in Taken
  /\ mFrameMap[f].hasLastPartial <=> <<f, "result", "OK">> \in Taken
  /\ mFrameMap[f].available /\ mFrameMap[f].error = "NONE" => returned[f].last
ReleasedSound == \A f \in DOMAIN mRequestMap :
  LET r == mRequestMap[f] IN
  /\ "RELEASED" \in r["shutter"] => returned[f].shutter \/ "ERROR" \in r["shutter"]
  /\ "RELEASED" \in r["result"] => mFrameMap[f].available \/ "ERROR" \in r["result"]
  /\ \A s \in Outputs(f) : "RELEASED" \in r[s] => returned[f].images[s] # "none"
  /\ Told(f) <=> "NOTIFIED" \in r["result"]
ReturnedSound == \A f \in Frames : request[f] = "submitted" =>
  /\ \A s \in StreamsOf[f] : returned[f].images[s] # "none" =>
                               <<f, s, returned[f].images[s]>> \in Taken
  /\ returned[f].partials # 0 \/ returned[f].last => <<f, "result", "OK">> \in Taken
  /\ Told(f) => <<f, "result", "ERROR">> \in Taken
  /\ returned[f].error = "ERROR_REQUEST" => \A s \in StreamsOf[f] : <<f, s, "ERROR">> \in Taken
  /\ returned[f].error = "ERROR_RESULT" => \E s \in StreamsOf[f] : <<f, s, "OK">> \in Taken

\* What has been called back of a frame is released of its elders, and cannot be
\* called back of them later; the app knows at most what is returned.
ReturnedInOrder == \A f \in Frames, g \in DOMAIN mRequestMap : Earlier(g, f) =>
  LET r == mRequestMap[g] IN
  /\ returned[f].shutter => "RELEASED" \in r["shutter"]
  /\ returned[f].last => "RELEASED" \in r["result"]
  /\ \A s \in StreamsOf[f] \cap StreamsOf[g] :
       returned[f].images[s] = "OK" => "RELEASED" \in r[s]
Pushed == IF thread = "idle" THEN told = returned ELSE InOrder(told, returned)

RequestsSound ==
  /\ StatusSound(mRequestMap, Taken) /\ Notified(mRequestMap)
  /\ FrontReleased(mRequestMap) /\ FrontRemoved(mRequestMap)

IInv ==
  /\ TypeOK /\ Submitted /\ RequestsSound /\ ParcelSound /\ ReleasedSound
  /\ ReturnedSound /\ LeavesComplete /\ ReturnedInOrder /\ Pushed
=============================================================================
