------------------------ MODULE ChannelStatusProofs ------------------------
(***************************************************************************)
(* What the channel tells its host, for any requests, any number of         *)
(* concurrent ready callbacks and any bounds: the status and the length of  *)
(* a completed URB are true, a notified host finds its response, and no     *)
(* command's notification is stranded.                                      *)
(***************************************************************************)
EXTENDS ResponseChannelProofs

\* Where GetEncapsulatedCommand runs, and where MbbTryDrainInterrupt does.
FetchLabels == {"get_lock", "get_check", "get_remove", "get_copy"}
InDrain     == DrainLabels \ {"idle"}

\* Until its exit IoEvtControlUrb has set no failure.
NoFailureBeforeExit == pc[Control] # "complete" => status = "SUCCESS"

\* What each handler knows of the request it serves.
HandlerKnowsRequest ==
    /\ pc[Control] \in FetchLabels => Fetches(request)
    /\ pc[Control] \in InDrain => bytes = request.length /\ ~ Fetches(request)
    /\ pc[Control] = "get_copy" => LengthOf[bufferContent[1].kind] <= request.length

\* What a completed URB tells the host.
ExitIsTruthful ==
    pc[Control] = "complete" =>
        /\ status = "SUCCESS" => bytes <= request.length
        /\ Fetches(request) =>
              /\ status = "SUCCESS" <=> bufferContent # <<>>
              /\ status = "SUCCESS" => bytes = LengthOf[bufferContent[1].kind]

StatusInv == NoFailureBeforeExit /\ HandlerKnowsRequest /\ ExitIsTruthful
-----------------------------------------------------------------------------
(* The requests.                                                            *)

\* A request that sends a command is no fetch.
LEMMA SendersDoNotFetch ==
    ASSUME NEW u, Opens(u) \/ Commands(u)
    PROVE  ~ Fetches(u)
BY DEF Opens, Commands, CarriesMessage, Fetches, Serves

\* A control URB has a length.
LEMMA LengthOfRequest ==
    ASSUME NEW u \in Requests
    PROVE  u.length \in Nat /\ u.isControl \in BOOLEAN
BY RequestsAssumption DEF ControlUrbs

\* IoEvtControlUrb up to the handler's first wait: a URB it completes at once has
\* a true status, and one it goes on with has none yet.
LEMMA DispatchStatus ==
    ASSUME IInv, StatusInv, NEW u \in Requests, IoEvtControlUrb(u)
    PROVE  StatusInv'
<1> USE DEF Dispatch, Return, Goto, At
<1>1. /\ TypeOK /\ Control \in Threads /\ pc[Control] = "idle"
      /\ bufferContent = <<>> /\ status = "SUCCESS"
      /\ u.length \in Nat
  BY DispatchProperties, LengthOfRequest
     DEF IInv, Threads, RequestInService, StatusInv, NoFailureBeforeExit
<1>2. request' = u /\ bufferContent' = <<>>
  BY <1>1, DispatchProperties
<1>3. \A label : pc' = [pc EXCEPT ![Control] = label] => pc'[Control] = label
  BY <1>1 DEF TypeOK
<1>4. ASSUME pc'[Control] = "complete",
             status' = "SUCCESS" => bytes' <= u.length /\ ~ Fetches(u)
      PROVE  StatusInv'
  <2>1. NoFailureBeforeExit'
    BY <1>2, <1>4 DEF NoFailureBeforeExit
  <2>2. HandlerKnowsRequest'
    BY <1>4 DEF HandlerKnowsRequest, FetchLabels, InDrain, DrainLabels
  <2>3. ExitIsTruthful'
    BY <1>2, <1>4 DEF ExitIsTruthful
  <2> QED
    BY <2>1, <2>2, <2>3 DEF StatusInv
<1>5. ASSUME NEW st, NEW n, Return(st, n), ~ Fetches(u),
             st = "SUCCESS" => n <= u.length
      PROVE  StatusInv'
  <2>1. pc'[Control] = "complete" /\ status' = st /\ bytes' = n
    BY <1>3, <1>5
  <2> QED
    BY <1>4, <1>5, <2>1, Zenon
<1>6. CASE RetrieveSetupFails(u)
  BY <1>3, <1>4, <1>6 DEF RetrieveSetupFails
<1>7. CASE Unrecognized(u)
  BY <1>1, <1>3, <1>4, <1>7 DEF Unrecognized
<1>8. ASSUME NEW name, name # "GET_ENCAPSULATE_RESPONSE", Serves(u, name)
      PROVE  ~ Fetches(u)
  BY <1>8 DEF Serves, Fetches
<1>9. CASE GetNtbParameters(u)
  <2> DEFINE st == GetNtbParametersStatus(u)
             n  == IF st = "SUCCESS" THEN SizeofNtbParameter ELSE u.length
  <2>1. Return(st, n) /\ Serves(u, "GET_NTB_PARAMETERS")
    BY <1>9 DEF GetNtbParameters
  <2>2. st = "SUCCESS" => n <= u.length
    BY <1>1 DEF GetNtbParametersStatus, SizeofNtbParameter
  <2> HIDE DEF st, n, Return
  <2> QED
    BY <1>5, <1>8, <2>1, <2>2
<1>10. \A st : st = "SUCCESS" => u.length <= u.length
  BY <1>1
<1>11. ASSUME NEW st, Return(st, u.length), ~ Fetches(u)
       PROVE  StatusInv'
  <2> HIDE DEF Return
  <2> QED
    BY <1>5, <1>10, <1>11
<1> HIDE DEF Return
<1>12. CASE SetNtbInputSize(u)
  BY <1>8, <1>11, <1>12 DEF SetNtbInputSize
<1>13. CASE SetNtbFormat(u)
  BY <1>8, <1>11, <1>13 DEF SetNtbFormat
<1>14. CASE ResetAdapter(u)
  BY <1>8, <1>11, <1>14 DEF ResetAdapter
<1>15. CASE RejectFetch(u)
  BY <1>11, <1>15 DEF RejectFetch
<1>16. CASE SendWithoutResponse(u)
  BY <1>8, <1>11, <1>16 DEF SendWithoutResponse
<1>17. CASE GetEncapsulatedCommand(u)
  <2>1. /\ pc'[Control] = "get_lock" /\ Fetches(u)
        /\ UNCHANGED status
    BY <1>3, <1>17 DEF GetEncapsulatedCommand
  <2> QED
    BY <1>1, <1>2, <2>1 DEF StatusInv, NoFailureBeforeExit, HandlerKnowsRequest,
       ExitIsTruthful, FetchLabels, InDrain, DrainLabels
<1>18. ASSUME pc'[Control] = "enq_lock", UNCHANGED status
       PROVE  StatusInv'
  BY <1>1, <1>2, <1>18 DEF StatusInv, NoFailureBeforeExit, HandlerKnowsRequest,
     ExitIsTruthful, FetchLabels, InDrain, DrainLabels
<1>19. CASE MbbOpen(u)
  BY <1>3, <1>18, <1>19 DEF MbbOpen
<1>20. CASE MbbCommand(u)
  <2>1. ~ Fetches(u)
    BY <1>20, SendersDoNotFetch DEF MbbCommand
  <2> QED
    BY <1>3, <1>11, <1>18, <1>20, <2>1 DEF MbbCommand
<1> QED
  BY <1>6, <1>7, <1>9, <1>12, <1>13, <1>14, <1>15, <1>16, <1>17, <1>19, <1>20
     DEF IoEvtControlUrb

\* MbbTryDrainInterrupt concerns the control URB only when Control runs it, and
\* then does no more than lead to its exit.
LEMMA DrainStep ==
    ASSUME TypeOK, NEW t \in Threads, MbbTryDrainInterrupt(t)
    PROVE  /\ \E label \in InDrain \cup {AfterDrain(t)} :
                 pc' = [pc EXCEPT ![t] = label]
           /\ pc[t] \in InDrain
           /\ UNCHANGED <<control, accepted, fetched>>
<1> USE DEF At, Goto, InDrain, DrainLabels
<1>1. CASE AcquireToDrain(t)
  BY <1>1 DEF AcquireToDrain, history
<1>2. CASE CheckInterrupt(t)
  BY <1>2 DEF CheckInterrupt, history
<1>3. CASE RetrieveNextRequest(t)
  BY <1>3 DEF RetrieveNextRequest, history
<1>4. CASE RemoveInterrupt(t)
  BY <1>4 DEF RemoveInterrupt, history
<1>5. CASE DeliverInterrupt(t)
  BY <1>5 DEF DeliverInterrupt
<1>6. CASE GiveBackUrb(t)
  BY <1>6 DEF GiveBackUrb, history
<1> QED
  BY <1>1, <1>2, <1>3, <1>4, <1>5, <1>6 DEF MbbTryDrainInterrupt

\* What happens around the handlers does not concern the control URB.
LEMMA OutsideStep ==
    ASSUME TypeOK,
           \/ \E t \in ReadyThreads : IoEvtInterruptUrbQueueReady(t)
           \/ \E b \in UrbBuffers : PostInterruptUrb(b)
           \/ \E i \in 1..MaxInterruptUrbs : CancelInterruptUrb(i)
           \/ PowerDown \/ PowerUp \/ UNCHANGED vars
    PROVE  UNCHANGED <<pc[Control], control, accepted, fetched>>
<1>1. CASE \E t \in ReadyThreads : IoEvtInterruptUrbQueueReady(t)
  <2>1. PICK t \in ReadyThreads : IoEvtInterruptUrbQueueReady(t)
    BY <1>1
  <2>2. pc' = [pc EXCEPT ![t] = "drain_lock"] /\ UNCHANGED <<control, accepted, fetched>>
    BY <2>1 DEF IoEvtInterruptUrbQueueReady, Goto, history
  <2>3. t # Control /\ t \in Threads /\ Control \in Threads
    BY ThreadsAssumption DEF Threads
  <2> QED
    BY <2>2, <2>3 DEF TypeOK
<1>2. CASE \/ \E b \in UrbBuffers : PostInterruptUrb(b)
           \/ \E i \in 1..MaxInterruptUrbs : CancelInterruptUrb(i)
           \/ PowerDown \/ PowerUp \/ UNCHANGED vars
  BY <1>2 DEF PostInterruptUrb, CancelInterruptUrb, PowerDown, PowerUp, vars, history
<1> QED
  BY <1>1, <1>2
\* What the steps of the handlers do to the control URB.
LEMMA ControlStepStatus ==
    ASSUME IInv, StatusInv, ControlStep
    PROVE  StatusInv'
<1> DEFINE l == pc'[Control]
<1>1. /\ TypeOK /\ Control \in Threads
      /\ pc[Control] # "complete" => status = "SUCCESS"
      /\ request \in Requests \cup {NoUrb}
      /\ pc[Control] # "idle" => request \in Requests
      /\ pc[Control] \in {"enq_lock", "enq_resp", "enq_int"} => ~ Fetches(request)
      /\ pc[Control] \notin {"get_copy", "complete"} => bufferContent = <<>>
      /\ pc[Control] \in FetchLabels => Fetches(request)
  BY SendersDoNotFetch
     DEF IInv, TypeOK, Threads, StatusInv, NoFailureBeforeExit, RequestInService,
         HandlerKnowsRequest
<1>2. \A label : pc' = [pc EXCEPT ![Control] = label] => l = label
  BY <1>1 DEF TypeOK
\* The handler goes on.
<1>3. ASSUME l \notin {"complete"} \cup InDrain, status' = "SUCCESS",
             l \in FetchLabels => Fetches(request'),
             l = "get_copy" => LengthOf[bufferContent'[1].kind] <= request'.length
      PROVE  StatusInv'
  <2>1. NoFailureBeforeExit'
    BY <1>3 DEF NoFailureBeforeExit
  <2>2. HandlerKnowsRequest'
    BY <1>3 DEF HandlerKnowsRequest
  <2>3. ExitIsTruthful'
    BY <1>3 DEF ExitIsTruthful
  <2> QED
    BY <2>1, <2>2, <2>3 DEF StatusInv
\* The handler returns.
<1>4. ASSUME l = "complete",
             status' = "SUCCESS" => bytes' <= request'.length,
             Fetches(request') =>
                 /\ status' = "SUCCESS" <=> bufferContent' # <<>>
                 /\ status' = "SUCCESS" => bytes' = LengthOf[bufferContent'[1].kind]
      PROVE  StatusInv'
  <2>1. NoFailureBeforeExit'
    BY <1>4 DEF NoFailureBeforeExit
  <2>2. HandlerKnowsRequest'
    BY <1>4 DEF HandlerKnowsRequest, FetchLabels, InDrain, DrainLabels
  <2>3. ExitIsTruthful'
    BY <1>4 DEF ExitIsTruthful
  <2> QED
    BY <2>1, <2>2, <2>3 DEF StatusInv
<1>5. request \in Requests => request.length \in Nat /\ request.length <= request.length
  BY LengthOfRequest
<1>6. CASE CompleteControlUrb
  <2>1. l = "idle" /\ status' = "SUCCESS"
    BY <1>2, <1>6 DEF CompleteControlUrb, Goto
  <2> QED
    BY <1>3, <2>1 DEF FetchLabels, InDrain, DrainLabels
<1>7. CASE AcquireToEnqueue
  <2>1. l = "enq_resp" /\ pc[Control] = "enq_lock" /\ UNCHANGED status
    BY <1>2, <1>7 DEF AcquireToEnqueue, Goto, At, control
  <2> QED
    BY <1>1, <1>3, <2>1 DEF FetchLabels, InDrain, DrainLabels
<1>8. CASE EnqueueResponse
  <2>1. pc[Control] = "enq_resp" /\ UNCHANGED <<request, bufferContent>>
    BY <1>8 DEF EnqueueResponse, At
  <2>2. \/ l = "enq_int" /\ UNCHANGED status
        \/ l = "complete" /\ bytes' = request.length
    BY <1>2, <1>8 DEF EnqueueResponse, FailEnqueue, Return, Goto
  <2>3. CASE l = "enq_int" /\ UNCHANGED status
    BY <1>1, <1>3, <2>1, <2>3 DEF FetchLabels, InDrain, DrainLabels
  <2>4. CASE l = "complete" /\ bytes' = request.length
    BY <1>1, <1>4, <1>5, <2>1, <2>4
  <2> QED
    BY <2>2, <2>3, <2>4
<1>9. CASE EnqueueAvailableInterrupt
  <2>1. pc[Control] = "enq_int" /\ UNCHANGED <<request, bufferContent>>
    BY <1>9 DEF EnqueueAvailableInterrupt, At
  <2>2. \/ l = "drain_lock" /\ status' = "SUCCESS" /\ bytes' = request.length
        \/ l = "complete" /\ bytes' = request.length
    BY <1>2, <1>9 DEF EnqueueAvailableInterrupt, FailEnqueue, AfterEnqueue, Return, Goto
  <2>3. CASE l = "drain_lock" /\ status' = "SUCCESS" /\ bytes' = request.length
    BY <1>1, <2>1, <2>3 DEF StatusInv, NoFailureBeforeExit, HandlerKnowsRequest,
       ExitIsTruthful, FetchLabels
  <2>4. CASE l = "complete" /\ bytes' = request.length
    BY <1>1, <1>4, <1>5, <2>1, <2>4
  <2> QED
    BY <2>2, <2>3, <2>4
<1>10. CASE AcquireToGet
  <2>1. /\ l = "get_check" /\ pc[Control] = "get_lock"
        /\ UNCHANGED <<request, status>>
    BY <1>2, <1>10 DEF AcquireToGet, Goto, At, control
  <2> QED
    BY <1>1, <1>3, <2>1 DEF FetchLabels, InDrain, DrainLabels
<1>11. CASE CheckResponse
  <2>1. pc[Control] = "get_check" /\ UNCHANGED <<request, bufferContent>>
    BY <1>11 DEF CheckResponse, At
  <2>2. \/ l = "get_remove" /\ UNCHANGED status
        \/ l = "complete" /\ status' # "SUCCESS"
    BY <1>2, <1>11 DEF CheckResponse, EmptyListStatus, Return, Goto
  <2>3. CASE l = "get_remove" /\ UNCHANGED status
    BY <1>1, <1>3, <2>1, <2>3 DEF FetchLabels, InDrain, DrainLabels
  <2>4. CASE l = "complete" /\ status' # "SUCCESS"
    BY <1>1, <1>4, <2>1, <2>4
  <2> QED
    BY <2>2, <2>3, <2>4
<1>12. CASE RemoveResponse
  <2> DEFINE head == Head(EncapsulatedCommandResponse)
  <2>1. pc[Control] = "get_remove" /\ UNCHANGED request
    BY <1>12 DEF RemoveResponse, At
  <2>2. \/ /\ l = "complete" /\ status' = "INSUFFICIENT_RESOURCES"
           /\ UNCHANGED bufferContent
        \/ /\ l = "get_copy" /\ UNCHANGED status /\ bufferContent' = <<head>>
           /\ ~ request.length < LengthOf[head.kind]
    BY <1>2, <1>12 DEF RemoveResponse, Return, Goto
  <2>3. CASE /\ l = "complete" /\ status' = "INSUFFICIENT_RESOURCES"
             /\ UNCHANGED bufferContent
    BY <1>1, <1>4, <2>1, <2>3
  <2>4. CASE /\ l = "get_copy" /\ UNCHANGED status /\ bufferContent' = <<head>>
             /\ ~ request.length < LengthOf[head.kind]
    <3>1. EncapsulatedCommandResponse \in Seq(Responses) /\ EncapsulatedCommandResponse # <<>>
      BY <2>1 DEF IInv, TypeOK, ListsAsChecked
    <3>2. LengthOf[head.kind] \in Nat
      BY <3>1, LengthType, HeadTailProperties
    <3>3. bufferContent'[1] = head
      BY <2>4
    <3>4. LengthOf[bufferContent'[1].kind] <= request'.length
      BY <1>1, <1>5, <2>1, <2>4, <3>2, <3>3
    <3> QED
      BY <1>1, <1>3, <2>1, <2>4, <3>4 DEF FetchLabels, InDrain, DrainLabels
  <2> QED
    BY <2>2, <2>3, <2>4
<1>13. CASE CopyResponse
  <2>1. /\ pc[Control] = "get_copy" /\ UNCHANGED <<request, bufferContent>>
        /\ l = "complete" /\ status' = "SUCCESS"
        /\ bytes' = LengthOf[bufferContent[1].kind]
    BY <1>2, <1>13 DEF CopyResponse, At, Return, Goto
  <2>2. Len(bufferContent) = 1
    BY <2>1 DEF IInv, RequestInService
  <2>3. bufferContent # <<>>
    BY <2>2
  <2>4. LengthOf[bufferContent[1].kind] <= request.length
    BY <2>1 DEF StatusInv, HandlerKnowsRequest
  <2> QED
    BY <1>1, <1>4, <2>1, <2>3, <2>4
<1> QED
  BY <1>6, <1>7, <1>8, <1>9, <1>10, <1>11, <1>12, <1>13 DEF ControlStep

\* The drain that Control runs ends in the exit of its handler.
LEMMA DrainStatus ==
    ASSUME IInv, StatusInv, NEW t \in Threads, MbbTryDrainInterrupt(t)
    PROVE  StatusInv'
<1>1. TypeOK /\ Control \in Threads
  BY DEF IInv, Threads
<1>2. PICK label \in InDrain \cup {AfterDrain(t)} : pc' = [pc EXCEPT ![t] = label]
  BY <1>1, DrainStep
<1>3. pc[t] \in InDrain /\ UNCHANGED control
  BY <1>1, DrainStep
<1>4. CASE t # Control
  <2>1. pc'[Control] = pc[Control]
    BY <1>1, <1>2, <1>4 DEF TypeOK
  <2> QED
    BY <1>3, <2>1 DEF control, StatusInv, NoFailureBeforeExit, HandlerKnowsRequest, ExitIsTruthful
<1>5. CASE t = Control
  <2>1. pc'[Control] \in InDrain \cup {"complete"}
    BY <1>1, <1>2, <1>5 DEF TypeOK, AfterDrain
  <2>2. /\ request \in Requests /\ bytes = request.length /\ ~ Fetches(request)
        /\ status = "SUCCESS"
    BY <1>3, <1>5 DEF IInv, RequestInService, StatusInv, NoFailureBeforeExit,
       HandlerKnowsRequest, InDrain, DrainLabels
  <2>3. bytes <= request.length
    BY <2>2, LengthOfRequest
  <2> QED
    BY <1>3, <2>1, <2>2, <2>3 DEF control, StatusInv, NoFailureBeforeExit, HandlerKnowsRequest,
       ExitIsTruthful, FetchLabels, InDrain, DrainLabels
<1> QED
  BY <1>4, <1>5
\* Every step keeps the invariant.
LEMMA StatusStep ==
    ASSUME IInv, StatusInv, [Next]_vars
    PROVE  StatusInv'
<1>1. CASE \E u \in Requests : IoEvtControlUrb(u)
  BY <1>1, DispatchStatus
<1>2. CASE ControlStep
  BY <1>2, ControlStepStatus
<1>3. CASE \E t \in Threads : MbbTryDrainInterrupt(t)
  BY <1>3, DrainStatus
<1>4. CASE \/ \E t \in ReadyThreads : IoEvtInterruptUrbQueueReady(t)
           \/ \E b \in UrbBuffers : PostInterruptUrb(b)
           \/ \E i \in 1..MaxInterruptUrbs : CancelInterruptUrb(i)
           \/ PowerDown \/ PowerUp \/ UNCHANGED vars
  <2>1. UNCHANGED <<pc[Control], control>>
    BY <1>4, OutsideStep DEF IInv
  <2> QED
    BY <2>1 DEF control, StatusInv, NoFailureBeforeExit, HandlerKnowsRequest, ExitIsTruthful
<1> QED
  BY <1>1, <1>2, <1>3, <1>4 DEF Next, Host

\* It holds initially ...
LEMMA InitStatus == Init => StatusInv
BY DEF Init, Threads, StatusInv, NoFailureBeforeExit, HandlerKnowsRequest, ExitIsTruthful,
   FetchLabels, InDrain, DrainLabels

\* ... and in every state.
LEMMA StatusInvariance == Spec => [](IInv /\ StatusInv)
<1>1. IInv /\ StatusInv /\ [Next]_vars => IInv' /\ StatusInv'
  BY StatusStep, StepInvariant
<1> QED
  BY <1>1, InitStatus, InitInvariant, PTL DEF Spec
-----------------------------------------------------------------------------
(* What a completed URB tells the host.                                     *)

\* No control URB completes with more bytes than its buffer holds, whichever
\* handler served it and by whichever path.
THEOREM NeverMoreBytesThanBuffer == Spec => []BytesWithinBuffer
<1>1. StatusInv => BytesWithinBuffer
  BY DEF StatusInv, ExitIsTruthful, BytesWithinBuffer, At
<1> QED
  BY <1>1, StatusInvariance, PTL

\* A fetch succeeds exactly when it hands a response over, with all its bytes.
THEOREM FetchSucceedsWithResponse == Spec => []FetchStatusIsTruthful
<1>1. StatusInv => FetchStatusIsTruthful
  BY DEF StatusInv, ExitIsTruthful, FetchStatusIsTruthful, At
<1> QED
  BY <1>1, StatusInvariance, PTL

\* An accepted response lengthens the history.
LEMMA AppendDiffers ==
    ASSUME NEW S, NEW s \in Seq(S), NEW e \in S
    PROVE  Append(s, e) # s
<1>1. Len(s) \in Nat /\ Len(Append(s, e)) = Len(s) + 1
  BY LenProperties, AppendProperties
<1> QED
  BY <1>1

\* A step from an allocation of MbbOpen to its exit, seen from the URB's status.
OpenIsTruthful ==
    pc[Control] \in {"enq_resp", "enq_int"} /\ Opening /\ At(Control, "complete")'
    => (status' = "SUCCESS" <=> accepted' # accepted)

\* An OPEN succeeds exactly when the step queued its response.
LEMMA OpenStep ==
    ASSUME IInv, [Next]_vars
    PROVE  OpenIsTruthful
<1> SUFFICES ASSUME pc[Control] \in {"enq_resp", "enq_int"}, Opening,
                    pc'[Control] = "complete"
             PROVE  status' = "SUCCESS" <=> accepted' # accepted
  BY DEF OpenIsTruthful, At
<1>1. TypeOK /\ Control \in Threads
  BY DEF IInv, Threads
<1>2. CASE EnqueueResponse
  <2>1. /\ pc' # [pc EXCEPT ![Control] = "enq_int"]
        /\ UNCHANGED accepted
    BY <1>1, <1>2 DEF EnqueueResponse, TypeOK, history
  <2>2. status' = "INSUFFICIENT_RESOURCES"
    BY <1>2, <2>1 DEF EnqueueResponse, FailEnqueue, FailureStatus, Return, Goto
  <2> QED
    BY <2>1, <2>2
<1>3. CASE EnqueueAvailableInterrupt
  <2>1. \/ status' = "SUCCESS" /\ accepted' = Append(accepted, Done(request))
        \/ status' = "INSUFFICIENT_RESOURCES" /\ UNCHANGED accepted
    BY <1>3 DEF EnqueueAvailableInterrupt, FailEnqueue, FailureStatus, Return
  <2>2. Done(request) \in Responses /\ accepted \in Seq(Responses)
    BY DoneType DEF IInv, TypeOK, RequestInService
  <2>3. Append(accepted, Done(request)) # accepted
    BY <2>2, AppendDiffers
  <2> QED
    BY <2>1, <2>3
<1>4. CASE \E u \in Requests : IoEvtControlUrb(u)
  BY <1>1, <1>4, DispatchProperties
<1>5. CASE ControlStep
  BY <1>2, <1>3, <1>5 DEF ControlStep, CompleteControlUrb, AcquireToEnqueue,
     AcquireToGet, CheckResponse, RemoveResponse, CopyResponse, At
<1>6. CASE \E t \in Threads : MbbTryDrainInterrupt(t)
  <2>1. PICK t \in Threads : MbbTryDrainInterrupt(t)
    BY <1>6
  <2>2. PICK label : pc' = [pc EXCEPT ![t] = label]
    BY <1>1, <2>1, DrainStep
  <2>3. pc[t] \in InDrain
    BY <1>1, <2>1, DrainStep
  <2>4. t # Control
    BY <2>3 DEF InDrain, DrainLabels
  <2> QED
    BY <1>1, <2>2, <2>4 DEF TypeOK
<1>7. CASE \/ \E t \in ReadyThreads : IoEvtInterruptUrbQueueReady(t)
           \/ \E b \in UrbBuffers : PostInterruptUrb(b)
           \/ \E i \in 1..MaxInterruptUrbs : CancelInterruptUrb(i)
           \/ PowerDown \/ PowerUp \/ UNCHANGED vars
  BY <1>1, <1>7, OutsideStep
<1> QED
  BY <1>4, <1>5, <1>6, <1>7 DEF Next, Host

\* MbbOpen reports success exactly when it queued its response, at whichever
\* allocation it failed.
THEOREM OpenReportsWhatItDid == Spec => OpenStatusIsTruthful
<1>1. IInv /\ [Next]_vars => IInv'
  BY StepInvariant
<1>2. IInv /\ [Next]_vars => [OpenIsTruthful]_vars
  BY OpenStep
<1>3. Spec => [][OpenIsTruthful]_vars
  BY <1>1, <1>2, InitInvariant, PTL DEF Spec
<1> QED
  BY <1>3 DEF OpenStatusIsTruthful, OpenIsTruthful

\* The history and the abstract state of the channel agree.
HistoryAgrees ==
    /\ accepted = fetched \o Pending
    /\ Len(accepted) = Owed + delivered

\* They do initially ...
LEMMA InitHistory == Init => HistoryAgrees
<1>1. Init => accepted = <<>> /\ fetched = <<>> /\ delivered = 0 /\ Len(accepted) = 0
  BY EmptySeq DEF Init
<1>2. <<>> \o <<>> = <<>>
  BY EmptySeq, ConcatEmptySeq
<1> QED
  BY <1>1, <1>2, InitialState DEF HistoryAgrees

\* ... and after every step.
LEMMA HistoryStep ==
    ASSUME ChannelInv, HistoryAgrees, [Next]_vars
    PROVE  HistoryAgrees'
BY OrderStep, CountStep DEF HistoryAgrees

\* A step that finds the list of responses empty, seen from the history.
FetchIsServed ==
    At(Control, "get_check") /\ status' = "INVALID_DEVICE_REQUEST"
    => delivered <= Len(fetched)

\* It serves a host that was not notified.
LEMMA FetchStep ==
    ASSUME ChannelInv, StatusInv, HistoryAgrees, [Next]_vars
    PROVE  FetchIsServed
<1> SUFFICES ASSUME pc[Control] = "get_check", status' = "INVALID_DEVICE_REQUEST"
             PROVE  delivered <= Len(fetched)
  BY DEF FetchIsServed, At
<1>1. TypeOK /\ IInv /\ Control \in Threads /\ status = "SUCCESS"
  BY DEF ChannelInv, IInv, Threads, StatusInv, NoFailureBeforeExit
<1>2. CheckResponse
  <2>1. CASE \E u \in Requests : IoEvtControlUrb(u)
    BY <1>1, <2>1, DispatchProperties
  <2>2. CASE ControlStep
    BY <2>2 DEF ControlStep, CompleteControlUrb, AcquireToEnqueue, EnqueueResponse,
       EnqueueAvailableInterrupt, AcquireToGet, RemoveResponse, CopyResponse, At
  <2>3. CASE \E t \in Threads : MbbTryDrainInterrupt(t)
    BY <1>1, <2>3, DrainStep DEF control
  <2>4. CASE \/ \E t \in ReadyThreads : IoEvtInterruptUrbQueueReady(t)
             \/ \E b \in UrbBuffers : PostInterruptUrb(b)
             \/ \E i \in 1..MaxInterruptUrbs : CancelInterruptUrb(i)
             \/ PowerDown \/ PowerUp \/ UNCHANGED vars
    BY <1>1, <2>4, OutsideStep DEF control
  <2> QED
    BY <2>1, <2>2, <2>3, <2>4 DEF Next, Host
<1>3. EncapsulatedCommandResponse = <<>>
  BY <1>1, <1>2 DEF CheckResponse
<1>4. bufferContent = <<>> /\ CommittedResponses = <<>>
  BY <1>1, <1>3 DEF IInv, RequestInService, CommittedResponses, At
<1>5. fetched \in Seq(Responses) /\ delivered \in Nat /\ Owed \in Nat
  BY <1>1, DeliveringFinite, LenProperties DEF TypeOK, Owed
<1>6. Pending = <<>>
  BY <1>1, <1>4, PendingType, ConcatEmptySeq DEF Pending
<1>7. accepted = fetched
  BY <1>5, <1>6, ConcatEmptySeq DEF HistoryAgrees
<1> QED
  BY <1>5, <1>7 DEF HistoryAgrees

\* A host that fetches because it was notified finds a response, however the
\* fetches interleave with the drains that notify it and with enqueues that are
\* rolled back.
THEOREM NotifiedHostIsServed == Spec => NotifiedFetchFindsResponse
<1> DEFINE Inv == ChannelInv /\ StatusInv /\ HistoryAgrees
<1>1. Init => Inv
  BY ChannelInit, InitStatus, InitHistory
<1>2. Inv /\ [Next]_vars => Inv'
  BY ChannelStep, StatusStep, HistoryStep DEF ChannelInv
<1>3. Inv /\ [Next]_vars => [FetchIsServed]_vars
  BY FetchStep
<1> HIDE DEF Inv
<1>4. Spec => [][FetchIsServed]_vars
  BY <1>1, <1>2, <1>3, PTL DEF Spec
<1> QED
  BY <1>4 DEF NotifiedFetchFindsResponse, FetchIsServed
-----------------------------------------------------------------------------
(* No command's notification is stranded.                                   *)

\* What CommandNotStranded relates: a command's notification next to an interrupt
\* URB, and what will bring them together.
CommandWaits ==
    /\ InterruptUrbQueue # <<>>
    /\ \E i \in 1..Len(AvailableInterrupt) : AvailableInterrupt[i] = "COMMAND_DONE"

DrainIsBound ==
    \/ readyNotify
    \/ ~ powered
    \/ \E t \in Threads : pc[t] \in InDrain

\* That is the property.
LEMMA StrandedMeaning == CommandNotStranded <=> (CommandWaits => DrainIsBound)
BY DEF CommandNotStranded, CommandWaits, DrainIsBound, InDrain

\* A thread that moves outside the drain leaves a bound drain bound.
LEMMA MoveOutside ==
    ASSUME TypeOK, NEW t \in Threads, NEW label, pc' = [pc EXCEPT ![t] = label],
           pc[t] \notin InDrain, UNCHANGED <<readyNotify, powered>>
    PROVE  DrainIsBound => DrainIsBound'
BY DEF TypeOK, DrainIsBound

\* A thread in the drain is what it is bound by.
LEMMA MoveInside ==
    ASSUME TypeOK, NEW t \in Threads, NEW label \in InDrain,
           pc' = [pc EXCEPT ![t] = label]
    PROVE  DrainIsBound'
BY DEF TypeOK, DrainIsBound

\* A notification of an OPEN is no command's.
LEMMA AppendOpen ==
    ASSUME NEW S, NEW s \in Seq(S), "OPEN_DONE" \in S, NEW i \in 1..Len(Append(s, "OPEN_DONE")),
           Append(s, "OPEN_DONE")[i] = "COMMAND_DONE"
    PROVE  \E j \in 1..Len(s) : s[j] = "COMMAND_DONE"
<1>1. /\ Len(s) \in Nat /\ Len(Append(s, "OPEN_DONE")) = Len(s) + 1
      /\ Append(s, "OPEN_DONE")[Len(s) + 1] = "OPEN_DONE"
      /\ \A j \in 1..Len(s) : Append(s, "OPEN_DONE")[j] = s[j]
  BY LenProperties, AppendProperties
<1> QED
  BY <1>1

\* The handlers of the control queue: a command that queues its notification goes
\* on to drain.
LEMMA ControlNotStranded ==
    ASSUME IInv, CommandWaits => DrainIsBound, ControlStep
    PROVE  CommandWaits' => DrainIsBound'
<1>1. TypeOK /\ Control \in Threads
  BY DEF IInv, Threads
<1>2. PICK label : pc' = [pc EXCEPT ![Control] = label]
  BY DEF ControlStep, CompleteControlUrb, AcquireToEnqueue, EnqueueResponse,
     EnqueueAvailableInterrupt, AcquireToGet, CheckResponse, RemoveResponse,
     CopyResponse, FailEnqueue, Return, Goto
<1>3. UNCHANGED framework
  BY DEF ControlStep, CompleteControlUrb, AcquireToEnqueue, EnqueueResponse,
     EnqueueAvailableInterrupt, AcquireToGet, CheckResponse, RemoveResponse, CopyResponse
<1>4. pc[Control] \notin InDrain
  BY DEF ControlStep, CompleteControlUrb, AcquireToEnqueue, EnqueueResponse,
     EnqueueAvailableInterrupt, AcquireToGet, CheckResponse, RemoveResponse,
     CopyResponse, At, InDrain, DrainLabels
<1>5. DrainIsBound => DrainIsBound'
  BY <1>1, <1>2, <1>3, <1>4, MoveOutside DEF framework
<1>6. CASE UNCHANGED AvailableInterrupt
  BY <1>3, <1>5, <1>6 DEF framework, CommandWaits
<1>7. CASE EnqueueAvailableInterrupt /\ ~ UNCHANGED AvailableInterrupt
  <2>1. /\ AvailableInterrupt' = Append(AvailableInterrupt, Done(request).kind)
        /\ pc' = [pc EXCEPT ![Control] = AfterEnqueue]
    BY <1>7 DEF EnqueueAvailableInterrupt, Goto
  <2>2. CASE Opening
    <3> DEFINE kinds == {"OPEN_DONE", "COMMAND_DONE"}
    <3>1. AvailableInterrupt \in Seq(kinds) /\ "OPEN_DONE" \in kinds
      BY <1>1 DEF TypeOK
    <3> HIDE DEF kinds
    <3>2. AvailableInterrupt' = Append(AvailableInterrupt, "OPEN_DONE")
      BY <2>1, <2>2 DEF Done, Opening
    <3>3. CommandWaits' => CommandWaits
      BY <1>3, <3>1, <3>2, AppendOpen DEF CommandWaits, framework
    <3> QED
      BY <1>5, <3>3
  <2>3. CASE ~ Opening
    BY <1>1, <2>1, <2>3, MoveInside DEF AfterEnqueue, InDrain, DrainLabels
  <2> QED
    BY <2>2, <2>3
<1> QED
  BY <1>6, <1>7
     DEF ControlStep, CompleteControlUrb, AcquireToEnqueue, EnqueueResponse,
         AcquireToGet, CheckResponse, RemoveResponse, CopyResponse, lists

\* A drain ends only when there is nothing to bring together.
LEMMA DrainNotStranded ==
    ASSUME IInv, NEW t \in Threads, MbbTryDrainInterrupt(t)
    PROVE  CommandWaits' => DrainIsBound'
<1> USE DEF At, Goto, InDrain, DrainLabels
<1>1. TypeOK
  BY DEF IInv
<1>2. CASE \E label \in InDrain : pc' = [pc EXCEPT ![t] = label]
  BY <1>1, <1>2, MoveInside
<1>3. CASE AcquireToDrain(t)
  BY <1>2, <1>3 DEF AcquireToDrain
<1>4. CASE CheckInterrupt(t)
  <2>1. CASE AvailableInterrupt = <<>>
    <3>1. AvailableInterrupt' = <<>>
      BY <1>4, <2>1 DEF CheckInterrupt, lists
    <3> QED
      BY <3>1, EmptySeq DEF CommandWaits
  <2>2. CASE AvailableInterrupt # <<>>
    BY <1>2, <1>4, <2>2 DEF CheckInterrupt
  <2> QED
    BY <2>1, <2>2
<1>5. CASE RetrieveNextRequest(t)
  <2>1. CASE ~ powered \/ InterruptUrbQueue = <<>>
    BY <1>5, <2>1 DEF RetrieveNextRequest, CommandWaits, DrainIsBound
  <2>2. CASE ~ (~ powered \/ InterruptUrbQueue = <<>>)
    BY <1>2, <1>5, <2>2 DEF RetrieveNextRequest
  <2> QED
    BY <2>1, <2>2
<1>6. CASE RemoveInterrupt(t)
  BY <1>2, <1>6 DEF RemoveInterrupt
<1>7. CASE DeliverInterrupt(t)
  BY <1>2, <1>7 DEF DeliverInterrupt
<1>8. CASE GiveBackUrb(t)
  BY <1>2, <1>8 DEF GiveBackUrb
<1> QED
  BY <1>3, <1>4, <1>5, <1>6, <1>7, <1>8 DEF MbbTryDrainInterrupt

\* No step of the channel strands a command.
LEMMA StrandedStep ==
    ASSUME IInv, CommandWaits => DrainIsBound, [Next]_vars
    PROVE  CommandWaits' => DrainIsBound'
<1>1. TypeOK /\ Control \in Threads
  BY DEF IInv, Threads
<1>2. ASSUME NEW u \in Requests, IoEvtControlUrb(u)
      PROVE  CommandWaits' => DrainIsBound'
  <2>1. PICK label : pc' = [pc EXCEPT ![Control] = label]
    BY <1>1, <1>2, DispatchProperties
  <2>2. pc[Control] = "idle" /\ UNCHANGED <<lists, framework>>
    BY <1>1, <1>2, DispatchProperties
  <2>3. DrainIsBound => DrainIsBound'
    BY <1>1, <2>1, <2>2, MoveOutside DEF framework, InDrain
  <2> QED
    BY <2>2, <2>3 DEF lists, framework, CommandWaits
<1>3. CASE ControlStep
  BY <1>3, ControlNotStranded
<1>4. ASSUME NEW t \in ReadyThreads, IoEvtInterruptUrbQueueReady(t)
      PROVE  CommandWaits' => DrainIsBound'
  BY <1>1, <1>4, MoveInside DEF IoEvtInterruptUrbQueueReady, Goto, Threads, InDrain,
     DrainLabels
<1>5. ASSUME NEW t \in Threads, MbbTryDrainInterrupt(t)
      PROVE  CommandWaits' => DrainIsBound'
  BY <1>5, DrainNotStranded
<1>6. ASSUME NEW b \in UrbBuffers, PostInterruptUrb(b)
      PROVE  CommandWaits' => DrainIsBound'
  BY <1>6 DEF PostInterruptUrb, lists, CommandWaits, DrainIsBound
<1>7. ASSUME NEW i \in 1..MaxInterruptUrbs, CancelInterruptUrb(i)
      PROVE  CommandWaits' => DrainIsBound'
  <2>1. InterruptUrbQueue # <<>>
    BY <1>7, EmptySeq DEF CancelInterruptUrb
  <2> QED
    BY <1>7, <2>1 DEF CancelInterruptUrb, lists, CommandWaits, DrainIsBound
<1>8. CASE PowerDown
  BY <1>8 DEF PowerDown, DrainIsBound
<1>9. CASE PowerUp
  BY <1>9 DEF PowerUp, lists, CommandWaits, DrainIsBound
<1>10. CASE UNCHANGED vars
  BY <1>10 DEF vars, lists, framework, CommandWaits, DrainIsBound
<1> QED
  BY <1>2, <1>3, <1>4, <1>5, <1>6, <1>7, <1>8, <1>9, <1>10 DEF Next, Host

\* A command's notification never waits next to a waiting interrupt URB without a
\* drain that is bound to come: an URB that arrives, a queue that starts and a
\* command that is answered each see to it.
THEOREM NoCommandIsStranded == Spec => []CommandNotStranded
<1> DEFINE Inv == IInv /\ (CommandWaits => DrainIsBound)
<1>1. Init => Inv
  BY InitInvariant DEF Init, CommandWaits
<1>2. Inv /\ [Next]_vars => Inv'
  BY StepInvariant, StrandedStep
<1>3. Inv => CommandNotStranded
  BY StrandedMeaning
<1> HIDE DEF Inv
<1> QED
  BY <1>1, <1>2, <1>3, PTL DEF Spec
=============================================================================
