----------------------- MODULE ResponseChannelProofs -----------------------
(***************************************************************************)
(* The channel keeps the promise of ResponseChannel for any requests, any   *)
(* number of concurrent ready callbacks and any bounds: every response is   *)
(* fetched once and in order, and announced once.                           *)
(***************************************************************************)
EXTENDS WwanVirtualAdapterProofs

\* The abstract state of ResponseChannel.
Pending == bufferContent \o CommittedResponses
Owed    == Len(AvailableInterrupt) + Cardinality(Delivering)

Acceptable == {Done(u) : u \in {v \in Requests : Opens(v) \/ Commands(v)}}

\* While its notification is being queued, the created entry is the last.
CreatedEntryIsLast ==
    pc[Control] = "enq_int" =>
        EncapsulatedCommandResponse = Append(CommittedResponses, Done(request))

\* Control takes at most one response before it completes its URB.
AtMostOneResponse == bufferContent # <<>> => Len(bufferContent) = 1

ChannelInv == IInv /\ CreatedEntryIsLast /\ AtMostOneResponse

\* What a step of the code does to the abstract state and the history.
Silent == UNCHANGED <<accepted, fetched, delivered, Pending, Owed>>

Accepts ==
    \E r \in Acceptable :
        /\ accepted' = Append(accepted, r)
        /\ Pending' = Append(Pending, r)
        /\ Owed' = Owed + 1
        /\ UNCHANGED <<fetched, delivered>>

Announces ==
    /\ Owed > 0
    /\ Owed' = Owed - 1
    /\ delivered' = delivered + 1
    /\ UNCHANGED <<accepted, fetched, Pending>>

Hands ==
    /\ Pending # <<>>
    /\ fetched' = Append(fetched, Head(Pending))
    /\ Pending' = Tail(Pending)
    /\ UNCHANGED <<accepted, delivered, Owed>>
-----------------------------------------------------------------------------
(* Lemmas about the abstract state.                                         *)

\* What may be accepted are responses.
LEMMA AcceptableType == Acceptable \subseteq Responses
BY DoneType DEF Acceptable

\* What is pending are responses.
LEMMA PendingType ==
    ASSUME TypeOK
    PROVE  CommittedResponses \in Seq(Responses) /\ Pending \in Seq(Responses)
<1>1. CommittedResponses \in Seq(Responses)
  BY RemoveCreatedEntryType DEF TypeOK, CommittedResponses
<1>2. bufferContent \in Seq(Responses)
  BY DEF TypeOK
<1> QED
  BY <1>1, <1>2, ConcatProperties DEF Pending

\* The threads that deliver can be counted.
LEMMA DeliveringFinite ==
    IsFiniteSet(Delivering) /\ Cardinality(Delivering) \in Nat
<1>1. IsFiniteSet(Threads)
  <2>1. Threads = ReadyThreads \cup {Control}
    BY DEF Threads
  <2> QED
    BY <2>1, ThreadsAssumption, FS_AddElement
<1>2. Delivering \in SUBSET Threads
  BY DEF Delivering
<1>3. IsFiniteSet(Delivering)
  BY <1>1, <1>2, FS_Subset
<1> QED
  BY <1>3, FS_CardinalityType

\* A thread that neither leaves nor enters the delivery changes nothing there.
LEMMA DeliveringSame ==
    ASSUME TypeOK, NEW t \in Threads, NEW label,
           pc' = [pc EXCEPT ![t] = label], pc[t] # "deliver", label # "deliver"
    PROVE  Delivering' = Delivering
BY DEF TypeOK, Delivering, At

\* A thread that starts to deliver is one more.
LEMMA DeliveringEnter ==
    ASSUME TypeOK, NEW t \in Threads, pc[t] # "deliver",
           pc' = [pc EXCEPT ![t] = "deliver"]
    PROVE  Cardinality(Delivering)' = Cardinality(Delivering) + 1
<1>1. Delivering' = Delivering \cup {t} /\ t \notin Delivering
  BY DEF TypeOK, Delivering, At
<1> QED
  BY <1>1, DeliveringFinite, FS_AddElement

\* A thread that ends its delivery is one less.
LEMMA DeliveringLeave ==
    ASSUME TypeOK, NEW t \in Threads, NEW label, pc[t] = "deliver",
           label # "deliver", pc' = [pc EXCEPT ![t] = label]
    PROVE  /\ Cardinality(Delivering)' = Cardinality(Delivering) - 1
           /\ Cardinality(Delivering) > 0
<1>1. Delivering' = Delivering \ {t} /\ t \in Delivering
  BY DEF TypeOK, Delivering, At
<1>2. Cardinality(Delivering \ {t}) = Cardinality(Delivering) - 1
  BY <1>1, DeliveringFinite, FS_RemoveElement
<1>3. Cardinality(Delivering) # 0
  BY <1>1, DeliveringFinite, FS_EmptySet
<1> QED
  BY <1>1, <1>2, <1>3, DeliveringFinite

\* The committed responses depend on the list and on whether Control is
\* between the two enqueues.
LEMMA CommittedSame ==
    ASSUME UNCHANGED EncapsulatedCommandResponse,
           pc'[Control] = "enq_int" <=> pc[Control] = "enq_int"
    PROVE  CommittedResponses' = CommittedResponses
BY DEF CommittedResponses, At

\* A step of one thread outside the delivery that leaves the lists, the history
\* and the second half of the enqueue alone changes nothing.
LEMMA SilentStep ==
    ASSUME TypeOK, NEW t \in Threads, NEW label,
           pc' = [pc EXCEPT ![t] = label], pc[t] # "deliver", label # "deliver",
           t = Control => pc[t] # "enq_int" /\ label # "enq_int",
           UNCHANGED <<EncapsulatedCommandResponse, AvailableInterrupt,
                       bufferContent, accepted, fetched, delivered>>
    PROVE  Silent
<1>1. Delivering' = Delivering
  BY DeliveringSame
<1>2. pc'[Control] = "enq_int" <=> pc[Control] = "enq_int"
  BY DEF TypeOK, Threads
<1>3. CommittedResponses' = CommittedResponses
  BY <1>2, CommittedSame
<1> QED
  BY <1>1, <1>3 DEF Silent, Pending, Owed

\* A step that moves no thread and leaves the lists and the history alone.
LEMMA SilentEnvironment ==
    ASSUME UNCHANGED <<pc, EncapsulatedCommandResponse, AvailableInterrupt,
                       bufferContent, accepted, fetched, delivered>>
    PROVE  Silent
<1>1. Delivering' = Delivering /\ CommittedResponses' = CommittedResponses
  BY DEF Delivering, CommittedResponses, At
<1> QED
  BY <1>1 DEF Silent, Pending, Owed

\* Head and Tail of a list with an entry put before it.
LEMMA HeadTailOfPrepend ==
    ASSUME NEW S, NEW s \in Seq(S), NEW e \in S
    PROVE  <<e>> \o s # <<>> /\ Head(<<e>> \o s) = e /\ Tail(<<e>> \o s) = s
<1> DEFINE h == <<e>>
<1>1. h \in Seq(S) /\ Len(h) = 1 /\ h[1] = e
  OBVIOUS
<1> HIDE DEF h
<1> DEFINE hs == h \o s
<1>2. /\ hs \in Seq(S) /\ Len(s) \in Nat /\ Len(hs) = Len(s) + 1
      /\ hs[1] = e /\ \A i \in 1..Len(s) : hs[i + 1] = s[i]
  <2>1. /\ hs \in Seq(S)
        /\ Len(hs) = Len(h) + Len(s)
        /\ \A i \in 1..Len(h) + Len(s) :
              hs[i] = IF i <= Len(h) THEN h[i] ELSE s[i - Len(h)]
    BY <1>1, ConcatProperties, Zenon
  <2>2. Len(s) \in Nat
    BY LenProperties
  <2> HIDE DEF hs
  <2> QED
    BY <1>1, <2>1, <2>2
<1> HIDE DEF hs
<1>3. hs # <<>>
  BY <1>2, EmptySeq
<1>4. /\ Head(hs) = e /\ Tail(hs) \in Seq(S) /\ Len(Tail(hs)) = Len(s)
      /\ \A i \in 1..Len(s) : Tail(hs)[i] = s[i]
  BY <1>2, <1>3, HeadTailProperties
<1>5. Tail(hs) = s
  BY <1>4, SeqEqual
<1> QED
  BY <1>3, <1>4, <1>5 DEF h, hs
-----------------------------------------------------------------------------
(* The steps that change the abstract state.                                *)

\* The first half of the enqueue: the created entry is not yet committed.
LEMMA EnqueueResponseStep ==
    ASSUME ChannelInv, EnqueueResponse
    PROVE  Silent /\ CreatedEntryIsLast'
<1> USE DEF At, Goto, Return
<1>1. request \in Requests /\ Done(request) \in Responses
  BY DoneType DEF EnqueueResponse, ChannelInv, IInv, RequestInService
<1>2. TypeOK /\ EncapsulatedCommandResponse \in Seq(Responses)
  BY DEF ChannelInv, IInv, TypeOK
<1>3. /\ pc[Control] = "enq_resp"
      /\ UNCHANGED <<AvailableInterrupt, bufferContent, request,
                     accepted, fetched, delivered>>
  BY DEF EnqueueResponse, history
<1>4. CASE /\ EncapsulatedCommandResponse' =
                  Append(EncapsulatedCommandResponse, Done(request))
           /\ pc' = [pc EXCEPT ![Control] = "enq_int"]
  <2>1. RemoveCreatedEntry(Append(EncapsulatedCommandResponse, Done(request))) =
           EncapsulatedCommandResponse
    BY <1>1, <1>2, RemoveCreatedEntryAppend
  <2>2. pc'[Control] = "enq_int"
    BY <1>2, <1>4 DEF TypeOK, Threads
  <2>3. CommittedResponses' = CommittedResponses
    BY <1>3, <1>4, <2>1, <2>2 DEF CommittedResponses
  <2>4. Delivering' = Delivering
    BY <1>2, <1>3, <1>4, DeliveringSame DEF Threads
  <2>5. CommittedResponses = EncapsulatedCommandResponse
    BY <1>3 DEF CommittedResponses
  <2> QED
    BY <1>3, <1>4, <2>3, <2>4, <2>5 DEF Silent, Pending, Owed, CreatedEntryIsLast
<1>5. CASE /\ EncapsulatedCommandResponse' = EncapsulatedCommandResponse
           /\ pc' = [pc EXCEPT ![Control] = "complete"]
  <2>1. Silent
    BY <1>2, <1>3, <1>5, SilentStep DEF Threads
  <2>2. pc'[Control] # "enq_int"
    BY <1>2, <1>5 DEF TypeOK, Threads
  <2> QED
    BY <2>1, <2>2 DEF CreatedEntryIsLast
<1> QED
  BY <1>4, <1>5 DEF EnqueueResponse, FailEnqueue

\* The second half commits it, together with its notification, or removes it.
LEMMA EnqueueInterruptStep ==
    ASSUME ChannelInv, EnqueueAvailableInterrupt
    PROVE  (Silent \/ Accepts) /\ CreatedEntryIsLast'
<1> USE DEF At, Goto, Return
<1>1. request \in Requests /\ Done(request) \in Acceptable /\ bufferContent = <<>>
  BY DEF EnqueueAvailableInterrupt, ChannelInv, IInv, RequestInService, Acceptable
<1>2. TypeOK
  BY DEF ChannelInv, IInv
<1>3. /\ pc[Control] = "enq_int"
      /\ UNCHANGED <<bufferContent, request, fetched, delivered>>
  BY DEF EnqueueAvailableInterrupt
<1>4. PICK label \in {"complete", "drain_lock"} : pc' = [pc EXCEPT ![Control] = label]
  BY DEF EnqueueAvailableInterrupt, AfterEnqueue, FailEnqueue
<1>5. pc'[Control] # "enq_int"
  BY <1>2, <1>4 DEF TypeOK, Threads
<1>6. Delivering' = Delivering
  BY <1>2, <1>3, <1>4, DeliveringSame DEF Threads
<1>7. CommittedResponses' = EncapsulatedCommandResponse'
  BY <1>5 DEF CommittedResponses
<1>8. CommittedResponses \in Seq(Responses) /\ Done(request) \in Responses
  BY <1>1, <1>2, PendingType, AcceptableType
<1>9. CASE /\ AvailableInterrupt' = Append(AvailableInterrupt, Done(request).kind)
           /\ accepted' = Append(accepted, Done(request))
           /\ UNCHANGED EncapsulatedCommandResponse
  <2>1. EncapsulatedCommandResponse = Append(CommittedResponses, Done(request))
    BY <1>3 DEF ChannelInv, CreatedEntryIsLast
  <2>2. /\ Pending = CommittedResponses
        /\ Pending' = Append(CommittedResponses, Done(request))
    <3>1. Append(CommittedResponses, Done(request)) \in Seq(Responses)
      BY <1>8, AppendProperties
    <3> QED
      BY <1>1, <1>3, <1>7, <1>8, <1>9, <2>1, <3>1, ConcatEmptySeq DEF Pending
  <2>3. Owed' = Owed + 1
    <3> DEFINE kinds == {"OPEN_DONE", "COMMAND_DONE"}
    <3>1. Done(request).kind \in kinds /\ AvailableInterrupt \in Seq(kinds)
      BY <1>2, <1>8, KindType DEF TypeOK
    <3> HIDE DEF kinds
    <3>2. Len(AvailableInterrupt) \in Nat
      BY <3>1, LenProperties
    <3>3. Len(AvailableInterrupt') = Len(AvailableInterrupt) + 1
      BY <1>9, <3>1, AppendProperties
    <3> QED
      BY <1>6, <3>2, <3>3, DeliveringFinite DEF Owed
  <2>4. Accepts
    BY <1>1, <1>3, <1>9, <2>2, <2>3 DEF Accepts
  <2> QED
    BY <1>5, <2>4 DEF CreatedEntryIsLast
<1>10. CASE /\ EncapsulatedCommandResponse' =
                   RemoveCreatedEntry(EncapsulatedCommandResponse)
            /\ UNCHANGED <<AvailableInterrupt, accepted>>
  <2>1. CommittedResponses' = CommittedResponses
    BY <1>3, <1>7, <1>10 DEF CommittedResponses
  <2>2. Silent
    BY <1>3, <1>6, <1>10, <2>1 DEF Silent, Pending, Owed
  <2> QED
    BY <1>5, <2>2 DEF CreatedEntryIsLast
<1> QED
  BY <1>9, <1>10 DEF EnqueueAvailableInterrupt

\* A response taken off the list is still pending until the URB completes; one
\* put back never left.
LEMMA RemoveResponseStep ==
    ASSUME ChannelInv, RemoveResponse
    PROVE  Silent
<1> USE DEF At, Goto, Return
<1> DEFINE list == EncapsulatedCommandResponse
<1>1. TypeOK /\ list \in Seq(Responses) /\ list # <<>> /\ bufferContent = <<>>
  BY DEF RemoveResponse, ChannelInv, IInv, TypeOK, RequestInService, ListsAsChecked
<1>2. /\ pc[Control] = "get_remove"
      /\ UNCHANGED <<AvailableInterrupt, accepted, fetched, delivered>>
  BY DEF RemoveResponse, history
<1>3. CASE /\ list' = InsertHeadList(Head(list), Tail(list))
           /\ pc' = [pc EXCEPT ![Control] = "complete"]
           /\ UNCHANGED bufferContent
  <2>1. list' = list
    BY <1>1, <1>3, InsertHeadListOfTail
  <2> QED
    BY <1>1, <1>2, <1>3, <2>1, SilentStep DEF Threads
<1>4. CASE /\ list' = Tail(list)
           /\ bufferContent' = <<Head(list)>>
           /\ pc' = [pc EXCEPT ![Control] = "get_copy"]
  <2>1. Delivering' = Delivering
    BY <1>1, <1>2, <1>4, DeliveringSame DEF Threads
  <2>2. pc'[Control] = "get_copy"
    BY <1>1, <1>4 DEF TypeOK, Threads
  <2>3. CommittedResponses = list /\ CommittedResponses' = Tail(list)
    BY <1>2, <1>4, <2>2 DEF CommittedResponses
  <2>4. <<Head(list)>> \o Tail(list) = list
    BY <1>1, InsertHeadListOfTail DEF InsertHeadList
  <2>5. Pending' = Pending
    BY <1>1, <1>4, <2>3, <2>4, ConcatEmptySeq DEF Pending
  <2> QED
    BY <1>2, <2>1, <2>5 DEF Silent, Owed
<1> QED
  BY <1>3, <1>4 DEF RemoveResponse

\* The completion of a control URB hands over the response it carries.
LEMMA CompleteStep ==
    ASSUME ChannelInv, CompleteControlUrb
    PROVE  Silent \/ Hands
<1> USE DEF At, Goto
<1>1. /\ TypeOK /\ fetched \in Seq(Responses) /\ bufferContent \in Seq(Responses)
      /\ CommittedResponses \in Seq(Responses)
  BY PendingType DEF ChannelInv, IInv, TypeOK
<1>2. /\ pc[Control] = "complete" /\ pc' = [pc EXCEPT ![Control] = "idle"]
      /\ fetched' = fetched \o bufferContent /\ bufferContent' = <<>>
      /\ UNCHANGED <<EncapsulatedCommandResponse, AvailableInterrupt,
                     accepted, delivered>>
  BY DEF CompleteControlUrb, lists
<1>3. CASE bufferContent = <<>>
  <2>1. fetched' = fetched /\ bufferContent' = bufferContent
    BY <1>1, <1>2, <1>3, ConcatEmptySeq
  <2> QED
    BY <1>1, <1>2, <2>1, SilentStep DEF Threads
<1>4. CASE bufferContent # <<>>
  <2> DEFINE r == Head(bufferContent)
  <2>1. r \in Responses /\ bufferContent = <<r>>
    <3>1. Len(bufferContent) = 1
      BY <1>2, <1>4 DEF ChannelInv, AtMostOneResponse
    <3> QED
      BY <1>1, <1>4, <3>1, HeadTailProperties
  <2> HIDE DEF r
  <2>2. pc'[Control] = "idle"
    BY <1>1, <1>2 DEF TypeOK, Threads
  <2>3. CommittedResponses' = CommittedResponses
    BY <1>2, <2>2, CommittedSame
  <2>4. Delivering' = Delivering
    BY <1>1, <1>2, DeliveringSame DEF Threads
  <2>5. Pending = <<r>> \o CommittedResponses /\ Pending' = CommittedResponses
    BY <1>1, <1>2, <2>1, <2>3, ConcatEmptySeq DEF Pending
  <2>6. Pending # <<>> /\ Head(Pending) = r /\ Tail(Pending) = CommittedResponses
    BY <1>1, <2>1, <2>5, HeadTailOfPrepend
  <2>7. fetched' = Append(fetched, r)
    BY <1>1, <1>2, <2>1, AppendIsConcat
  <2> QED
    BY <1>2, <2>4, <2>5, <2>6, <2>7 DEF Hands, Owed
<1> QED
  BY <1>3, <1>4

\* A notification on its way is still owed; one put back never left.
LEMMA RemoveInterruptStep ==
    ASSUME ChannelInv, NEW t \in Threads, RemoveInterrupt(t)
    PROVE  Silent
<1> USE DEF At, Goto
<1> DEFINE kinds == {"OPEN_DONE", "COMMAND_DONE"}
           list  == AvailableInterrupt
<1>1. TypeOK /\ list \in Seq(kinds) /\ list # <<>>
  BY DEF RemoveInterrupt, ChannelInv, IInv, TypeOK, ListsAsChecked
<1> HIDE DEF kinds
<1>2. /\ pc[t] = "drain_remove"
      /\ UNCHANGED <<EncapsulatedCommandResponse, bufferContent,
                     accepted, fetched, delivered>>
  BY DEF RemoveInterrupt, history, control
<1>3. CASE /\ list' = list \/ list' = InsertHeadList(Head(list), Tail(list))
           /\ pc' = [pc EXCEPT ![t] = "giveback"]
  <2>1. list' = list
    BY <1>1, <1>3, InsertHeadListOfTail
  <2> QED
    BY <1>1, <1>2, <1>3, <2>1, SilentStep
<1>4. CASE list' = Tail(list) /\ pc' = [pc EXCEPT ![t] = "deliver"]
  <2>1. Cardinality(Delivering)' = Cardinality(Delivering) + 1
    BY <1>1, <1>2, <1>4, DeliveringEnter
  <2>2. Len(list') = Len(list) - 1 /\ Len(list) \in Nat
    BY <1>1, <1>4, HeadTailProperties, LenProperties
  <2>3. Owed' = Owed
    BY <2>1, <2>2, DeliveringFinite DEF Owed
  <2>4. pc'[Control] = "enq_int" <=> pc[Control] = "enq_int"
    BY <1>1, <1>2, <1>4 DEF TypeOK, Threads
  <2>5. Pending' = Pending
    BY <1>2, <2>4, CommittedSame DEF Pending
  <2> QED
    BY <1>2, <2>3, <2>5 DEF Silent
<1> QED
  BY <1>3, <1>4 DEF RemoveInterrupt

\* The notification reaches the host.
LEMMA DeliverStep ==
    ASSUME ChannelInv, NEW t \in Threads, DeliverInterrupt(t)
    PROVE  Announces
<1> USE DEF At, Goto
<1>1. TypeOK /\ Len(AvailableInterrupt) \in Nat
  BY LenProperties DEF ChannelInv, IInv, TypeOK
<1>2. /\ pc[t] = "deliver" /\ pc' = [pc EXCEPT ![t] = "drain_lock"]
      /\ delivered' = delivered + 1
      /\ UNCHANGED <<EncapsulatedCommandResponse, AvailableInterrupt,
                     bufferContent, accepted, fetched>>
  BY DEF DeliverInterrupt, lists, control
<1>3. /\ Cardinality(Delivering)' = Cardinality(Delivering) - 1
      /\ Cardinality(Delivering) > 0
  BY <1>1, <1>2, DeliveringLeave
<1>4. Owed > 0 /\ Owed' = Owed - 1
  BY <1>1, <1>2, <1>3, DeliveringFinite DEF Owed
<1>5. pc'[Control] = "enq_int" <=> pc[Control] = "enq_int"
  BY <1>1, <1>2 DEF TypeOK, Threads
<1>6. Pending' = Pending
  BY <1>2, <1>5, CommittedSame DEF Pending
<1> QED
  BY <1>2, <1>4, <1>6 DEF Announces
-----------------------------------------------------------------------------
(* Every step, and the invariant.                                           *)

\* A step that SilentStep describes also keeps the invariant.
LEMMA OrdinaryStep ==
    ASSUME ChannelInv, NEW t \in Threads, NEW label,
           pc' = [pc EXCEPT ![t] = label], pc[t] # "deliver", label # "deliver",
           t = Control => pc[t] # "enq_int" /\ label # "enq_int",
           t # Control => UNCHANGED request,
           UNCHANGED <<EncapsulatedCommandResponse, AvailableInterrupt,
                       bufferContent, accepted, fetched, delivered>>
    PROVE  Silent /\ CreatedEntryIsLast' /\ AtMostOneResponse'
<1>1. TypeOK
  BY DEF ChannelInv, IInv
<1>2. Silent
  BY <1>1, SilentStep
<1>3. CASE t = Control
  BY <1>1, <1>2, <1>3 DEF TypeOK, ChannelInv, CreatedEntryIsLast, AtMostOneResponse
<1>4. CASE t # Control
  <2>1. pc'[Control] = pc[Control]
    BY <1>1, <1>4 DEF TypeOK, Threads
  <2>2. CommittedResponses' = CommittedResponses
    BY <2>1, CommittedSame
  <2> QED
    BY <1>2, <1>4, <2>1, <2>2 DEF ChannelInv, CreatedEntryIsLast, AtMostOneResponse
<1> QED
  BY <1>3, <1>4

\* Every step is a step of the channel or leaves it alone, and the invariant
\* holds after it.
LEMMA ChannelStep ==
    ASSUME ChannelInv, [Next]_vars
    PROVE  /\ Silent \/ Accepts \/ Announces \/ Hands
           /\ ChannelInv'
<1> DEFINE Effect == Silent \/ Accepts \/ Announces \/ Hands
           Kept   == CreatedEntryIsLast' /\ AtMostOneResponse'
<1> SUFFICES Effect /\ Kept
  BY StepInvariant DEF ChannelInv
<1> USE ThreadsAssumption DEF Goto, At, Return, lists, framework, control, history
<1>1. Control \in Threads /\ TypeOK /\ AtMostOneResponse
  BY DEF Threads, ChannelInv, IInv
<1>2. ASSUME NEW u \in Requests, IoEvtControlUrb(u) PROVE Effect /\ Kept
  <2>1. PICK label \in {"complete", "get_lock", "enq_lock"} :
           pc' = [pc EXCEPT ![Control] = label]
    BY <1>1, <1>2, DispatchProperties
  <2>2. /\ pc[Control] = "idle"
        /\ UNCHANGED <<lists, bufferContent, history>>
    BY <1>1, <1>2, DispatchProperties
  <2> QED
    BY <1>1, <2>1, <2>2, OrdinaryStep
<1>3. ASSUME CompleteControlUrb PROVE Effect /\ Kept
  <2>1. Effect
    BY <1>3, CompleteStep
  <2>2. pc'[Control] # "enq_int" /\ bufferContent' = <<>>
    BY <1>1, <1>3 DEF CompleteControlUrb, TypeOK
  <2> QED
    BY <2>1, <2>2 DEF CreatedEntryIsLast, AtMostOneResponse
<1>4. ASSUME AcquireToEnqueue PROVE Effect /\ Kept
  BY <1>1, <1>4, OrdinaryStep DEF AcquireToEnqueue
<1>5. ASSUME EnqueueResponse PROVE Effect /\ Kept
  BY <1>1, <1>5, EnqueueResponseStep DEF EnqueueResponse, AtMostOneResponse
<1>6. ASSUME EnqueueAvailableInterrupt PROVE Effect /\ Kept
  BY <1>1, <1>6, EnqueueInterruptStep DEF EnqueueAvailableInterrupt, AtMostOneResponse
<1>7. ASSUME AcquireToGet PROVE Effect /\ Kept
  BY <1>1, <1>7, OrdinaryStep DEF AcquireToGet
<1>8. ASSUME CheckResponse PROVE Effect /\ Kept
  <2>1. PICK label \in {"complete", "get_remove"} : pc' = [pc EXCEPT ![Control] = label]
    BY <1>8 DEF CheckResponse
  <2> QED
    BY <1>1, <1>8, <2>1, OrdinaryStep DEF CheckResponse
<1>9. ASSUME RemoveResponse PROVE Effect /\ Kept
  <2>1. Effect
    BY <1>9, RemoveResponseStep
  <2>2. pc'[Control] # "enq_int"
    BY <1>1, <1>9 DEF RemoveResponse, TypeOK
  <2>3. \/ bufferContent' = bufferContent
        \/ bufferContent' = <<Head(EncapsulatedCommandResponse)>>
    BY <1>9 DEF RemoveResponse
  <2> QED
    BY <1>1, <2>1, <2>2, <2>3 DEF CreatedEntryIsLast, AtMostOneResponse
<1>10. ASSUME CopyResponse PROVE Effect /\ Kept
  BY <1>1, <1>10, OrdinaryStep DEF CopyResponse
<1>11. ASSUME NEW t \in Threads, AcquireToDrain(t) PROVE Effect /\ Kept
  BY <1>1, <1>11, OrdinaryStep DEF AcquireToDrain
<1>12. ASSUME NEW t \in Threads, CheckInterrupt(t) PROVE Effect /\ Kept
  <2>1. PICK label \in {"complete", "idle", "drain_retrieve"} :
           pc' = [pc EXCEPT ![t] = label]
    BY <1>12 DEF CheckInterrupt, AfterDrain
  <2> QED
    BY <1>1, <1>12, <2>1, OrdinaryStep DEF CheckInterrupt
<1>13. ASSUME NEW t \in Threads, RetrieveNextRequest(t) PROVE Effect /\ Kept
  <2>1. PICK label \in {"complete", "idle", "drain_remove"} :
           pc' = [pc EXCEPT ![t] = label]
    BY <1>13 DEF RetrieveNextRequest, AfterDrain
  <2> QED
    BY <1>1, <1>13, <2>1, OrdinaryStep DEF RetrieveNextRequest
<1>14. ASSUME NEW t \in Threads, RemoveInterrupt(t) PROVE Effect /\ Kept
  <2>1. Effect
    BY <1>14, RemoveInterruptStep
  <2>2. pc'[Control] = "enq_int" => pc[Control] = "enq_int"
    BY <1>1, <1>14 DEF RemoveInterrupt, TypeOK
  <2>3. UNCHANGED <<EncapsulatedCommandResponse, request, bufferContent>>
    BY <1>14 DEF RemoveInterrupt
  <2> QED
    BY <1>1, <2>1, <2>2, <2>3
    DEF ChannelInv, CreatedEntryIsLast, AtMostOneResponse, CommittedResponses
<1>15. ASSUME NEW t \in Threads, DeliverInterrupt(t) PROVE Effect /\ Kept
  <2>1. Effect
    BY <1>15, DeliverStep
  <2>2. pc'[Control] = "enq_int" => pc[Control] = "enq_int"
    BY <1>1, <1>15 DEF DeliverInterrupt, TypeOK
  <2>3. UNCHANGED <<EncapsulatedCommandResponse, request, bufferContent>>
    BY <1>15 DEF DeliverInterrupt
  <2> QED
    BY <1>1, <2>1, <2>2, <2>3
    DEF ChannelInv, CreatedEntryIsLast, AtMostOneResponse, CommittedResponses
<1>16. ASSUME NEW t \in Threads, GiveBackUrb(t) PROVE Effect /\ Kept
  BY <1>1, <1>16, OrdinaryStep DEF GiveBackUrb
<1>17. ASSUME NEW t \in ReadyThreads, IoEvtInterruptUrbQueueReady(t) PROVE Effect /\ Kept
  BY <1>1, <1>17, OrdinaryStep DEF IoEvtInterruptUrbQueueReady, Threads
<1>18. ASSUME UNCHANGED <<lists, pc, request, bufferContent, history>>
       PROVE  Effect /\ Kept
  BY <1>18, SilentEnvironment
  DEF ChannelInv, CreatedEntryIsLast, AtMostOneResponse, CommittedResponses
<1>19. ASSUME \/ \E b \in UrbBuffers : PostInterruptUrb(b)
              \/ \E i \in 1..MaxInterruptUrbs : CancelInterruptUrb(i)
              \/ PowerDown \/ PowerUp \/ UNCHANGED vars
       PROVE  Effect /\ Kept
  BY <1>18, <1>19
  DEF PostInterruptUrb, CancelInterruptUrb, PowerDown, PowerUp, vars
<1> HIDE DEF Effect, Kept
<1> QED
  BY <1>2, <1>3, <1>4, <1>5, <1>6, <1>7, <1>8, <1>9, <1>10, <1>11, <1>12, <1>13,
     <1>14, <1>15, <1>16, <1>17, <1>19
  DEF Next, Host, ControlStep, MbbTryDrainInterrupt

\* The invariant holds initially.
LEMMA ChannelInit == Init => ChannelInv
BY InitInvariant, ThreadsAssumption
DEF Init, ChannelInv, CreatedEntryIsLast, AtMostOneResponse, Threads
-----------------------------------------------------------------------------
(* Theorems.                                                                *)

\* The initial state is that of the channel.
LEMMA InitialState == Init => Pending = <<>> /\ Owed = 0
<1> SUFFICES ASSUME Init PROVE Pending = <<>> /\ Owed = 0
  OBVIOUS
<1>1. TypeOK
  BY InitInvariant DEF IInv
<1>2. Delivering = {}
  BY DEF Init, Delivering, At
<1>3. CommittedResponses = <<>> /\ bufferContent = <<>>
  BY DEF Init, CommittedResponses, At, Threads
<1>4. Pending = <<>>
  BY <1>1, <1>3, PendingType, ConcatEmptySeq DEF Pending
<1>5. Len(AvailableInterrupt) = 0
  BY EmptySeq DEF Init
<1> QED
  BY <1>2, <1>4, <1>5, FS_EmptySet DEF Owed

\* The order is kept by what steps do to the abstract state.
LEMMA OrderStep ==
    ASSUME ChannelInv, [Next]_vars, accepted = fetched \o Pending
    PROVE  accepted' = fetched' \o Pending'
<1>1. fetched \in Seq(Responses) /\ Pending \in Seq(Responses)
  BY PendingType DEF ChannelInv, IInv, TypeOK
<1>2. CASE Silent
  BY <1>2 DEF Silent
<1>3. CASE Accepts
  <2>1. PICK r \in Responses : /\ accepted' = Append(accepted, r)
                               /\ Pending' = Append(Pending, r)
                               /\ fetched' = fetched
    BY <1>3, AcceptableType DEF Accepts
  <2>2. /\ fetched \o Pending \in Seq(Responses)
        /\ <<r>> \in Seq(Responses)
    BY <1>1, ConcatProperties
  <2>3. accepted' = (fetched \o Pending) \o <<r>> /\ Pending' = Pending \o <<r>>
    BY <1>1, <2>1, <2>2, AppendIsConcat
  <2>4. (fetched \o Pending) \o <<r>> = fetched \o (Pending \o <<r>>)
    BY <1>1, <2>2, ConcatAssociative
  <2> QED
    BY <2>1, <2>3, <2>4, Zenon
<1>4. CASE Announces
  BY <1>4 DEF Announces
<1>5. CASE Hands
  <2> DEFINE r == Head(Pending)
             p == Tail(Pending)
  <2>1. /\ Pending # <<>> /\ fetched' = Append(fetched, r) /\ Pending' = p
        /\ accepted' = accepted
    BY <1>5 DEF Hands
  <2>2. /\ r \in Responses /\ p \in Seq(Responses)
        /\ <<r>> \o p = Pending
    BY <1>1, <2>1, HeadTailProperties, InsertHeadListOfTail DEF InsertHeadList
  <2> HIDE DEF r, p
  <2>3. <<r>> \in Seq(Responses) /\ fetched' = fetched \o <<r>>
    BY <1>1, <2>1, <2>2, AppendIsConcat
  <2>4. (fetched \o <<r>>) \o p = fetched \o (<<r>> \o p)
    BY <1>1, <2>2, <2>3, ConcatAssociative
  <2> QED
    BY <2>1, <2>2, <2>3, <2>4, Zenon
<1> QED
  BY <1>2, <1>3, <1>4, <1>5, ChannelStep

\* The host gets every accepted response exactly once and in order of
\* acceptance, whatever URBs are too short and whatever allocations fail.
THEOREM FetchedInOrder == Spec => []ResponsesInOrder
<1> DEFINE Inv == ChannelInv /\ accepted = fetched \o Pending
<1>1. Init => Inv
  <2>1. Init => accepted = fetched \o Pending
    <3>1. <<>> \in Seq(Responses)
      BY EmptySeq
    <3> QED
      BY <3>1, InitialState, ConcatEmptySeq DEF Init
  <2> QED
    BY <2>1, ChannelInit
<1>2. Inv /\ [Next]_vars => Inv'
  BY ChannelStep, OrderStep
<1>3. Inv => ResponsesInOrder
  <2> SUFFICES ASSUME Inv PROVE ResponsesInOrder
    OBVIOUS
  <2>1. /\ fetched \in Seq(Responses) /\ bufferContent \in Seq(Responses)
        /\ CommittedResponses \in Seq(Responses)
    BY PendingType DEF ChannelInv, IInv, TypeOK
  <2>2. (fetched \o bufferContent) \o CommittedResponses
        = fetched \o (bufferContent \o CommittedResponses)
    BY <2>1, ConcatAssociative
  <2> QED
    BY <2>2, Zenon DEF ResponsesInOrder, Pending
<1> HIDE DEF Inv
<1> QED
  BY <1>1, <1>2, <1>3, PTL DEF Spec

\* So is the count of the notifications.
LEMMA CountStep ==
    ASSUME ChannelInv, [Next]_vars, Len(accepted) = Owed + delivered
    PROVE  Len(accepted') = Owed' + delivered'
<1>1. accepted \in Seq(Responses) /\ delivered \in Nat /\ Owed \in Nat
  BY DeliveringFinite, LenProperties DEF Owed, ChannelInv, IInv, TypeOK
<1>2. CASE Accepts
  <2>1. Len(accepted') = Len(accepted) + 1
    BY <1>1, <1>2, AcceptableType, AppendProperties DEF Accepts
  <2> QED
    BY <1>1, <1>2, <2>1 DEF Accepts
<1>3. CASE Silent \/ Announces \/ Hands
  BY <1>1, <1>3 DEF Silent, Announces, Hands
<1> QED
  BY <1>2, <1>3, ChannelStep

\* Every accepted response has exactly one notification, on the list, with a
\* thread that delivers it, or with the host.
THEOREM NotifiedOnce == Spec => []EachResponseNotifiedOnce
<1> DEFINE Inv == ChannelInv /\ Len(accepted) = Owed + delivered
<1>1. Init => Inv
  <2>1. Init => Len(accepted) = 0 /\ delivered = 0
    BY EmptySeq DEF Init
  <2> QED
    BY <2>1, InitialState, ChannelInit
<1>2. Inv /\ [Next]_vars => Inv'
  BY ChannelStep, CountStep
<1>3. Inv => EachResponseNotifiedOnce
  BY DeliveringFinite, LenProperties
  DEF EachResponseNotifiedOnce, Owed, ChannelInv, IInv, TypeOK
<1> HIDE DEF Inv
<1> QED
  BY <1>1, <1>2, <1>3, PTL DEF Spec

\* Every step of the channel is one that ResponseChannel allows, or invisible.
LEMMA ChannelRefines ==
    ASSUME ChannelInv, [Next]_vars
    PROVE  [Channel!Next]_Channel!vars
<1> USE DEF Channel!Next, Channel!vars, Pending, Owed
<1>1. CASE Silent
  BY <1>1 DEF Silent
<1>2. CASE Accepts
  BY <1>2 DEF Accepts, Acceptable, Channel!Accept
<1>3. CASE Announces
  BY <1>3 DEF Announces, Channel!Announce
<1>4. CASE Hands
  BY <1>4 DEF Hands, Channel!Fetch
<1> QED
  BY <1>1, <1>2, <1>3, <1>4, ChannelStep

\* The driver's channel, with its lists, lock, threads and failures, implements
\* the channel that ResponseChannel specifies.
THEOREM DriverImplementsChannel == Spec => ImplementsChannel
<1>1. Init => Channel!Init
  BY InitialState DEF Channel!Init, Pending, Owed, Init
<1>2. ChannelInv /\ [Next]_vars => ChannelInv' /\ [Channel!Next]_Channel!vars
  BY ChannelStep, ChannelRefines
<1> QED
  BY <1>1, <1>2, ChannelInit, PTL DEF Spec, ImplementsChannel, Channel!Spec
=============================================================================
