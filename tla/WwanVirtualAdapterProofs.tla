---------------------- MODULE WwanVirtualAdapterProofs ----------------------
(***************************************************************************)
(* Safety of the encapsulated-command channel for any requests, any number  *)
(* of concurrent ready callbacks and any bounds.                            *)
(***************************************************************************)
EXTENDS WwanVirtualAdapter, SequenceTheorems, FiniteSetTheorems, TLAPS

(***************************************************************************)
(* Control is always somewhere in one of its handlers with a request in     *)
(* hand, and only between taking a response and completing its URB does it  *)
(* hold a response.                                                         *)
(***************************************************************************)
RequestInService ==
    /\ pc[Control] # "idle" => request \in Requests
    /\ pc[Control] \in {"enq_lock", "enq_resp", "enq_int"} =>
          Opens(request) \/ Commands(request)
    /\ pc[Control] \notin {"get_copy", "complete"} => bufferContent = <<>>
    /\ pc[Control] = "get_copy" => Len(bufferContent) = 1

\* What a thread that holds the lock has found out still holds.
ListsAsChecked ==
    /\ pc[Control] = "get_remove" => EncapsulatedCommandResponse # <<>>
    /\ \A t \in Threads : pc[t] \in {"drain_retrieve", "drain_remove"} =>
                             AvailableInterrupt # <<>>

IInv == TypeOK /\ LockDiscipline /\ RequestInService /\ ListsAsChecked
-----------------------------------------------------------------------------
(* Lemmas about the data.                                                   *)

\* The queued response is well-typed.
LEMMA DoneType ==
    ASSUME NEW u \in Requests
    PROVE  Done(u) \in Responses
BY RequestsAssumption DEF Done, Responses, ControlUrbs, Messages

\* Every response has a length.
LEMMA LengthType ==
    ASSUME NEW r \in Responses
    PROVE  LengthOf[r.kind] \in Nat
BY DEF LengthOf, Responses

\* RemoveEntryList of the created entry leaves a list.
LEMMA RemoveCreatedEntryType ==
    ASSUME NEW S, NEW s \in Seq(S)
    PROVE  RemoveCreatedEntry(s) \in Seq(S)
<1>1. Len(s) \in Nat /\ \A i \in 1..Len(s) - 1 : s[i] \in S
  BY LenProperties
<1> QED
  BY <1>1, SubSeqProperties DEF RemoveCreatedEntry

\* RemoveEntryList undoes InsertTailList.
LEMMA RemoveCreatedEntryAppend ==
    ASSUME NEW S, NEW s \in Seq(S), NEW e \in S
    PROVE  RemoveCreatedEntry(Append(s, e)) = s
<1> DEFINE a == Append(s, e)
<1>1. Len(s) \in Nat /\ a \in Seq(S) /\ Len(a) = Len(s) + 1
      /\ \A i \in 1..Len(s) : a[i] = s[i]
  BY LenProperties, AppendProperties
<1> HIDE DEF a
<1>2. /\ SubSeq(a, 1, Len(s)) \in Seq(S)
      /\ Len(SubSeq(a, 1, Len(s))) = Len(s)
      /\ \A i \in 1..Len(s) : SubSeq(a, 1, Len(s))[i] = a[i]
  <2>1. \A i \in 1..Len(s) : a[i] \in S
    BY <1>1, ElementOfSeq
  <2> QED
    BY <1>1, <2>1, SubSeqProperties
<1>3. SubSeq(a, 1, Len(s)) = s
  BY <1>1, <1>2, SeqEqual
<1> QED
  BY <1>1, <1>3 DEF a, RemoveCreatedEntry

\* InsertHeadList undoes RemoveHeadList.
LEMMA InsertHeadListOfTail ==
    ASSUME NEW S, NEW s \in Seq(S), s # <<>>
    PROVE  InsertHeadList(Head(s), Tail(s)) = s
<1> DEFINE h == <<Head(s)>>
<1>1. /\ Head(s) \in S /\ Tail(s) \in Seq(S) /\ Len(Tail(s)) = Len(s) - 1
      /\ \A i \in 1..Len(Tail(s)) : Tail(s)[i] = s[i + 1]
  BY HeadTailProperties
<1>2. Len(s) \in Nat \ {0} /\ Head(s) = s[1]
  BY EmptySeq
<1>3. h \in Seq(S) /\ Len(h) = 1 /\ h[1] = s[1]
  BY <1>1, <1>2
<1> HIDE DEF h
<1> DEFINE t == Tail(s)
<1>4. t \in Seq(S) /\ Len(t) = Len(s) - 1 /\ \A i \in 1..Len(t) : t[i] = s[i + 1]
  BY <1>1
<1> HIDE DEF t
<1>5. /\ h \o t \in Seq(S)
      /\ Len(h \o t) = Len(h) + Len(t)
      /\ \A i \in 1..Len(h) + Len(t) : (h \o t)[i] =
                                  IF i <= Len(h) THEN h[i] ELSE t[i - Len(h)]
  <2>1. h \in Seq(S) /\ t \in Seq(S)
    BY <1>3, <1>4
  <2> QED
    BY ONLY <2>1, ConcatProperties, Zenon
<1> DEFINE ht == h \o t
<1> HIDE DEF ht
<1>6. Len(ht) = Len(s) /\ \A i \in 1..Len(ht) : ht[i] = s[i]
  BY <1>2, <1>3, <1>4, <1>5 DEF ht
<1>7. ht = s
  BY <1>5, <1>6, SeqEqual DEF ht
<1> QED
  BY <1>7 DEF h, t, ht, InsertHeadList

\* A queued response is named by its kind in AvailableInterrupt.
LEMMA KindType ==
    ASSUME NEW r \in Responses
    PROVE  r.kind \in {"OPEN_DONE", "COMMAND_DONE"}
BY DEF Responses

\* What IoEvtControlUrb has done when its handler returns or first waits: it
\* leaves the lists, the lock and the interrupt queue alone.
LEMMA DispatchProperties ==
    ASSUME TypeOK, NEW u \in Requests, IoEvtControlUrb(u)
    PROVE  /\ pc[Control] = "idle"
           /\ request' = u
           /\ status' \in Statuses /\ bytes' \in Nat /\ answered' \in BOOLEAN
           /\ usbContext' \in [MaxBulkInTransfer : Nat,
              NTBFormatSetupValue : {0, 1}]
           /\ pool' \in Int
           /\ \E label \in {"complete", "get_lock", "enq_lock"} :
                 /\ pc' = [pc EXCEPT ![Control] = label]
                 /\ label = "enq_lock" => Opens(u) \/ Commands(u)
           /\ UNCHANGED <<lists, InProgressLock, framework, interruptUrb,
                          bufferContent, history>>
<1> USE DEF Dispatch, Return, Goto, At, lists, framework, history
<1>1. u.length \in Nat /\ u.word \in Nat /\ u.wValue \in Nat
  BY RequestsAssumption DEF ControlUrbs
<1>2. CASE RetrieveSetupFails(u)
  BY <1>1, <1>2 DEF RetrieveSetupFails, TypeOK, Statuses
<1>3. CASE Unrecognized(u)
  BY <1>1, <1>3 DEF Unrecognized, TypeOK, Statuses
<1>4. CASE GetNtbParameters(u)
  <2>1. SizeofNtbParameter \in Nat /\ GetNtbParametersStatus(u) \in Statuses
    BY DEF SizeofNtbParameter, GetNtbParametersStatus, Statuses
  <2> QED
    BY <1>1, <1>4, <2>1 DEF GetNtbParameters, TypeOK
<1>5. CASE SetNtbInputSize(u)
  <2>1. SetNtbInputSizeStatus(u) \in Statuses
    BY DEF SetNtbInputSizeStatus, Statuses
  <2> QED
    BY <1>1, <1>5, <2>1 DEF SetNtbInputSize, TypeOK
<1>6. CASE SetNtbFormat(u)
  <2>1. /\ SetNtbFormatStatus(u) \in Statuses
        /\ SetNtbFormatStatus(u) = "SUCCESS" => u.wValue \in {0, 1}
    BY <1>1 DEF SetNtbFormatStatus, Statuses
  <2> QED
    BY <1>1, <1>6, <2>1 DEF SetNtbFormat, TypeOK
<1>7. CASE ResetAdapter(u)
  BY <1>1, <1>7 DEF ResetAdapter, TypeOK, Statuses
<1>8. CASE RejectFetch(u)
  BY <1>1, <1>8 DEF RejectFetch, TypeOK, Statuses
<1>9. CASE SendWithoutResponse(u)
  <2>1. MbbCommandStatus(u.message) \in Statuses /\ "INVALID_DEVICE_REQUEST" \in Statuses
    BY DEF MbbCommandStatus, Statuses
  <2> QED
    BY <1>1, <1>9, <2>1 DEF SendWithoutResponse, TypeOK
<1>10. CASE GetEncapsulatedCommand(u)
  BY <1>10 DEF GetEncapsulatedCommand, TypeOK
<1>11. CASE MbbOpen(u)
  BY <1>11 DEF MbbOpen, TypeOK
<1>12. CASE MbbCommand(u)
  <2>1. Opens(u) \/ Commands(u)
    BY <1>12 DEF MbbCommand
  <2>2. CASE /\ pool' = pool + 1
             /\ Goto(Control, "enq_lock")
             /\ UNCHANGED <<status, bytes>>
    BY <1>12, <2>1, <2>2 DEF MbbCommand, TypeOK
  <2>3. CASE Return("SUCCESS", u.length) /\ UNCHANGED pool
    BY <1>1, <1>12, <2>3 DEF MbbCommand, TypeOK, Statuses
  <2> QED
    BY <1>12, <2>2, <2>3 DEF MbbCommand
<1> QED
  BY <1>2, <1>3, <1>4, <1>5, <1>6, <1>7, <1>8, <1>9, <1>10, <1>11, <1>12
  DEF IoEvtControlUrb

\* A thread that moves on from a point of its handler reaches another.
LEMMA GotoType ==
    ASSUME TypeOK, NEW t \in Threads, NEW label \in Labels,
           t \in ReadyThreads => label \in DrainLabels,
           pc' = [pc EXCEPT ![t] = label]
    PROVE  /\ pc' \in [Threads -> Labels]
           /\ \A x \in ReadyThreads : pc'[x] \in DrainLabels
<1>1. /\ pc \in [Threads -> Labels] /\ \A x \in ReadyThreads : pc[x] \in DrainLabels
      /\ ReadyThreads \subseteq Threads
  BY DEF TypeOK, Threads
<1> QED
  BY <1>1
-----------------------------------------------------------------------------
(* The inductive invariant.                                                 *)

\* It holds initially ...
LEMMA InitInvariant == Init => IInv
<1> SUFFICES ASSUME Init PROVE IInv
  OBVIOUS
<1>1. TypeOK
  <2>1. /\ <<>> \in Seq(Responses)
        /\ <<>> \in Seq({"OPEN_DONE", "COMMAND_DONE"})
        /\ <<>> \in Seq(Buffers)
    BY EmptySeq
  <2>2. powerDowns \in 0..MaxPowerDowns
    BY BoundsAssumption DEF Init
  <2>3. pc \in [Threads -> Labels] /\ \A t \in ReadyThreads : pc[t] \in DrainLabels
    BY DEF Init, Threads, Labels, DrainLabels
  <2>4. interruptUrb \in [Threads -> Buffers]
    BY DEF Init, Buffers
  <2>5. usbContext \in [MaxBulkInTransfer : Nat, NTBFormatSetupValue : {0, 1}]
    BY DEF Init
  <2>6. InProgressLock \in Threads \cup {NoThread} /\ status \in Statuses
    BY DEF Init, Statuses
  <2>7. pool \in Int /\ bytes \in Nat /\ delivered \in Nat
    BY DEF Init
  <2>8. readyNotify \in BOOLEAN /\ powered \in BOOLEAN /\ answered \in BOOLEAN
    BY Zenon DEF Init
  <2>9. request \in Requests \cup {NoUrb}
    BY DEF Init
  <2>10. /\ EncapsulatedCommandResponse \in Seq(Responses)
        /\ AvailableInterrupt \in Seq({"OPEN_DONE", "COMMAND_DONE"})
        /\ InterruptUrbQueue \in Seq(Buffers)
        /\ bufferContent \in Seq(Responses)
        /\ accepted \in Seq(Responses)
        /\ fetched \in Seq(Responses)
    BY <2>1 DEF Init
  <2> QED
    BY <2>2, <2>3, <2>4, <2>5, <2>6, <2>7, <2>8, <2>9, <2>10 DEF TypeOK
<1>2. LockDiscipline
  BY ThreadsAssumption DEF Init, LockDiscipline, LockedLabels
<1>3. RequestInService /\ ListsAsChecked
  BY ThreadsAssumption DEF Init, RequestInService, ListsAsChecked, Threads
<1> QED
  BY <1>1, <1>2, <1>3 DEF IInv

\* ... and every step keeps it.
LEMMA StepInvariant == IInv /\ [Next]_vars => IInv'
<1> SUFFICES ASSUME IInv, [Next]_vars PROVE IInv'
  OBVIOUS
<1> USE ThreadsAssumption DEF IInv, Goto, At, Acquire, Release, Return,
            lists, framework, control, history, vars
<1>1. ASSUME NEW u \in Requests, IoEvtControlUrb(u) PROVE IInv'
  <2>1. PICK label \in {"complete", "get_lock", "enq_lock"} :
           /\ pc' = [pc EXCEPT ![Control] = label]
           /\ label = "enq_lock" => Opens(u) \/ Commands(u)
    BY <1>1, DispatchProperties
  <2>2. /\ pc[Control] = "idle" /\ request' = u
        /\ UNCHANGED <<lists, InProgressLock, framework, interruptUrb,
                       bufferContent, history>>
    BY <1>1, DispatchProperties
  <2>3. TypeOK'
    <3>1. /\ status' \in Statuses /\ bytes' \in Nat /\ answered' \in BOOLEAN
          /\ usbContext' \in [MaxBulkInTransfer : Nat,
             NTBFormatSetupValue : {0, 1}]
          /\ pool' \in Int
      BY <1>1, DispatchProperties
    <3> QED
      BY <2>1, <2>2, <3>1 DEF TypeOK, Threads, Labels
  <2>4. LockDiscipline'
    BY <2>1, <2>2 DEF TypeOK, LockDiscipline, Threads, LockedLabels
  <2>5. RequestInService'
    BY <2>1, <2>2 DEF TypeOK, RequestInService, Threads
  <2>6. ListsAsChecked'
    BY <2>1, <2>2 DEF TypeOK, ListsAsChecked, Threads
  <2> QED
    BY <2>3, <2>4, <2>5, <2>6
<1>2. ASSUME CompleteControlUrb PROVE IInv'
  <2> USE <1>2 DEF CompleteControlUrb
  <2> DEFINE f == fetched \o bufferContent
  <2>1. f \in Seq(Responses) /\ <<>> \in Seq(Responses)
    BY ConcatProperties, EmptySeq DEF TypeOK
  <2> HIDE DEF f
  <2>2. TypeOK'
    BY <2>1 DEF f, TypeOK, Threads, Labels, DrainLabels, Statuses, Buffers
  <2>3. LockDiscipline'
    BY DEF TypeOK, LockDiscipline, Threads, LockedLabels
  <2>4. RequestInService'
    BY DEF TypeOK, RequestInService, Threads
  <2>5. ListsAsChecked'
    BY DEF TypeOK, LockDiscipline, LockedLabels, ListsAsChecked, Threads
  <2> QED
    BY <2>2, <2>3, <2>4, <2>5
<1>3. ASSUME AcquireToEnqueue PROVE IInv'
  <2> USE <1>3 DEF AcquireToEnqueue
  <2>1. TypeOK'
    BY DEF TypeOK, Threads, Labels, DrainLabels, Statuses, Buffers
  <2>2. LockDiscipline'
    BY DEF TypeOK, LockDiscipline, Threads, LockedLabels
  <2>3. RequestInService'
    BY DEF TypeOK, RequestInService, Threads
  <2>4. ListsAsChecked'
    BY DEF TypeOK, LockDiscipline, LockedLabels, ListsAsChecked, Threads
  <2> QED
    BY <2>1, <2>2, <2>3, <2>4
<1>4. ASSUME EnqueueResponse PROVE IInv'
  <2> USE <1>4 DEF EnqueueResponse
  <2>1. /\ request \in Requests
        /\ request.length \in Nat
        /\ Append(EncapsulatedCommandResponse, Done(request)) \in Seq(Responses)
    <3>1. request \in Requests
      BY DEF RequestInService
    <3> QED
      BY <3>1, DoneType, AppendProperties, RequestsAssumption DEF ControlUrbs,
             TypeOK
  <2>2. TypeOK'
    <3>1. pc' \in [Threads -> Labels] /\ \A x \in ReadyThreads : pc'[x] \in DrainLabels
      BY DEF FailEnqueue, TypeOK, Threads, Labels, DrainLabels
    <3>2. status' \in Statuses /\ bytes' \in Nat
      BY <2>1 DEF TypeOK, Statuses, FailEnqueue, FailureStatus
    <3>3. pool' \in Int
      BY DEF TypeOK, AllocatedBefore, EntryAllocations
    <3>4. EncapsulatedCommandResponse' \in Seq(Responses)
      BY <2>1 DEF TypeOK
    <3>5. InProgressLock' \in Threads \cup {NoThread}
      BY DEF TypeOK, FailEnqueue
    <3> QED
      BY <3>1, <3>2, <3>3, <3>4, <3>5 DEF TypeOK
  <2>3. LockDiscipline'
    BY <2>1 DEF TypeOK, LockDiscipline, Threads, LockedLabels, FailEnqueue,
           FailureStatus, AllocatedBefore, EntryAllocations, Opening
  <2>4. RequestInService'
    BY <2>1 DEF TypeOK, RequestInService, Threads, FailEnqueue, FailureStatus,
           AllocatedBefore, EntryAllocations, Opening
  <2>5. ListsAsChecked'
    BY <2>1 DEF TypeOK, LockDiscipline, LockedLabels, ListsAsChecked, Threads,
           FailEnqueue, FailureStatus, AllocatedBefore, EntryAllocations,
              Opening
  <2> QED
    BY <2>2, <2>3, <2>4, <2>5
<1>5. ASSUME EnqueueAvailableInterrupt PROVE IInv'
  <2> USE <1>5 DEF EnqueueAvailableInterrupt
  <2>1. /\ request \in Requests
        /\ request.length \in Nat
        /\ Append(accepted, Done(request)) \in Seq(Responses)
        /\ Append(AvailableInterrupt, Done(request).kind)
              \in Seq({"OPEN_DONE", "COMMAND_DONE"})
        /\ Append(AvailableInterrupt, Done(request).kind) # <<>>
        /\ RemoveCreatedEntry(EncapsulatedCommandResponse) \in Seq(Responses)
    <3>1. request \in Requests
      BY DEF RequestInService
    <3>2. request.length \in Nat
      BY <3>1, RequestsAssumption DEF ControlUrbs
    <3>3. Append(accepted, Done(request)) \in Seq(Responses)
      BY <3>1, DoneType, AppendProperties DEF TypeOK
    <3> DEFINE kinds == {"OPEN_DONE", "COMMAND_DONE"}
    <3>4. Done(request).kind \in kinds /\ AvailableInterrupt \in Seq(kinds)
      BY <3>1, DoneType, KindType DEF TypeOK
    <3> HIDE DEF kinds
    <3>5. /\ Append(AvailableInterrupt, Done(request).kind) \in Seq(kinds)
          /\ Append(AvailableInterrupt, Done(request).kind) # <<>>
      BY <3>4, AppendProperties
    <3>6. RemoveCreatedEntry(EncapsulatedCommandResponse) \in Seq(Responses)
      BY RemoveCreatedEntryType DEF TypeOK
    <3> QED
      BY <3>1, <3>2, <3>3, <3>5, <3>6 DEF kinds
  <2>2. TypeOK'
    <3>1. pc' \in [Threads -> Labels] /\ \A x \in ReadyThreads : pc'[x] \in DrainLabels
      <4>1. \E label \in Labels : /\ pc' = [pc EXCEPT ![Control] = label]
                                  /\ Control \in ReadyThreads => label \in DrainLabels
        BY DEF FailEnqueue, AfterEnqueue, Labels, DrainLabels
      <4> QED
        BY <4>1, GotoType DEF Threads
    <3>2. status' \in Statuses /\ bytes' \in Nat /\ pool' \in Int
      <4>1. status' = "SUCCESS" \/ status' = FailureStatus
        BY DEF FailEnqueue
      <4>2. bytes' = request.length
        BY DEF FailEnqueue
      <4>3. pool' = pool + 2 \/ pool' = pool - 2
        OBVIOUS
      <4>4. status' \in Statuses
        BY ONLY <4>1 DEF Statuses, FailureStatus
      <4>5. pool \in Int
        BY DEF TypeOK
      <4> QED
        BY ONLY <2>1, <4>2, <4>3, <4>4, <4>5
    <3>3. /\ EncapsulatedCommandResponse' \in Seq(Responses)
          /\ AvailableInterrupt' \in Seq({"OPEN_DONE", "COMMAND_DONE"})
          /\ accepted' \in Seq(Responses)
      BY <2>1 DEF TypeOK
    <3>4. InProgressLock' \in Threads \cup {NoThread}
      BY DEF TypeOK, FailEnqueue
    <3> QED
      BY <3>1, <3>2, <3>3, <3>4 DEF TypeOK
  <2>3. LockDiscipline'
    BY <2>1 DEF TypeOK, LockDiscipline, Threads, LockedLabels, FailEnqueue,
           FailureStatus, AfterEnqueue, Opening
  <2>4. RequestInService'
    BY <2>1 DEF TypeOK, RequestInService, Threads, FailEnqueue, FailureStatus,
           AfterEnqueue, Opening
  <2>5. ListsAsChecked'
    BY <2>1 DEF TypeOK, LockDiscipline, LockedLabels, ListsAsChecked, Threads,
           FailEnqueue, FailureStatus, AfterEnqueue, Opening
  <2> QED
    BY <2>2, <2>3, <2>4, <2>5
<1>6. ASSUME AcquireToGet PROVE IInv'
  <2> USE <1>6 DEF AcquireToGet
  <2>1. TypeOK'
    BY DEF TypeOK, Threads, Labels, DrainLabels, Statuses, Buffers
  <2>2. LockDiscipline'
    BY DEF TypeOK, LockDiscipline, Threads, LockedLabels
  <2>3. RequestInService'
    BY DEF TypeOK, RequestInService, Threads
  <2>4. ListsAsChecked'
    BY DEF TypeOK, LockDiscipline, LockedLabels, ListsAsChecked, Threads
  <2> QED
    BY <2>1, <2>2, <2>3, <2>4
<1>7. ASSUME CheckResponse PROVE IInv'
  <2> USE <1>7 DEF CheckResponse
  <2>1. request.length \in Nat
    BY RequestsAssumption DEF RequestInService, ControlUrbs
  <2>2. TypeOK'
    BY <2>1 DEF TypeOK, Threads, Labels, DrainLabels, Statuses, Buffers,
           EmptyListStatus
  <2>3. LockDiscipline'
    BY <2>1 DEF TypeOK, LockDiscipline, Threads, LockedLabels, EmptyListStatus
  <2>4. RequestInService'
    BY <2>1 DEF TypeOK, RequestInService, Threads, EmptyListStatus
  <2>5. ListsAsChecked'
    BY <2>1 DEF TypeOK, LockDiscipline, LockedLabels, ListsAsChecked, Threads,
           EmptyListStatus
  <2> QED
    BY <2>2, <2>3, <2>4, <2>5
<1>8. ASSUME RemoveResponse PROVE IInv'
  <2> USE <1>8 DEF RemoveResponse
  <2> DEFINE head == Head(EncapsulatedCommandResponse)
             rest == Tail(EncapsulatedCommandResponse)
  <2>1. request.length \in Nat
    BY RequestsAssumption DEF RequestInService, ControlUrbs
  <2>2. /\ rest \in Seq(Responses)
         /\ <<head>> \in Seq(Responses) /\ Len(<<head>>) = 1
         /\ InsertHeadList(head, rest) = EncapsulatedCommandResponse
    BY HeadTailProperties, InsertHeadListOfTail DEF TypeOK, ListsAsChecked
  <2> HIDE DEF head, rest
  <2>3. TypeOK'
    <3>1. pc' \in [Threads -> Labels] /\ \A x \in ReadyThreads : pc'[x] \in DrainLabels
      <4>1. \E label \in Labels : /\ pc' = [pc EXCEPT ![Control] = label]
                                  /\ Control \in ReadyThreads => label \in DrainLabels
        BY DEF Labels, DrainLabels
      <4> QED
        BY <4>1, GotoType DEF Threads
    <3>2. status' \in Statuses /\ bytes' \in Nat
      BY <2>1 DEF TypeOK, Statuses
    <3>3. /\ EncapsulatedCommandResponse' \in Seq(Responses)
          /\ bufferContent' \in Seq(Responses)
      BY <2>2 DEF TypeOK, head, rest
    <3> QED
      BY <3>1, <3>2, <3>3 DEF TypeOK
  <2>4. LockDiscipline'
    BY <2>1, <2>2 DEF head, rest, TypeOK, LockDiscipline, Threads, LockedLabels
  <2>5. RequestInService'
    BY <2>1, <2>2 DEF head, rest, TypeOK, RequestInService, Threads
  <2>6. ListsAsChecked'
    BY <2>1, <2>2 DEF head, rest, TypeOK, LockDiscipline, LockedLabels,
           ListsAsChecked, Threads
  <2> QED
    BY <2>3, <2>4, <2>5, <2>6
<1>9. ASSUME CopyResponse PROVE IInv'
  <2> USE <1>9 DEF CopyResponse
  <2>1. LengthOf[bufferContent[1].kind] \in Nat
    <3>1. bufferContent \in Seq(Responses) /\ 1 \in 1..Len(bufferContent)
      <4>1. Len(bufferContent) = 1
        BY DEF RequestInService
      <4> QED
        BY <4>1 DEF TypeOK
    <3>2. bufferContent[1] \in Responses
      BY <3>1, ElementOfSeq
    <3> QED
      BY <3>2, LengthType
  <2>2. TypeOK'
    BY <2>1 DEF TypeOK, Threads, Labels, DrainLabels, Statuses, Buffers
  <2>3. LockDiscipline'
    BY <2>1 DEF TypeOK, LockDiscipline, Threads, LockedLabels
  <2>4. RequestInService'
    BY <2>1 DEF TypeOK, RequestInService, Threads
  <2>5. ListsAsChecked'
    BY <2>1 DEF TypeOK, LockDiscipline, LockedLabels, ListsAsChecked, Threads
  <2> QED
    BY <2>2, <2>3, <2>4, <2>5
<1>10. ASSUME NEW t \in Threads, AcquireToDrain(t) PROVE IInv'
  <2> USE <1>10 DEF AcquireToDrain
  <2>1. TypeOK'
    BY DEF TypeOK, Threads, Labels, DrainLabels, Statuses, Buffers
  <2>2. LockDiscipline'
    BY DEF TypeOK, LockDiscipline, Threads, LockedLabels
  <2>3. RequestInService'
    BY DEF TypeOK, RequestInService, Threads
  <2>4. ListsAsChecked'
    BY DEF TypeOK, LockDiscipline, LockedLabels, ListsAsChecked, Threads
  <2> QED
    BY <2>1, <2>2, <2>3, <2>4
<1>11. ASSUME NEW t \in Threads, CheckInterrupt(t) PROVE IInv'
  <2> USE <1>11 DEF CheckInterrupt
  <2>1. TypeOK'
    <3>1. pc' \in [Threads -> Labels] /\ \A x \in ReadyThreads : pc'[x] \in DrainLabels
      <4>1. \E label \in Labels : /\ pc' = [pc EXCEPT ![t] = label]
                                  /\ t \in ReadyThreads => label \in DrainLabels
        BY DEF AfterDrain, Labels, DrainLabels
      <4> QED
        BY <4>1, GotoType DEF Threads
    <3> QED
      BY <3>1 DEF TypeOK
  <2>2. LockDiscipline'
    BY DEF TypeOK, LockDiscipline, Threads, LockedLabels, AfterDrain
  <2>3. RequestInService'
    BY DEF TypeOK, RequestInService, Threads, AfterDrain
  <2>4. ListsAsChecked'
    BY DEF TypeOK, LockDiscipline, LockedLabels, ListsAsChecked, Threads,
           AfterDrain
  <2> QED
    BY <2>1, <2>2, <2>3, <2>4
<1>12. ASSUME NEW t \in Threads, RetrieveNextRequest(t) PROVE IInv'
  <2> USE <1>12 DEF RetrieveNextRequest
  <2>1. TypeOK'
    <3>1. pc' \in [Threads -> Labels] /\ \A x \in ReadyThreads : pc'[x] \in DrainLabels
      <4>1. \E label \in Labels : /\ pc' = [pc EXCEPT ![t] = label]
                                  /\ t \in ReadyThreads => label \in DrainLabels
        BY DEF AfterDrain, Labels, DrainLabels
      <4> QED
        BY <4>1, GotoType DEF Threads
    <3>2. InterruptUrbQueue' \in Seq(Buffers) /\ interruptUrb' \in [Threads -> Buffers]
      <4>1. CASE InterruptUrbQueue = <<>> \/ ~ powered
        BY <4>1 DEF TypeOK
      <4>2. CASE InterruptUrbQueue # <<>> /\ powered
        <5>1. /\ Head(InterruptUrbQueue) \in Buffers
              /\ Tail(InterruptUrbQueue) \in Seq(Buffers)
          BY <4>2, HeadTailProperties DEF TypeOK
        <5>2. /\ interruptUrb' = [interruptUrb EXCEPT ![t] = Head(InterruptUrbQueue)]
              /\ InterruptUrbQueue' = Tail(InterruptUrbQueue)
          BY <4>2
        <5> QED
          BY <5>1, <5>2 DEF TypeOK
      <4> QED
        BY <4>1, <4>2
    <3> QED
      BY <3>1, <3>2 DEF TypeOK
  <2>2. LockDiscipline'
    BY DEF TypeOK, LockDiscipline, Threads, LockedLabels, AfterDrain
  <2>3. RequestInService'
    BY DEF TypeOK, RequestInService, Threads, AfterDrain
  <2>4. ListsAsChecked'
    BY DEF TypeOK, LockDiscipline, LockedLabels, ListsAsChecked, Threads,
           AfterDrain
  <2> QED
    BY <2>1, <2>2, <2>3, <2>4
<1>13. ASSUME NEW t \in Threads, RemoveInterrupt(t) PROVE IInv'
  <2> USE <1>13 DEF RemoveInterrupt
  <2>1. TypeOK'
    <3>1. pc' \in [Threads -> Labels] /\ \A x \in ReadyThreads : pc'[x] \in DrainLabels
      <4>1. \E label \in Labels : /\ pc' = [pc EXCEPT ![t] = label]
                                  /\ t \in ReadyThreads => label \in DrainLabels
        BY DEF Labels, DrainLabels
      <4> QED
        BY <4>1, GotoType DEF Threads
    <3>2. AvailableInterrupt' \in Seq({"OPEN_DONE", "COMMAND_DONE"})
      <4> DEFINE kinds == {"OPEN_DONE", "COMMAND_DONE"}
      <4>1. AvailableInterrupt \in Seq(kinds) /\ AvailableInterrupt # <<>>
        BY DEF TypeOK, ListsAsChecked
      <4> HIDE DEF kinds
      <4>2. /\ Tail(AvailableInterrupt) \in Seq(kinds)
            /\ InsertHeadList(Head(AvailableInterrupt),
               Tail(AvailableInterrupt)) =
                  AvailableInterrupt
        BY <4>1, HeadTailProperties, InsertHeadListOfTail
      <4>3. AvailableInterrupt' \in Seq(kinds)
        BY <4>1, <4>2
      <4> QED
        BY <4>3 DEF kinds
    <3> QED
      BY <3>1, <3>2 DEF TypeOK
  <2>2. LockDiscipline'
    BY DEF TypeOK, LockDiscipline, Threads, LockedLabels
  <2>3. RequestInService'
    BY DEF TypeOK, RequestInService, Threads
  <2>4. ListsAsChecked'
    <3>1. \A x \in Threads : x # t => pc[x] \notin LockedLabels /\ pc'[x] = pc[x]
      BY DEF TypeOK, LockDiscipline, LockedLabels
    <3>2. pc'[t] \notin {"get_remove", "drain_retrieve", "drain_remove"}
      BY DEF TypeOK
    <3> QED
      BY <3>1, <3>2 DEF ListsAsChecked, LockedLabels, Threads
  <2> QED
    BY <2>1, <2>2, <2>3, <2>4
<1>14. ASSUME NEW t \in Threads, DeliverInterrupt(t) PROVE IInv'
  <2> USE <1>14 DEF DeliverInterrupt
  <2>1. TypeOK'
    BY DEF TypeOK, Threads, Labels, DrainLabels, Statuses, Buffers
  <2>2. LockDiscipline'
    BY DEF TypeOK, LockDiscipline, Threads, LockedLabels
  <2>3. RequestInService'
    BY DEF TypeOK, RequestInService, Threads
  <2>4. ListsAsChecked'
    BY DEF TypeOK, LockDiscipline, LockedLabels, ListsAsChecked, Threads
  <2> QED
    BY <2>1, <2>2, <2>3, <2>4
<1>15. ASSUME NEW t \in Threads, GiveBackUrb(t) PROVE IInv'
  <2> USE <1>15 DEF GiveBackUrb
  <2>1. TypeOK'
    BY DEF TypeOK, Threads, Labels, DrainLabels, Statuses, Buffers
  <2>2. LockDiscipline'
    BY DEF TypeOK, LockDiscipline, Threads, LockedLabels
  <2>3. RequestInService'
    BY DEF TypeOK, RequestInService, Threads
  <2>4. ListsAsChecked'
    BY DEF TypeOK, LockDiscipline, LockedLabels, ListsAsChecked, Threads
  <2> QED
    BY <2>1, <2>2, <2>3, <2>4
<1>16. ASSUME NEW t \in ReadyThreads, IoEvtInterruptUrbQueueReady(t) PROVE IInv'
  <2> USE <1>16 DEF IoEvtInterruptUrbQueueReady
  <2>1. TypeOK'
    BY DEF TypeOK, Threads, Labels, DrainLabels, Statuses, Buffers
  <2>2. LockDiscipline'
    BY DEF TypeOK, LockDiscipline, Threads, LockedLabels
  <2>3. RequestInService'
    BY DEF TypeOK, RequestInService, Threads
  <2>4. ListsAsChecked'
    BY DEF TypeOK, LockDiscipline, LockedLabels, ListsAsChecked, Threads
  <2> QED
    BY <2>1, <2>2, <2>3, <2>4
<1>17. ASSUME NEW b \in UrbBuffers, PostInterruptUrb(b) PROVE IInv'
  <2> USE <1>17 DEF PostInterruptUrb
  <2>1. TypeOK'
    BY RequestsAssumption DEF TypeOK, Threads, Labels, DrainLabels, Statuses,
           Buffers
  <2>2. LockDiscipline'
    BY DEF TypeOK, LockDiscipline, Threads, LockedLabels
  <2>3. RequestInService'
    BY DEF TypeOK, RequestInService, Threads
  <2>4. ListsAsChecked'
    BY DEF TypeOK, LockDiscipline, LockedLabels, ListsAsChecked, Threads
  <2> QED
    BY <2>1, <2>2, <2>3, <2>4
<1>18. ASSUME NEW i \in 1..MaxInterruptUrbs, CancelInterruptUrb(i) PROVE IInv'
  <2> USE <1>18 DEF CancelInterruptUrb
  <2>1. TypeOK'
    BY DEF TypeOK, Threads, Labels, DrainLabels, Statuses, Buffers
  <2>2. LockDiscipline'
    BY DEF TypeOK, LockDiscipline, Threads, LockedLabels
  <2>3. RequestInService'
    BY DEF TypeOK, RequestInService, Threads
  <2>4. ListsAsChecked'
    BY DEF TypeOK, LockDiscipline, LockedLabels, ListsAsChecked, Threads
  <2> QED
    BY <2>1, <2>2, <2>3, <2>4
<1>19. ASSUME PowerDown PROVE IInv'
  <2> USE <1>19 DEF PowerDown
  <2>1. TypeOK'
    <3>1. powerDowns' \in 0..MaxPowerDowns
      BY BoundsAssumption DEF TypeOK
    <3> QED
      BY <3>1 DEF TypeOK
  <2>2. LockDiscipline'
    BY DEF TypeOK, LockDiscipline, Threads, LockedLabels
  <2>3. RequestInService'
    BY DEF TypeOK, RequestInService, Threads
  <2>4. ListsAsChecked'
    BY DEF TypeOK, LockDiscipline, LockedLabels, ListsAsChecked, Threads
  <2> QED
    BY <2>1, <2>2, <2>3, <2>4
<1>20. ASSUME PowerUp PROVE IInv'
  <2> USE <1>20 DEF PowerUp
  <2>1. TypeOK'
    BY DEF TypeOK, Threads, Labels, DrainLabels, Statuses, Buffers
  <2>2. LockDiscipline'
    BY DEF TypeOK, LockDiscipline, Threads, LockedLabels
  <2>3. RequestInService'
    BY DEF TypeOK, RequestInService, Threads
  <2>4. ListsAsChecked'
    BY DEF TypeOK, LockDiscipline, LockedLabels, ListsAsChecked, Threads
  <2> QED
    BY <2>1, <2>2, <2>3, <2>4
<1>21. ASSUME UNCHANGED vars PROVE IInv'
  BY <1>21 DEF TypeOK, LockDiscipline, RequestInService, ListsAsChecked
<1> QED
  BY <1>1, <1>2, <1>3, <1>4, <1>5, <1>6, <1>7, <1>8, <1>9, <1>10, <1>11,
     <1>12, <1>13, <1>14, <1>15, <1>16, <1>17, <1>18, <1>19, <1>20, <1>21
  DEF Next, Host, ControlStep, MbbTryDrainInterrupt
-----------------------------------------------------------------------------
(* Theorems.                                                                *)

\* In every behaviour the state is well-typed.
THEOREM TypeCorrect == Spec => []TypeOK
<1>1. IInv => TypeOK
  BY DEF IInv
<1> QED
  BY InitInvariant, StepInvariant, <1>1, PTL DEF Spec

\* InProgressLock protects the lists: it is held exactly between an acquire
\* and its release, whatever fails in between.
THEOREM LockIsDisciplined == Spec => []LockDiscipline
<1>1. IInv => LockDiscipline
  BY DEF IInv
<1> QED
  BY InitInvariant, StepInvariant, <1>1, PTL DEF Spec

\* No handler removes the head of an empty list.
THEOREM NoRemoveFromEmpty == Spec => []NoRemoveFromEmptyList
<1>1. IInv => NoRemoveFromEmptyList
  BY DEF IInv, ListsAsChecked, NoRemoveFromEmptyList, At
<1> QED
  BY InitInvariant, StepInvariant, <1>1, PTL DEF Spec
-----------------------------------------------------------------------------
(* The handlers of a control URB.                                           *)

\* The ways IoEvtControlUrb has to deal with a URB, by the names of their actions,
\* and what each asks of the URB.
Handlers == {"RetrieveSetupFails", "Unrecognized", "GetNtbParameters", "SetNtbInputSize",
             "SetNtbFormat", "ResetAdapter", "RejectFetch", "SendWithoutResponse",
             "GetEncapsulatedCommand", "MbbOpen", "MbbCommand"}

Takes(h, u) ==
    \/ h = "RetrieveSetupFails" /\ ~ u.isControl
    \/ h = "Unrecognized" /\ u.isControl /\ ~ Recognized(u)
    \/ h = "GetNtbParameters" /\ Serves(u, "GET_NTB_PARAMETERS")
    \/ h = "SetNtbInputSize" /\ Serves(u, "SET_NTB_INPUT_SIZE")
    \/ h = "SetNtbFormat" /\ Serves(u, "SET_NBT_FORMAT")
    \/ h = "ResetAdapter" /\ Serves(u, "RESET_FUNCTION")
    \/ h = "RejectFetch" /\ Serves(u, "GET_ENCAPSULATE_RESPONSE") /\ ~ Fetches(u)
    \/ h = "SendWithoutResponse" /\ Serves(u, "SEND_ENCAPSULATE_COMMAND")
                                 /\ ~ Opens(u) /\ ~ Commands(u)
    \/ h = "GetEncapsulatedCommand" /\ Fetches(u)
    \/ h = "MbbOpen" /\ Opens(u)
    \/ h = "MbbCommand" /\ Commands(u)

Served(h, u) ==
    \/ h = "RetrieveSetupFails" /\ RetrieveSetupFails(u)
    \/ h = "Unrecognized" /\ Unrecognized(u)
    \/ h = "GetNtbParameters" /\ GetNtbParameters(u)
    \/ h = "SetNtbInputSize" /\ SetNtbInputSize(u)
    \/ h = "SetNtbFormat" /\ SetNtbFormat(u)
    \/ h = "ResetAdapter" /\ ResetAdapter(u)
    \/ h = "RejectFetch" /\ RejectFetch(u)
    \/ h = "SendWithoutResponse" /\ SendWithoutResponse(u)
    \/ h = "GetEncapsulatedCommand" /\ GetEncapsulatedCommand(u)
    \/ h = "MbbOpen" /\ MbbOpen(u)
    \/ h = "MbbCommand" /\ MbbCommand(u)

\* A URB that leads to a handler of the encapsulated-command channel is served
\* under that handler's request, and no message is both OPEN and COMMAND.
LEMMA ChannelRequests ==
    ASSUME NEW u
    PROVE  /\ Fetches(u) => Serves(u, "GET_ENCAPSULATE_RESPONSE")
           /\ Opens(u) \/ Commands(u) => Serves(u, "SEND_ENCAPSULATE_COMMAND")
           /\ ~ (Opens(u) /\ Commands(u))
BY DEF Fetches, Opens, Commands, CarriesMessage

\* A recognized request is one of six, and no other at the same time.
LEMMA RecognizedRequests ==
    ASSUME NEW u
    PROVE  /\ Recognized(u) => /\ u.isControl
                               /\ \E name \in InRequests \cup OutRequests : Serves(u, name)
           /\ \A m, n : Serves(u, m) /\ Serves(u, n) => m = n
           /\ \A n : Serves(u, n) => Recognized(u)
BY DEF Recognized, Serves

\* Some handler asks for no more than the URB is ...
LEMMA SomeHandlerTakes ==
    ASSUME NEW u
    PROVE  \E h \in Handlers : Takes(h, u)
<1> USE DEF Handlers, Takes
<1>1. CASE ~ u.isControl
  BY <1>1
<1>2. CASE u.isControl /\ ~ Recognized(u)
  BY <1>2
<1>3. CASE Recognized(u)
  <2>1. PICK name \in InRequests \cup OutRequests : Serves(u, name)
    BY <1>3, RecognizedRequests
  <2>2. name \in {"GET_NTB_PARAMETERS", "GET_ENCAPSULATE_RESPONSE",
                  "SEND_ENCAPSULATE_COMMAND", "RESET_FUNCTION",
                  "SET_NTB_INPUT_SIZE", "SET_NBT_FORMAT"}
    BY DEF InRequests, OutRequests
  <2>3. CASE name = "GET_NTB_PARAMETERS"
    BY <2>1, <2>3
  <2>4. CASE name = "GET_ENCAPSULATE_RESPONSE"
    BY <2>1, <2>4
  <2>5. CASE name = "SEND_ENCAPSULATE_COMMAND"
    BY <2>1, <2>5
  <2>6. CASE name = "RESET_FUNCTION"
    BY <2>1, <2>6
  <2>7. CASE name = "SET_NTB_INPUT_SIZE"
    BY <2>1, <2>7
  <2>8. CASE name = "SET_NBT_FORMAT"
    BY <2>1, <2>8
  <2> QED
    BY <2>2, <2>3, <2>4, <2>5, <2>6, <2>7, <2>8
<1> QED
  BY <1>1, <1>2, <1>3

\* ... and no two do.
LEMMA OneHandlerTakes ==
    ASSUME NEW u, NEW h, NEW g, Takes(h, u), Takes(g, u)
    PROVE  h = g
<1>1. /\ \A m, n : Serves(u, m) /\ Serves(u, n) => m = n
      /\ \A n : Serves(u, n) => u.isControl /\ Recognized(u)
  BY RecognizedRequests
<1> QED
  BY <1>1, ChannelRequests DEF Takes

\* IoEvtControlUrb gives every URB, well-formed or not, to exactly one of its
\* handlers: the nested switches leave no gap and no overlap, and what a handler
\* does to a URB it does because that is the one the URB is for.
THEOREM OneHandlerPerUrb ==
    ASSUME NEW u \in ControlUrbs
    PROVE  /\ \E h \in Handlers : \A g \in Handlers : Takes(g, u) <=> g = h
           /\ IoEvtControlUrb(u) <=> \E h \in Handlers : Takes(h, u) /\ Served(h, u)
<1>1. PICK h \in Handlers : Takes(h, u)
  BY SomeHandlerTakes
<1>2. \A g \in Handlers : Takes(g, u) <=> g = h
  BY <1>1, OneHandlerTakes
<1>3. ASSUME NEW g \in Handlers, Served(g, u)
      PROVE  Takes(g, u)
  BY <1>3 DEF Served, Takes, RetrieveSetupFails, Unrecognized, GetNtbParameters,
     SetNtbInputSize, SetNtbFormat, ResetAdapter, RejectFetch, SendWithoutResponse,
     GetEncapsulatedCommand, MbbOpen, MbbCommand
<1>4. IoEvtControlUrb(u) <=> \E g \in Handlers : Served(g, u)
  BY DEF IoEvtControlUrb, Served, Handlers
<1> QED
  BY <1>1, <1>2, <1>3, <1>4
=============================================================================
