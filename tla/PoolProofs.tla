----------------------------- MODULE PoolProofs -----------------------------
(***************************************************************************)
(* The channel neither leaks pool memory nor frees it twice, for any        *)
(* requests, any number of concurrent ready callbacks and any bounds.       *)
(***************************************************************************)
EXTENDS ResponseChannelProofs

\* Entries on a list or with a thread that delivers; each has two allocations.
Entries == Len(EncapsulatedCommandResponse) + Len(AvailableInterrupt)
           + Cardinality(Delivering)

PoolInv == ChannelInv /\ PoolAccounted
-----------------------------------------------------------------------------
\* The terms of the account are numbers.
LEMMA EntriesType ==
    ASSUME TypeOK
    PROVE  /\ Len(EncapsulatedCommandResponse) \in Nat
           /\ Len(AvailableInterrupt) \in Nat
           /\ Cardinality(Delivering) \in Nat
           /\ pool \in Int
BY DeliveringFinite, LenProperties DEF TypeOK

\* What Control holds, by where it is.
LEMMA HeldValue ==
    /\ HeldByControl \in {0, 1, 2}
    /\ pc[Control] = "get_copy" => HeldByControl = 2
    /\ pc[Control] \in {"enq_lock", "enq_resp"} =>
          HeldByControl = IF Opening THEN 0 ELSE 1
    /\ pc[Control] \notin {"get_copy", "enq_lock", "enq_resp"} => HeldByControl = 0
BY DEF HeldByControl, At

\* The same after a step.
LEMMA HeldValueNext ==
    /\ HeldByControl' \in {0, 1, 2}
    /\ pc'[Control] = "get_copy" => HeldByControl' = 2
    /\ pc'[Control] \in {"enq_lock", "enq_resp"} =>
          HeldByControl' = IF Opening' THEN 0 ELSE 1
    /\ pc'[Control] \notin {"get_copy", "enq_lock", "enq_resp"} => HeldByControl' = 0
BY DEF HeldByControl, At

\* The account, by entries.
LEMMA PoolByEntries ==
    TypeOK => (PoolAccounted <=> pool = 2 * Entries + HeldByControl)
BY EntriesType, HeldValue DEF PoolAccounted, Entries

\* The same after a step.
LEMMA PoolByEntriesNext ==
    (TypeOK => (PoolAccounted <=> pool = 2 * Entries + HeldByControl))'
BY PoolByEntries, PTL

\* The pool stays accounted for when what a step allocates is what it adds to
\* the entries and to Control's hands.
LEMMA Balance ==
    ASSUME PoolInv, TypeOK', NEW dEntries \in Int, NEW dHeld \in Int,
           Entries' = Entries + dEntries,
           HeldByControl' = HeldByControl + dHeld,
           pool' = pool + 2 * dEntries + dHeld
    PROVE  PoolAccounted'
<1>1. HeldByControl \in Int /\ Entries \in Int /\ pool \in Int
  BY HeldValue, EntriesType DEF PoolInv, ChannelInv, IInv, Entries
<1>2. pool = 2 * Entries + HeldByControl
  BY PoolByEntries DEF PoolInv, ChannelInv, IInv
<1>3. pool' = 2 * (Entries + dEntries) + (HeldByControl + dHeld)
  BY <1>1, <1>2
<1>4. (PoolAccounted <=> pool = 2 * Entries + HeldByControl)'
  BY PoolByEntriesNext
<1> QED
  BY <1>3, <1>4

\* A step of one thread that leaves the lists and the deliveries alone.
LEMMA BalanceSame ==
    ASSUME PoolInv, TypeOK', NEW t \in Threads, NEW label, NEW dHeld \in Int,
           pc' = [pc EXCEPT ![t] = label], pc[t] # "deliver", label # "deliver",
           UNCHANGED <<EncapsulatedCommandResponse, AvailableInterrupt>>,
           HeldByControl' = HeldByControl + dHeld,
           pool' = pool + dHeld
    PROVE  PoolAccounted'
<1>1. TypeOK
  BY DEF PoolInv, ChannelInv, IInv
<1>2. Delivering' = Delivering
  BY <1>1, DeliveringSame
<1>3. Entries' = Entries + 0
  BY <1>1, <1>2, EntriesType DEF Entries
<1>4. pool' = pool + 2 * 0 + dHeld
  BY <1>1, EntriesType
<1>5. 0 \in Int
  OBVIOUS
<1> QED
  BY <1>3, <1>4, <1>5, Balance

\* Only a command's handler allocates before it first waits.
LEMMA DispatchAllocates ==
    ASSUME TypeOK, NEW u \in Requests, IoEvtControlUrb(u)
    PROVE  /\ pc[Control] = "idle" /\ request' = u
           /\ pc'[Control] \notin {"get_copy", "enq_resp", "deliver"}
           /\ pool' = pool + IF pc'[Control] = "enq_lock" /\ u.message.type # "OPEN"
                             THEN 1 ELSE 0
<1> USE DEF Dispatch, Return, Goto, At, TypeOK, Threads
<1>1. Opens(u) => u.message.type = "OPEN"
  BY DEF Opens, CarriesMessage
<1>2. Commands(u) => u.message.type # "OPEN"
  BY DEF Commands, CarriesMessage
<1>3. CASE RetrieveSetupFails(u)
  BY <1>3 DEF RetrieveSetupFails
<1>4. CASE Unrecognized(u)
  BY <1>4 DEF Unrecognized
<1>5. CASE GetNtbParameters(u)
  BY <1>5 DEF GetNtbParameters
<1>6. CASE SetNtbInputSize(u)
  BY <1>6 DEF SetNtbInputSize
<1>7. CASE SetNtbFormat(u)
  BY <1>7 DEF SetNtbFormat
<1>8. CASE ResetAdapter(u)
  BY <1>8 DEF ResetAdapter
<1>9. CASE RejectFetch(u)
  BY <1>9 DEF RejectFetch
<1>10. CASE SendWithoutResponse(u)
  BY <1>10 DEF SendWithoutResponse
<1>11. CASE GetEncapsulatedCommand(u)
  BY <1>11 DEF GetEncapsulatedCommand
<1>12. CASE MbbOpen(u)
  BY <1>1, <1>12 DEF MbbOpen
<1>13. CASE MbbCommand(u)
  BY <1>2, <1>13 DEF MbbCommand
<1> QED
  BY <1>3, <1>4, <1>5, <1>6, <1>7, <1>8, <1>9, <1>10, <1>11, <1>12, <1>13
  DEF IoEvtControlUrb
-----------------------------------------------------------------------------
\* Every step balances.
LEMMA PoolStep ==
    ASSUME PoolInv, [Next]_vars
    PROVE  PoolAccounted'
<1> USE DEF Goto, At, Return, lists, framework, control
<1>1. Control \in Threads /\ TypeOK /\ TypeOK'
  <2>1. ChannelInv'
    BY ChannelStep DEF PoolInv
  <2> QED
    BY <2>1 DEF Threads, PoolInv, ChannelInv, IInv
<1>2. /\ Len(EncapsulatedCommandResponse) \in Nat /\ Len(AvailableInterrupt) \in Nat
      /\ Cardinality(Delivering) \in Nat /\ pool \in Int
      /\ HeldByControl \in {0, 1, 2}
  BY <1>1, EntriesType, HeldValue
<1>3. ASSUME NEW t \in Threads, NEW label, pc' = [pc EXCEPT ![t] = label],
             pc[t] # "deliver", label # "deliver",
             t = Control => /\ pc[t] \notin {"get_copy", "enq_lock", "enq_resp"}
                            /\ label \notin {"get_copy", "enq_lock", "enq_resp"},
             t # Control => UNCHANGED request,
             UNCHANGED <<EncapsulatedCommandResponse, AvailableInterrupt, pool>>
      PROVE  PoolAccounted'
  <2>1. HeldByControl' = HeldByControl + 0
    <3>1. CASE t = Control
      BY <1>1, <1>3, <3>1, HeldValue, HeldValueNext DEF TypeOK
    <3>2. CASE t # Control
      <4>1. pc'[Control] = pc[Control]
        BY <1>1, <1>3, <3>2 DEF TypeOK
      <4>2. HeldByControl' = HeldByControl
        BY <1>3, <3>2, <4>1 DEF HeldByControl, Opening
      <4> QED
        BY <1>2, <4>2
    <3> QED
      BY <3>1, <3>2
  <2>2. pool' = pool + 0 /\ 0 \in Int
    BY <1>2, <1>3
  <2> QED
    BY <1>1, <1>3, <2>1, <2>2, BalanceSame
<1>4. ASSUME NEW u \in Requests, IoEvtControlUrb(u) PROVE PoolAccounted'
  <2>1. PICK label \in {"complete", "get_lock", "enq_lock"} :
           pc' = [pc EXCEPT ![Control] = label]
    BY <1>1, <1>4, DispatchProperties
  <2>2. /\ pc[Control] = "idle" /\ request' = u /\ pc'[Control] = label
        /\ UNCHANGED lists
    BY <1>1, <1>4, <2>1, DispatchProperties DEF TypeOK
  <2> DEFINE new == IF label = "enq_lock" /\ u.message.type # "OPEN" THEN 1 ELSE 0
  <2>3. pool' = pool + new
    BY <1>1, <1>4, <2>2, DispatchAllocates
  <2>4. HeldByControl = 0 /\ HeldByControl' = new
    BY <2>1, <2>2, HeldValue, HeldValueNext DEF Opening
  <2>5. new \in Int /\ HeldByControl' = HeldByControl + new
    BY <2>4
  <2> HIDE DEF new
  <2> QED
    BY <1>1, <2>1, <2>2, <2>3, <2>5, BalanceSame
<1>5. ASSUME CompleteControlUrb PROVE PoolAccounted'
  BY <1>1, <1>3, <1>5 DEF CompleteControlUrb
<1>6. ASSUME AcquireToEnqueue PROVE PoolAccounted'
  <2>1. /\ pc[Control] = "enq_lock" /\ pc' = [pc EXCEPT ![Control] = "enq_resp"]
        /\ UNCHANGED <<lists, pool, request>>
    BY <1>6 DEF AcquireToEnqueue
  <2>2. HeldByControl' = HeldByControl
    BY <1>1, <2>1, HeldValue, HeldValueNext DEF TypeOK, Opening
  <2>3. HeldByControl' = HeldByControl + 0 /\ pool' = pool + 0 /\ 0 \in Int
    BY <1>2, <2>1, <2>2
  <2> QED
    BY <1>1, <2>1, <2>3, BalanceSame
<1>7. ASSUME EnqueueResponse PROVE PoolAccounted'
  <2>1. /\ pc[Control] = "enq_resp" /\ UNCHANGED <<AvailableInterrupt, request>>
    BY <1>7 DEF EnqueueResponse
  <2>2. HeldByControl = IF Opening THEN 0 ELSE 1
    BY <2>1, HeldValue
  <2>3. CASE /\ EncapsulatedCommandResponse' =
                    Append(EncapsulatedCommandResponse, Done(request))
             /\ pool' = pool + EntryAllocations
             /\ pc' = [pc EXCEPT ![Control] = "enq_int"]
    <3>1. Done(request) \in Responses /\ EncapsulatedCommandResponse \in Seq(Responses)
      BY <1>1, <2>1, DoneType DEF TypeOK, PoolInv, ChannelInv, IInv, RequestInService
    <3>2. Len(EncapsulatedCommandResponse') = Len(EncapsulatedCommandResponse) + 1
      BY <2>3, <3>1, AppendProperties
    <3>3. Delivering' = Delivering
      BY <1>1, <2>1, <2>3, DeliveringSame
    <3>4. Entries' = Entries + 1
      BY <1>2, <2>1, <3>2, <3>3 DEF Entries
    <3>5. HeldByControl' = 0
      BY <1>1, <2>3, HeldValueNext DEF TypeOK
    <3>6. HeldByControl' = HeldByControl + (0 - HeldByControl)
      BY <1>2, <3>5
    <3>7. pool' = pool + 2 * 1 + (0 - HeldByControl)
      BY <1>2, <2>2, <2>3 DEF EntryAllocations
    <3>8. 1 \in Int /\ 0 - HeldByControl \in Int
      BY <1>2
    <3> QED
      BY <1>1, <3>4, <3>6, <3>7, <3>8, Balance, Zenon
  <2>4. CASE /\ UNCHANGED EncapsulatedCommandResponse
             /\ pool' = pool - AllocatedBefore
             /\ pc' = [pc EXCEPT ![Control] = "complete"]
    <3>1. HeldByControl' = 0
      BY <1>1, <2>4, HeldValueNext DEF TypeOK
    <3>2. /\ HeldByControl' = HeldByControl + (0 - HeldByControl)
          /\ pool' = pool + (0 - HeldByControl)
          /\ 0 - HeldByControl \in Int
      BY <1>2, <2>2, <2>4, <3>1 DEF AllocatedBefore
    <3> QED
      BY <1>1, <2>1, <2>4, <3>2, BalanceSame
  <2> QED
    BY <1>7, <2>3, <2>4 DEF EnqueueResponse, FailEnqueue
<1>8. ASSUME EnqueueAvailableInterrupt PROVE PoolAccounted'
  <2>1. pc[Control] = "enq_int"
    BY <1>8 DEF EnqueueAvailableInterrupt
  <2>2. PICK label \in {"complete", "drain_lock"} : pc' = [pc EXCEPT ![Control] = label]
    BY <1>8 DEF EnqueueAvailableInterrupt, AfterEnqueue, FailEnqueue
  <2>3. Delivering' = Delivering
    BY <1>1, <2>1, <2>2, DeliveringSame
  <2>4. HeldByControl = 0 /\ HeldByControl' = 0
    BY <1>1, <2>1, <2>2, HeldValue, HeldValueNext DEF TypeOK
  <2>5. Done(request) \in Responses
    BY <2>1, DoneType DEF PoolInv, ChannelInv, IInv, RequestInService
  <2>6. HeldByControl' = HeldByControl + 0
    BY <2>4
  <2>7. CASE /\ AvailableInterrupt' = Append(AvailableInterrupt, Done(request).kind)
             /\ pool' = pool + 2
             /\ UNCHANGED EncapsulatedCommandResponse
    <3> DEFINE kinds == {"OPEN_DONE", "COMMAND_DONE"}
    <3>1. Done(request).kind \in kinds /\ AvailableInterrupt \in Seq(kinds)
      BY <1>1, <2>5, KindType DEF TypeOK
    <3> HIDE DEF kinds
    <3>2. Len(AvailableInterrupt') = Len(AvailableInterrupt) + 1
      BY <2>7, <3>1, AppendProperties
    <3>3. Entries' = Entries + 1
      BY <1>2, <2>3, <2>7, <3>2 DEF Entries
    <3>4. pool' = pool + 2 * 1 + 0 /\ 1 \in Int /\ 0 \in Int
      BY <1>2, <2>7
    <3> QED
      BY <1>1, <2>6, <3>3, <3>4, Balance, Zenon
  <2>8. CASE /\ EncapsulatedCommandResponse' =
                    RemoveCreatedEntry(EncapsulatedCommandResponse)
             /\ pool' = pool - 2
             /\ UNCHANGED AvailableInterrupt
    <3>1. EncapsulatedCommandResponse = Append(CommittedResponses, Done(request))
      BY <2>1 DEF PoolInv, ChannelInv, CreatedEntryIsLast
    <3>2. CommittedResponses \in Seq(Responses) /\ Len(CommittedResponses) \in Nat
      BY <1>1, PendingType, LenProperties
    <3>3. Len(EncapsulatedCommandResponse) = Len(CommittedResponses) + 1
      BY <2>5, <3>1, <3>2, AppendProperties
    <3>4. EncapsulatedCommandResponse' = CommittedResponses
      BY <2>1, <2>8 DEF CommittedResponses
    <3>5. Entries' = Entries + (-1)
      BY <1>2, <2>3, <2>8, <3>2, <3>3, <3>4 DEF Entries
    <3>6. pool' = pool + 2 * (-1) + 0 /\ -1 \in Int /\ 0 \in Int
      BY <1>2, <2>8
    <3> QED
      BY <1>1, <2>6, <3>5, <3>6, Balance, Zenon
  <2> QED
    BY <1>8, <2>7, <2>8 DEF EnqueueAvailableInterrupt
<1>9. ASSUME AcquireToGet PROVE PoolAccounted'
  BY <1>1, <1>3, <1>9 DEF AcquireToGet
<1>10. ASSUME CheckResponse PROVE PoolAccounted'
  <2>1. PICK label \in {"complete", "get_remove"} : pc' = [pc EXCEPT ![Control] = label]
    BY <1>10 DEF CheckResponse
  <2> QED
    BY <1>1, <1>3, <1>10, <2>1 DEF CheckResponse
<1>11. ASSUME RemoveResponse PROVE PoolAccounted'
  <2> DEFINE list == EncapsulatedCommandResponse
  <2>1. /\ pc[Control] = "get_remove" /\ list \in Seq(Responses) /\ list # <<>>
        /\ UNCHANGED <<AvailableInterrupt, pool>>
    BY <1>1, <1>11 DEF RemoveResponse, TypeOK, PoolInv, ChannelInv, IInv, ListsAsChecked
  <2>2. CASE /\ list' = InsertHeadList(Head(list), Tail(list))
             /\ pc' = [pc EXCEPT ![Control] = "complete"]
    <3>1. list' = list
      BY <2>1, <2>2, InsertHeadListOfTail
    <3> QED
      BY <1>1, <1>3, <2>1, <2>2, <3>1
  <2>3. CASE list' = Tail(list) /\ pc' = [pc EXCEPT ![Control] = "get_copy"]
    <3>1. Len(list') = Len(list) - 1
      BY <2>1, <2>3, HeadTailProperties
    <3>2. Delivering' = Delivering
      BY <1>1, <2>1, <2>3, DeliveringSame
    <3>3. Entries' = Entries + (-1)
      BY <1>2, <2>1, <3>1, <3>2 DEF Entries
    <3>4. HeldByControl' = HeldByControl + 2
      BY <1>1, <2>1, <2>3, HeldValue, HeldValueNext DEF TypeOK
    <3>5. pool' = pool + 2 * (-1) + 2 /\ -1 \in Int /\ 2 \in Int
      BY <1>2, <2>1
    <3> QED
      BY <1>1, <3>3, <3>4, <3>5, Balance, Zenon
  <2> QED
    BY <1>11, <2>2, <2>3 DEF RemoveResponse
<1>12. ASSUME CopyResponse PROVE PoolAccounted'
  <2>1. /\ pc[Control] = "get_copy" /\ pc' = [pc EXCEPT ![Control] = "complete"]
        /\ pool' = pool - 2 /\ UNCHANGED lists
    BY <1>12 DEF CopyResponse
  <2>2. HeldByControl' = HeldByControl + (-2)
    BY <1>1, <2>1, HeldValue, HeldValueNext DEF TypeOK
  <2>3. pool' = pool + (-2) /\ -2 \in Int
    BY <1>2, <2>1
  <2> QED
    BY <1>1, <2>1, <2>2, <2>3, BalanceSame
<1>13. ASSUME NEW t \in Threads, AcquireToDrain(t) PROVE PoolAccounted'
  BY <1>1, <1>3, <1>13 DEF AcquireToDrain
<1>14. ASSUME NEW t \in Threads, CheckInterrupt(t) PROVE PoolAccounted'
  <2>1. PICK label \in {"complete", "idle", "drain_retrieve"} :
           pc' = [pc EXCEPT ![t] = label]
    BY <1>14 DEF CheckInterrupt, AfterDrain
  <2> QED
    BY <1>1, <1>3, <1>14, <2>1 DEF CheckInterrupt
<1>15. ASSUME NEW t \in Threads, RetrieveNextRequest(t) PROVE PoolAccounted'
  <2>1. PICK label \in {"complete", "idle", "drain_remove"} :
           pc' = [pc EXCEPT ![t] = label]
    BY <1>15 DEF RetrieveNextRequest, AfterDrain
  <2> QED
    BY <1>1, <1>3, <1>15, <2>1 DEF RetrieveNextRequest
<1>16. ASSUME NEW t \in Threads, RemoveInterrupt(t) PROVE PoolAccounted'
  <2> DEFINE kinds == {"OPEN_DONE", "COMMAND_DONE"}
             list  == AvailableInterrupt
  <2>1. list \in Seq(kinds) /\ list # <<>>
    BY <1>1, <1>16 DEF RemoveInterrupt, TypeOK, PoolInv, ChannelInv, IInv, ListsAsChecked
  <2> HIDE DEF kinds
  <2>2. /\ pc[t] = "drain_remove"
        /\ UNCHANGED <<EncapsulatedCommandResponse, pool, request>>
    BY <1>16 DEF RemoveInterrupt
  <2>3. CASE /\ list' = list \/ list' = InsertHeadList(Head(list), Tail(list))
             /\ pc' = [pc EXCEPT ![t] = "giveback"]
    <3>1. list' = list
      BY <2>1, <2>3, InsertHeadListOfTail
    <3> QED
      BY <1>1, <1>3, <2>2, <2>3, <3>1
  <2>4. CASE list' = Tail(list) /\ pc' = [pc EXCEPT ![t] = "deliver"]
    <3>1. Len(list') = Len(list) - 1
      BY <2>1, <2>4, HeadTailProperties
    <3>2. Cardinality(Delivering)' = Cardinality(Delivering) + 1
      BY <1>1, <2>2, <2>4, DeliveringEnter
    <3>3. Entries' = Entries
      BY <1>2, <2>2, <3>1, <3>2 DEF Entries
    <3>4. HeldByControl' = HeldByControl
      <4>1. CASE t = Control
        BY <1>1, <2>2, <2>4, <4>1, HeldValue, HeldValueNext DEF TypeOK
      <4>2. CASE t # Control
        BY <1>1, <2>2, <2>4, <4>2 DEF TypeOK, HeldByControl, Opening
      <4> QED
        BY <4>1, <4>2
    <3>5. /\ Entries' = Entries + 0 /\ HeldByControl' = HeldByControl + 0
          /\ pool' = pool + 2 * 0 + 0 /\ 0 \in Int
      BY <1>2, <2>2, <3>3, <3>4 DEF Entries
    <3> QED
      BY <1>1, <3>5, Balance, Zenon
  <2> QED
    BY <1>16, <2>3, <2>4 DEF RemoveInterrupt
<1>17. ASSUME NEW t \in Threads, DeliverInterrupt(t) PROVE PoolAccounted'
  <2>1. /\ pc[t] = "deliver" /\ pc' = [pc EXCEPT ![t] = "drain_lock"]
        /\ pool' = pool - 2 /\ UNCHANGED <<lists, request>>
    BY <1>17 DEF DeliverInterrupt
  <2>2. Cardinality(Delivering)' = Cardinality(Delivering) - 1
    BY <1>1, <2>1, DeliveringLeave
  <2>3. Entries' = Entries + (-1)
    BY <1>2, <2>1, <2>2 DEF Entries
  <2>4. HeldByControl' = HeldByControl
    <3>1. CASE t = Control
      BY <1>1, <2>1, <3>1, HeldValue, HeldValueNext DEF TypeOK
    <3>2. CASE t # Control
      BY <1>1, <2>1, <3>2 DEF TypeOK, HeldByControl, Opening
    <3> QED
      BY <3>1, <3>2
  <2>5. /\ HeldByControl' = HeldByControl + 0 /\ pool' = pool + 2 * (-1) + 0
        /\ -1 \in Int /\ 0 \in Int
    BY <1>2, <2>1, <2>4
  <2> QED
    BY <1>1, <2>3, <2>5, Balance, Zenon
<1>18. ASSUME NEW t \in Threads, GiveBackUrb(t) PROVE PoolAccounted'
  BY <1>1, <1>3, <1>18 DEF GiveBackUrb
<1>19. ASSUME NEW t \in ReadyThreads, IoEvtInterruptUrbQueueReady(t) PROVE PoolAccounted'
  BY <1>1, <1>3, <1>19, ThreadsAssumption DEF IoEvtInterruptUrbQueueReady, Threads
<1>20. ASSUME UNCHANGED <<lists, pool, pc, request>> PROVE PoolAccounted'
  BY <1>20 DEF PoolInv, PoolAccounted, Delivering, HeldByControl, Opening
<1>21. ASSUME \/ \E b \in UrbBuffers : PostInterruptUrb(b)
              \/ \E i \in 1..MaxInterruptUrbs : CancelInterruptUrb(i)
              \/ PowerDown \/ PowerUp \/ UNCHANGED vars
       PROVE  PoolAccounted'
  BY <1>20, <1>21
  DEF PostInterruptUrb, CancelInterruptUrb, PowerDown, PowerUp, vars
<1> QED
  BY <1>4, <1>5, <1>6, <1>7, <1>8, <1>9, <1>10, <1>11, <1>12, <1>13, <1>14,
     <1>15, <1>16, <1>17, <1>18, <1>19, <1>21
  DEF Next, Host, ControlStep, MbbTryDrainInterrupt
-----------------------------------------------------------------------------
\* Nothing is allocated at first.
LEMMA PoolInit == Init => PoolInv
<1> SUFFICES ASSUME Init PROVE PoolInv
  OBVIOUS
<1>1. ChannelInv /\ TypeOK
  BY ChannelInit DEF ChannelInv, IInv
<1>2. Entries = 0
  <2>1. /\ Len(EncapsulatedCommandResponse) = 0 /\ Len(AvailableInterrupt) = 0
        /\ Delivering = {}
    BY EmptySeq DEF Init, Delivering, At
  <2> QED
    BY <2>1, FS_EmptySet DEF Entries
<1>3. HeldByControl = 0 /\ pool = 0
  BY HeldValue DEF Init, Threads
<1> QED
  BY <1>1, <1>2, <1>3, PoolByEntries DEF PoolInv

\* Whatever allocation fails and wherever, every allocation is on a list, with
\* a thread that delivers it, or in the hands of the handler that will free it.
THEOREM PoolIsAccounted == Spec => []PoolAccounted
<1>1. PoolInv /\ [Next]_vars => PoolInv'
  BY PoolStep, ChannelStep DEF PoolInv
<1>2. PoolInv => PoolAccounted
  BY DEF PoolInv
<1> QED
  BY <1>1, <1>2, PoolInit, PTL DEF Spec
=============================================================================
