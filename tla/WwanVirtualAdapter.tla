------------------------- MODULE WwanVirtualAdapter -------------------------
(***************************************************************************)
(* The run-time core of the driver: the encapsulated-command channel of the *)
(* emulated MBIM function (WwanVirtualAdapter.cpp) under the queue          *)
(* callbacks that drive it (io.cpp).                                        *)
(*                                                                          *)
(* The control queue dispatches sequentially, so one context, Control, runs *)
(* IoEvtControlUrb and the handlers it calls.  The framework runs           *)
(* IoEvtInterruptUrbQueueReady on any of ReadyThreads, concurrently with    *)
(* Control and with itself.  They share two lists under InProgressLock:     *)
(* EncapsulatedCommandResponse, the responses the host has still to fetch,  *)
(* and AvailableInterrupt, the RESPONSE_AVAILABLE notifications it has      *)
(* still to be sent.  InterruptUrbQueue is a manual framework queue with a  *)
(* lock of its own.                                                         *)
(*                                                                          *)
(* A step is a stretch of code between two points where another context or  *)
(* the framework can be observed; pc names where a context is.              *)
(***************************************************************************)
EXTENDS MbimControl, Integers, Sequences, FiniteSets

CONSTANTS Control,           \* the context of the sequential control queue
          ReadyThreads,      \* the contexts that may run the ready callback
          NoThread,          \* holder of a free lock
          Requests,          \* the control URBs the host submits
          NoUrb,             \* no control URB in service
          UrbBuffers,        \* transfer buffers the host's interrupt URBs have
          MaxInterruptUrbs,  \* bound: interrupt URBs in the queue
          MaxResponses,      \* bound: responses queued over a behaviour
          MaxPowerDowns,     \* bound: times the queues are stopped
          AllocationFails,   \* whether pool allocations may fail
          HostCancels        \* whether the host cancels interrupt URBs

Threads == {Control} \cup ReadyThreads

\* No transfer buffer, one too small for a notification, one that holds it.
Buffers == {"none", "short", "fits"}

ASSUME ThreadsAssumption ==
    /\ Control \notin ReadyThreads
    /\ NoThread \notin Threads
    /\ IsFiniteSet(ReadyThreads)

ASSUME RequestsAssumption ==
    /\ Requests \subseteq ControlUrbs
    /\ NoUrb \notin ControlUrbs
    /\ UrbBuffers \subseteq Buffers

ASSUME BoundsAssumption ==
    /\ MaxInterruptUrbs \in Nat
    /\ MaxResponses \in Nat
    /\ MaxPowerDowns \in Nat
    /\ AllocationFails \in BOOLEAN
    /\ HostCancels \in BOOLEAN

VARIABLES
    EncapsulatedCommandResponse,  \* IO_CONTEXT: responses, oldest first
    AvailableInterrupt,           \* IO_CONTEXT: notifications, each named by the
                                  \* response it was queued for
    InProgressLock,               \* IO_CONTEXT: the thread that holds the lock
    usbContext,                   \* USB_CONTEXT: the two NTB settings
    pool,                         \* live allocations made by this code
    InterruptUrbQueue,            \* buffers of the interrupt URBs queued
    readyNotify,                  \* a ready callback is due
    powered,                      \* the framework's queues are started
    powerDowns,                   \* how often they were stopped
    pc,                           \* where each thread is
    interruptUrb,                 \* the interrupt URB each thread holds
    request, status, bytes,       \* the control URB in service and its outcome
    answered,                     \* it was completed before the handler's exit
    bufferContent,                \* the response Control took off its list
    accepted,                     \* history: responses queued, in order
    fetched,                      \* history: responses handed to the host
    delivered                     \* history: notifications handed to the host

lists     == <<EncapsulatedCommandResponse, AvailableInterrupt>>
framework == <<InterruptUrbQueue, readyNotify, powered, powerDowns>>
control   == <<request, status, bytes, answered, bufferContent>>
history   == <<accepted, fetched, delivered>>
vars      == <<lists, InProgressLock, usbContext, pool, framework, pc,
               interruptUrb, control, history>>

Init ==
    /\ EncapsulatedCommandResponse = <<>>
    /\ AvailableInterrupt = <<>>
    /\ InProgressLock = NoThread
    /\ usbContext = [MaxBulkInTransfer |-> 0, NTBFormatSetupValue |-> 0]
    /\ pool = 0
    /\ InterruptUrbQueue = <<>>
    /\ readyNotify = FALSE
    /\ powered = TRUE
    /\ powerDowns = 0
    /\ pc = [t \in Threads |-> "idle"]
    /\ interruptUrb = [t \in Threads |-> "none"]
    /\ request = NoUrb
    /\ status = "SUCCESS"
    /\ bytes = 0
    /\ answered = FALSE
    /\ bufferContent = <<>>
    /\ accepted = <<>>
    /\ fetched = <<>>
    /\ delivered = 0

Goto(t, label) == pc' = [pc EXCEPT ![t] = label]

At(t, label) == pc[t] = label

\* InsertHeadList and RemoveEntryList of the kernel's lists, with plausible
\* mistakes before each, here and below named Mutant...  The entry removed
\* is the one that the same critical section put at the tail.
MutantInsertTail(e, list) == Append(list, e)
MutantForget(e, list) == list
InsertHeadList(e, list) == <<e>> \o list

MutantRemoveHead(list) == Tail(list)
RemoveCreatedEntry(list) == SubSeq(list, 1, Len(list) - 1)

\* WdfSpinLockAcquire and WdfSpinLockRelease.
Acquire(t) == InProgressLock = NoThread /\ InProgressLock' = t
Release(t) == InProgressLock' = NoThread

-----------------------------------------------------------------------------
(* The control queue: IoEvtControlUrb up to the handler's first wait.       *)

\* The queue hands the next URB to IoEvtControlUrb.
Dispatch(u) ==
    /\ powered
    /\ At(Control, "idle")
    /\ request' = u

\* The handler returns s; n is transferedLength.
Return(s, n) ==
    /\ status' = s
    /\ bytes' = n
    /\ Goto(Control, "complete")

\* No setup packet: the URB is completed on the spot, and again at exit.
RetrieveSetupFails(u) ==
    /\ Dispatch(u)
    /\ ~ u.isControl
    /\ answered' = TRUE
    /\ Return("NOT_A_CONTROL_URB", u.length)
    /\ UNCHANGED <<lists, InProgressLock, usbContext, pool, framework,
                   interruptUrb, bufferContent, history>>

\* A control URB no handler takes.
Unrecognized(u) ==
    /\ Dispatch(u)
    /\ u.isControl
    /\ ~ Recognized(u)
    /\ Return("INVALID_DEVICE_REQUEST", u.length)
    /\ UNCHANGED <<lists, InProgressLock, usbContext, pool, framework,
                   interruptUrb, answered, bufferContent, history>>

GetNtbParameters(u) ==
    /\ Dispatch(u)
    /\ Serves(u, "GET_NTB_PARAMETERS")
    /\ LET s == GetNtbParametersStatus(u)
       IN  Return(s, IF s = "SUCCESS" THEN SizeofNtbParameter ELSE u.length)
    /\ UNCHANGED <<lists, InProgressLock, usbContext, pool, framework,
                   interruptUrb, answered, bufferContent, history>>

SetNtbInputSize(u) ==
    /\ Dispatch(u)
    /\ Serves(u, "SET_NTB_INPUT_SIZE")
    /\ usbContext' = IF SetNtbInputSizeStatus(u) = "SUCCESS"
                     THEN [usbContext EXCEPT !.MaxBulkInTransfer = u.word]
                     ELSE usbContext
    /\ Return(SetNtbInputSizeStatus(u), u.length)
    /\ UNCHANGED <<lists, InProgressLock, pool, framework,
                   interruptUrb, answered, bufferContent, history>>

SetNtbFormat(u) ==
    /\ Dispatch(u)
    /\ Serves(u, "SET_NBT_FORMAT")
    /\ usbContext' = IF SetNtbFormatStatus(u) = "SUCCESS"
                     THEN [usbContext EXCEPT !.NTBFormatSetupValue = u.wValue]
                     ELSE usbContext
    /\ Return(SetNtbFormatStatus(u), u.length)
    /\ UNCHANGED <<lists, InProgressLock, pool, framework,
                   interruptUrb, answered, bufferContent, history>>

\* The lists keep what they hold.
ResetAdapter(u) ==
    /\ Dispatch(u)
    /\ Serves(u, "RESET_FUNCTION")
    /\ Return("SUCCESS", u.length)
    /\ UNCHANGED <<lists, InProgressLock, usbContext, pool, framework,
                   interruptUrb, answered, bufferContent, history>>

\* A GET_ENCAPSULATE_RESPONSE refused before it looks at the list.
RejectFetch(u) ==
    /\ Dispatch(u)
    /\ Serves(u, "GET_ENCAPSULATE_RESPONSE")
    /\ ~ Fetches(u)
    /\ Return("INVALID_DEVICE_REQUEST", u.length)
    /\ UNCHANGED <<lists, InProgressLock, usbContext, pool, framework,
                   interruptUrb, answered, bufferContent, history>>

\* A SEND_ENCAPSULATE_COMMAND that queues no response: refused, or a command
\* MbbCommand takes and no code answers.
SendWithoutResponse(u) ==
    /\ Dispatch(u)
    /\ Serves(u, "SEND_ENCAPSULATE_COMMAND")
    /\ ~ Opens(u)
    /\ ~ Commands(u)
    /\ Return(IF CarriesMessage(u, "COMMAND") THEN MbbCommandStatus(u.message)
              ELSE "INVALID_DEVICE_REQUEST", u.length)
    /\ UNCHANGED <<lists, InProgressLock, usbContext, pool, framework,
                   interruptUrb, answered, bufferContent, history>>

GetEncapsulatedCommand(u) ==
    /\ Dispatch(u)
    /\ Fetches(u)
    /\ Goto(Control, "get_lock")
    /\ UNCHANGED <<lists, InProgressLock, usbContext, pool, framework,
                   interruptUrb, status, bytes, answered, bufferContent, history>>

MbbOpen(u) ==
    /\ Dispatch(u)
    /\ Opens(u)
    /\ Len(accepted) < MaxResponses
    /\ Goto(Control, "enq_lock")
    /\ UNCHANGED <<lists, InProgressLock, usbContext, pool, framework,
                   interruptUrb, status, bytes, answered, bufferContent, history>>

\* MbbIndicateCommandDone allocates the message before it takes the lock; its
\* status, and any later one, is dropped on the way to IoEvtControlUrb.
MbbCommand(u) ==
    /\ Dispatch(u)
    /\ Commands(u)
    /\ Len(accepted) < MaxResponses
    /\ \/ /\ pool' = pool + 1
          /\ Goto(Control, "enq_lock")
          /\ UNCHANGED <<status, bytes>>
       \/ /\ AllocationFails
          /\ Return("SUCCESS", u.length)
          /\ UNCHANGED pool
    /\ UNCHANGED <<lists, InProgressLock, usbContext, framework,
                   interruptUrb, answered, bufferContent, history>>

IoEvtControlUrb(u) ==
    \/ RetrieveSetupFails(u)
    \/ Unrecognized(u)
    \/ GetNtbParameters(u)
    \/ SetNtbInputSize(u)
    \/ SetNtbFormat(u)
    \/ ResetAdapter(u)
    \/ RejectFetch(u)
    \/ SendWithoutResponse(u)
    \/ GetEncapsulatedCommand(u)
    \/ MbbOpen(u)
    \/ MbbCommand(u)

\* CompleteURB at the exit of IoEvtControlUrb.
CompleteControlUrb ==
    /\ At(Control, "complete")
    /\ Goto(Control, "idle")
    /\ request' = NoUrb
    /\ status' = "SUCCESS"
    /\ bytes' = 0
    /\ answered' = FALSE
    /\ fetched' = fetched \o bufferContent
    /\ bufferContent' = <<>>
    /\ UNCHANGED <<lists, InProgressLock, usbContext, pool, framework,
                   interruptUrb, accepted, delivered>>
-----------------------------------------------------------------------------
(* MbbOpen and MbbIndicateCommandDone: a response and its notification are  *)
(* queued together, or neither is.                                          *)

Opening == request.message.type = "OPEN"

\* The message that MbbIndicateCommandDone allocates before it takes the lock.
MutantAllocatedBefore == 0
AllocatedBefore == IF Opening THEN 0 ELSE 1

\* The response entry, with the copy of the message in the case of MbbOpen.
EntryAllocations == IF Opening THEN 2 ELSE 1

AcquireToEnqueue ==
    /\ At(Control, "enq_lock")
    /\ Acquire(Control)
    /\ Goto(Control, "enq_resp")
    /\ UNCHANGED <<lists, usbContext, pool, framework, interruptUrb, control, history>>

\* The way out when an allocation failed: everything allocated for the request
\* is freed.  MbbOpen's status reaches the host, that of a command does not.
MutantFailureStatus == "SUCCESS"
FailureStatus == IF Opening THEN "INSUFFICIENT_RESOURCES" ELSE "SUCCESS"

MutantFailEnqueue ==
    /\ AllocationFails
    /\ UNCHANGED InProgressLock
    /\ Return(FailureStatus, request.length)

FailEnqueue ==
    /\ AllocationFails
    /\ Release(Control)
    /\ Return(FailureStatus, request.length)

\* MbbEnqueBuffer on EncapsulatedCommandResponse.
EnqueueResponse ==
    /\ At(Control, "enq_resp")
    /\ \/ /\ EncapsulatedCommandResponse' =
                Append(EncapsulatedCommandResponse, Done(request))
          /\ pool' = pool + EntryAllocations
          /\ Goto(Control, "enq_int")
          /\ UNCHANGED <<InProgressLock, status, bytes>>
       \/ /\ FailEnqueue
          /\ pool' = pool - AllocatedBefore
          /\ UNCHANGED EncapsulatedCommandResponse
    /\ UNCHANGED <<AvailableInterrupt, usbContext, framework, interruptUrb,
                   request, answered, bufferContent, history>>

\* The command's handler goes on to drain, MbbOpen returns.
MutantAfterEnqueue == "complete"
AfterEnqueue == IF Opening THEN "complete" ELSE "drain_lock"

\* MbbEnqueAvailableInterrupt; the notification goes with the response.
EnqueueAvailableInterrupt ==
    /\ At(Control, "enq_int")
    /\ \/ /\ AvailableInterrupt' = Append(AvailableInterrupt, Done(request).kind)
          /\ pool' = pool + 2
          /\ accepted' = Append(accepted, Done(request))
          /\ Release(Control)
          /\ status' = "SUCCESS"
          /\ bytes' = request.length
          /\ Goto(Control, AfterEnqueue)
          /\ UNCHANGED EncapsulatedCommandResponse
       \/ /\ FailEnqueue
          /\ EncapsulatedCommandResponse' = RemoveCreatedEntry(EncapsulatedCommandResponse)
          /\ pool' = pool - 2
          /\ UNCHANGED <<AvailableInterrupt, accepted>>
    /\ UNCHANGED <<usbContext, framework, interruptUrb, request, answered,
                   bufferContent, fetched, delivered>>
-----------------------------------------------------------------------------
(* GetEncapsulatedCommand.                                                  *)

AcquireToGet ==
    /\ At(Control, "get_lock")
    /\ Acquire(Control)
    /\ Goto(Control, "get_check")
    /\ UNCHANGED <<lists, usbContext, pool, framework, interruptUrb, control, history>>

\* IsListEmpty(EncapsulatedCommandResponse).
MutantEmptyListStatus == "SUCCESS"
EmptyListStatus == "INVALID_DEVICE_REQUEST"

CheckResponse ==
    /\ At(Control, "get_check")
    /\ IF EncapsulatedCommandResponse = <<>>
       THEN /\ Release(Control)
            /\ Return(EmptyListStatus, request.length)
       ELSE /\ Goto(Control, "get_remove")
            /\ UNCHANGED <<InProgressLock, status, bytes>>
    /\ UNCHANGED <<lists, usbContext, pool, framework, interruptUrb,
                   request, answered, bufferContent, history>>

\* RemoveHeadList; a response the URB cannot hold goes back to the head.
RemoveResponse ==
    /\ At(Control, "get_remove")
    /\ Release(Control)
    /\ LET head == Head(EncapsulatedCommandResponse)
           rest == Tail(EncapsulatedCommandResponse)
       IN  IF request.length < LengthOf[head.kind]
           THEN /\ EncapsulatedCommandResponse' = InsertHeadList(head, rest)
                /\ Return("INSUFFICIENT_RESOURCES", request.length)
                /\ UNCHANGED bufferContent
           ELSE /\ EncapsulatedCommandResponse' = rest
                /\ bufferContent' = <<head>>
                /\ Goto(Control, "get_copy")
                /\ UNCHANGED <<status, bytes>>
    /\ UNCHANGED <<AvailableInterrupt, usbContext, pool, framework, interruptUrb,
                   request, answered, history>>

\* The copy into the URB, and the two FREE_POOLs.
CopyResponse ==
    /\ At(Control, "get_copy")
    /\ Return("SUCCESS", LengthOf[bufferContent[1].kind])
    /\ pool' = pool - 2
    /\ UNCHANGED <<lists, InProgressLock, usbContext, framework, interruptUrb,
                   request, answered, bufferContent, history>>
-----------------------------------------------------------------------------
(* MbbTryDrainInterrupt, run by Control after a command and by any ready    *)
(* callback.                                                                *)

\* The framework finds readyNotify set and calls IoEvtInterruptUrbQueueReady.
IoEvtInterruptUrbQueueReady(t) ==
    /\ t \in ReadyThreads
    /\ powered
    /\ readyNotify
    /\ At(t, "idle")
    /\ readyNotify' = FALSE
    /\ Goto(t, "drain_lock")
    /\ UNCHANGED <<lists, InProgressLock, usbContext, pool, InterruptUrbQueue,
                   powered, powerDowns, interruptUrb, control, history>>

\* Where a thread goes when MbbTryDrainInterrupt returns.
MutantAfterDrain(t) == "complete"
AfterDrain(t) == IF t = Control THEN "complete" ELSE "idle"

AcquireToDrain(t) ==
    /\ At(t, "drain_lock")
    /\ Acquire(t)
    /\ Goto(t, "drain_check")
    /\ UNCHANGED <<lists, usbContext, pool, framework, interruptUrb, control, history>>

\* IsListEmpty(AvailableInterrupt).
MutantCheckInterrupt(t) ==
    /\ At(t, "drain_check")
    /\ Release(t)
    /\ Goto(t, IF AvailableInterrupt = <<>> THEN AfterDrain(t) ELSE "drain_retrieve")
    /\ UNCHANGED <<lists, usbContext, pool, framework, interruptUrb, control, history>>

CheckInterrupt(t) ==
    /\ At(t, "drain_check")
    /\ IF AvailableInterrupt = <<>>
       THEN Release(t) /\ Goto(t, AfterDrain(t))
       ELSE Goto(t, "drain_retrieve") /\ UNCHANGED InProgressLock
    /\ UNCHANGED <<lists, usbContext, pool, framework, interruptUrb, control, history>>

\* WdfIoQueueRetrieveNextRequest fails on a queue that is empty or stopped.
RetrieveNextRequest(t) ==
    /\ At(t, "drain_retrieve")
    /\ IF ~ powered \/ InterruptUrbQueue = <<>>
       THEN /\ Release(t)
            /\ Goto(t, AfterDrain(t))
            /\ UNCHANGED <<InterruptUrbQueue, interruptUrb>>
       ELSE /\ interruptUrb' = [interruptUrb EXCEPT ![t] = Head(InterruptUrbQueue)]
            /\ InterruptUrbQueue' = Tail(InterruptUrbQueue)
            /\ Goto(t, "drain_remove")
            /\ UNCHANGED InProgressLock
    /\ UNCHANGED <<lists, usbContext, pool, readyNotify, powered, powerDowns,
                   control, history>>

\* UdecxUrbRetrieveBuffer, then RemoveHeadList; a notification the URB cannot
\* hold goes back to the head, and without a buffer none is taken.
RemoveInterrupt(t) ==
    /\ At(t, "drain_remove")
    /\ Release(t)
    /\ LET head == Head(AvailableInterrupt)
           rest == Tail(AvailableInterrupt)
       IN  \/ /\ interruptUrb[t] = "none"
              /\ Goto(t, "giveback")
              /\ UNCHANGED AvailableInterrupt
           \/ /\ interruptUrb[t] = "short"
              /\ AvailableInterrupt' = InsertHeadList(head, rest)
              /\ Goto(t, "giveback")
           \/ /\ interruptUrb[t] = "fits"
              /\ AvailableInterrupt' = rest
              /\ Goto(t, "deliver")
    /\ UNCHANGED <<EncapsulatedCommandResponse, usbContext, pool, framework,
                   interruptUrb, control, history>>

\* CompleteURB with the notification, the two FREE_POOLs, and round again.
DeliverInterrupt(t) ==
    /\ At(t, "deliver")
    /\ delivered' = delivered + 1
    /\ pool' = pool - 2
    /\ interruptUrb' = [interruptUrb EXCEPT ![t] = "none"]
    /\ Goto(t, "drain_lock")
    /\ UNCHANGED <<lists, InProgressLock, usbContext, framework, control,
                   accepted, fetched>>

\* CompleteURB without a notification: 0 bytes, or INSUFFICIENT_RESOURCES.
GiveBackUrb(t) ==
    /\ At(t, "giveback")
    /\ interruptUrb' = [interruptUrb EXCEPT ![t] = "none"]
    /\ Goto(t, "drain_lock")
    /\ UNCHANGED <<lists, InProgressLock, usbContext, pool, framework, control, history>>

MbbTryDrainInterrupt(t) ==
    \/ AcquireToDrain(t)
    \/ CheckInterrupt(t)
    \/ RetrieveNextRequest(t)
    \/ RemoveInterrupt(t)
    \/ DeliverInterrupt(t)
    \/ GiveBackUrb(t)
-----------------------------------------------------------------------------
(* The host and the framework, as the code depends on them.                 *)

\* An interrupt URB reaches the queue.  WdfIoQueueReadyNotify asks for a call
\* whenever the queue goes from empty to not empty.
PostInterruptUrb(b) ==
    /\ Len(InterruptUrbQueue) < MaxInterruptUrbs
    /\ InterruptUrbQueue' = Append(InterruptUrbQueue, b)
    /\ readyNotify' = (readyNotify \/ InterruptUrbQueue = <<>>)
    /\ UNCHANGED <<lists, InProgressLock, usbContext, pool, powered, powerDowns,
                   pc, interruptUrb, control, history>>

\* The host cancels an interrupt URB the driver has not retrieved.
CancelInterruptUrb(i) ==
    /\ HostCancels
    /\ i \in 1..Len(InterruptUrbQueue)
    /\ InterruptUrbQueue' = SubSeq(InterruptUrbQueue, 1, i - 1) \o
                            SubSeq(InterruptUrbQueue, i + 1, Len(InterruptUrbQueue))
    /\ UNCHANGED <<lists, InProgressLock, usbContext, pool, readyNotify, powered,
                   powerDowns, pc, interruptUrb, control, history>>

\* The device leaves D0 and the power-managed queues stop ...
PowerDown ==
    /\ powered
    /\ powerDowns < MaxPowerDowns
    /\ powered' = FALSE
    /\ powerDowns' = powerDowns + 1
    /\ UNCHANGED <<lists, InProgressLock, usbContext, pool, InterruptUrbQueue,
                   readyNotify, pc, interruptUrb, control, history>>

\* ... and start again, with a ready callback due if URBs are waiting.
PowerUp ==
    /\ ~ powered
    /\ powered' = TRUE
    /\ readyNotify' = (readyNotify \/ InterruptUrbQueue # <<>>)
    /\ UNCHANGED <<lists, InProgressLock, usbContext, pool, InterruptUrbQueue,
                   powerDowns, pc, interruptUrb, control, history>>
-----------------------------------------------------------------------------
ControlStep ==
    \/ CompleteControlUrb
    \/ AcquireToEnqueue
    \/ EnqueueResponse
    \/ EnqueueAvailableInterrupt
    \/ AcquireToGet
    \/ CheckResponse
    \/ RemoveResponse
    \/ CopyResponse

Host ==
    \/ \E u \in Requests : IoEvtControlUrb(u)
    \/ \E b \in UrbBuffers : PostInterruptUrb(b)
    \/ \E i \in 1..MaxInterruptUrbs : CancelInterruptUrb(i)

Next ==
    \/ Host
    \/ ControlStep
    \/ \E t \in ReadyThreads : IoEvtInterruptUrbQueueReady(t)
    \/ \E t \in Threads : MbbTryDrainInterrupt(t)
    \/ PowerDown
    \/ PowerUp

Spec == Init /\ [][Next]_vars
-----------------------------------------------------------------------------
(* Safety.                                                                  *)

Labels == {"idle", "enq_lock", "enq_resp", "enq_int",
           "get_lock", "get_check", "get_remove", "get_copy",
           "drain_lock", "drain_check", "drain_retrieve", "drain_remove",
           "deliver", "giveback", "complete"}

\* Where a ready callback can be.
DrainLabels == {"idle", "drain_lock", "drain_check", "drain_retrieve",
                "drain_remove", "deliver", "giveback"}

\* The code between an acquire and its release.
LockedLabels == {"enq_resp", "enq_int", "get_check", "get_remove",
                 "drain_check", "drain_retrieve", "drain_remove"}

\* The state is well-typed: the lists of IO_CONTEXT hold responses and
\* notifications, and a ready callback only ever runs the drain.
TypeOK ==
    /\ EncapsulatedCommandResponse \in Seq(Responses)
    /\ AvailableInterrupt \in Seq({"OPEN_DONE", "COMMAND_DONE"})
    /\ InProgressLock \in Threads \cup {NoThread}
    /\ usbContext \in [MaxBulkInTransfer : Nat, NTBFormatSetupValue : {0, 1}]
    /\ pool \in Int
    /\ InterruptUrbQueue \in Seq(Buffers)
    /\ readyNotify \in BOOLEAN
    /\ powered \in BOOLEAN
    /\ powerDowns \in 0..MaxPowerDowns
    /\ pc \in [Threads -> Labels]
    /\ \A t \in ReadyThreads : pc[t] \in DrainLabels
    /\ interruptUrb \in [Threads -> Buffers]
    /\ request \in Requests \cup {NoUrb}
    /\ status \in Statuses
    /\ bytes \in Nat
    /\ answered \in BOOLEAN
    /\ bufferContent \in Seq(Responses)
    /\ accepted \in Seq(Responses)
    /\ fetched \in Seq(Responses)
    /\ delivered \in Nat

\* InProgressLock is held by exactly the thread that is between an acquire and
\* its release: no path of the handlers returns, completes a URB or goes round
\* the drain loop with the lock held, and no two threads are inside.
LockDiscipline ==
    \A t \in Threads : InProgressLock = t <=> pc[t] \in LockedLabels

\* RemoveHeadList is never applied to an empty list, although emptiness is
\* tested a step (and a framework call) earlier.
NoRemoveFromEmptyList ==
    /\ At(Control, "get_remove") => EncapsulatedCommandResponse # <<>>
    /\ \A t \in Threads : At(t, "drain_remove") => AvailableInterrupt # <<>>

\* The responses on the list, without one whose notification may yet fail.
CommittedResponses ==
    IF At(Control, "enq_int") THEN RemoveCreatedEntry(EncapsulatedCommandResponse)
    ELSE EncapsulatedCommandResponse

\* The host gets every accepted response once and in the order of acceptance,
\* through fetches with short buffers, which put the response back, and
\* through enqueues that are rolled back.
ResponsesInOrder == accepted = fetched \o bufferContent \o CommittedResponses

Delivering == {t \in Threads : At(t, "deliver")}

\* Each accepted response has exactly one notification: on its list, with one
\* of the threads that deliver concurrently, or with the host.
EachResponseNotifiedOnce ==
    Len(accepted) = Len(AvailableInterrupt) + Cardinality(Delivering) + delivered

\* A host that fetches because it was notified finds a response: the fetch
\* that finds the list empty is one more than the notifications delivered.
NotifiedFetchFindsResponse ==
    [][At(Control, "get_check") /\ status' = "INVALID_DEVICE_REQUEST"
       => delivered <= Len(fetched)]_vars

\* A command's notification never waits next to a waiting interrupt URB unless
\* someone is still bound to bring them together: a drain under way, a ready
\* callback due, or the queue's restart.
CommandNotStranded ==
    InterruptUrbQueue # <<>> /\ "COMMAND_DONE" \in {AvailableInterrupt[i] :
                                    i \in 1..Len(AvailableInterrupt)}
    => \/ readyNotify
       \/ ~ powered
       \/ \E t \in Threads : pc[t] \in DrainLabels \ {"idle"}

\* Allocations Control has made for its request and not yet put on a list, or
\* taken off one and not yet freed.
HeldByControl ==
    CASE At(Control, "get_copy")                    -> 2
      [] pc[Control] \in {"enq_lock", "enq_resp"}   -> IF Opening THEN 0 ELSE 1
      [] OTHER                                      -> 0

\* Whatever allocation fails, what is live is what is on the lists and in the
\* hands of a thread: nothing leaks on an error path and nothing is freed twice.
PoolAccounted ==
    pool = 2 * Len(EncapsulatedCommandResponse) + 2 * Len(AvailableInterrupt)
           + 2 * Cardinality(Delivering) + HeldByControl

\* A control URB never completes with more bytes than its buffer holds.
BytesWithinBuffer ==
    At(Control, "complete") /\ status = "SUCCESS" => bytes <= request.length

\* MbbOpen succeeds exactly when it queued its response.
OpenStatusIsTruthful ==
    [][pc[Control] \in {"enq_resp", "enq_int"} /\ Opening /\ At(Control, "complete")'
       => (status' = "SUCCESS" <=> accepted' # accepted)]_vars

\* A fetch succeeds exactly when it hands a response over, all of it.
FetchStatusIsTruthful ==
    At(Control, "complete") /\ request # NoUrb /\ Fetches(request)
    => /\ status = "SUCCESS" <=> bufferContent # <<>>
       /\ status = "SUCCESS" => bytes = LengthOf[bufferContent[1].kind]

\* What the log message of MbbDeviceCaps says: a SET of DEVICE_CAPS is refused.
DeviceCapsIsQueryOnly ==
    /\ At(Control, "complete")
    /\ CarriesMessage(request, "COMMAND")
    /\ request.message.cid = "DEVICE_CAPS"
    /\ request.message.service = "BASIC_CONNECT"
    /\ request.message.commandType = "SET"
    => status # "SUCCESS"

\* The channel keeps the promise of ResponseChannel.  A response is accepted
\* when its notification is queued, and fetched when the URB that carries it
\* completes.
Channel == INSTANCE ResponseChannel WITH
    Response <- {Done(u) : u \in {v \in Requests : Opens(v) \/ Commands(v)}},
    pending  <- bufferContent \o CommittedResponses,
    owed     <- Len(AvailableInterrupt) + Cardinality(Delivering),
    got      <- fetched

ImplementsChannel == Channel!Spec
-----------------------------------------------------------------------------
(* Liveness.                                                                *)

\* Threads run on; a thread that spins on the lock gets it; the framework
\* makes the ready call it owes and restarts its queues; the host keeps an
\* interrupt URB queued.
Fairness ==
    /\ WF_vars(ControlStep)
    /\ SF_vars(AcquireToEnqueue)
    /\ SF_vars(AcquireToGet)
    /\ \A t \in Threads : /\ WF_vars(MbbTryDrainInterrupt(t))
                           /\ SF_vars(AcquireToDrain(t))
    /\ WF_vars(\E t \in ReadyThreads : IoEvtInterruptUrbQueueReady(t))
    /\ WF_vars(PowerUp)
    /\ WF_vars(PostInterruptUrb("fits"))

FairSpec == Spec /\ Fairness

Announced(kind) ==
    \A n \in 1..MaxResponses :
        Len(accepted) >= n /\ accepted[n].kind = kind ~> delivered >= n

\* The host is told of every command's response.
CommandIsAnnounced == Announced("COMMAND_DONE")

\* The host is told of the response to every OPEN: without it wmbclass cannot
\* complete its initialization.
OpenIsAnnounced == Announced("OPEN_DONE")

\* A host that has been notified fetches, with a buffer for any response.
HostFetches ==
    /\ delivered > Len(fetched)
    /\ \E u \in Requests : /\ Fetches(u)
                           /\ \A kind \in DOMAIN LengthOf : u.length >= LengthOf[kind]
                           /\ IoEvtControlUrb(u)

\* From end to end: a host that fetches whenever it was notified and the control
\* queue lets it gets the response to every command, with what was accepted
\* before, whatever it sends and fetches besides and however often a fetch too
\* short for the response puts it back.
CommandIsFetched ==
    SF_vars(HostFetches) => \A n \in 1..MaxResponses :
        Len(accepted) >= n /\ accepted[n].kind = "COMMAND_DONE" ~> Len(fetched) >= n

\* Every control URB is completed.
ControlUrbCompletes == request # NoUrb ~> request = NoUrb
=============================================================================
