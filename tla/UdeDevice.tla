----------------------------- MODULE UdeDevice -----------------------------
(***************************************************************************)
(* One device from its addition to its removal: the encapsulated-command    *)
(* channel (WwanVirtualAdapter) inside the lifecycle of its controller      *)
(* (UdeController), down to ControllerWdfEvtCleanupCallback, which frees     *)
(* what the channel left on its lists.                                      *)
(*                                                                          *)
(* The framework keeps the two together.  It forwards URBs only while the   *)
(* device is plugged in.  To leave D0 it stops the queues and waits for the  *)
(* requests in the driver's hands, but not for a ready callback that holds   *)
(* none; only the deletion of the objects waits for every callback.         *)
(***************************************************************************)
EXTENDS WwanVirtualAdapter

CONSTANTS Device,       \* the controller's WDFDEVICE
          Cleaner,      \* the context that runs the cleanup callback
          MaxInstance,  \* bounds of UdeController
          MaxStarts

ASSUME DeviceAssumption ==
    /\ Cleaner \notin Threads \cup {NoThread}
    /\ MaxInstance \in Nat
    /\ MaxStarts \in Nat \ {0}

VARIABLES phase, at, starts, instance, dev,  \* as in UdeController
          cleanup  \* where the cleanup callback is

Controller == INSTANCE UdeController WITH Controllers <- {Device}

controllerVars == <<phase, at, starts, instance, dev>>
deviceVars == <<vars, controllerVars, cleanup>>

\* What a cleanup in progress does next; "none" before and after it.
CleanupSteps == {"none", "notifications", "responses", "destroy"}

DeviceInit ==
    /\ Init
    /\ Controller!Init
    /\ cleanup = "none"

In(p) == phase[Device] = p

Plugged == dev[Device].VirtualMbimDevice = "plugged"

\* A request the driver has not completed keeps the device in D0.
InDriversHands ==
    \/ ~ At(Control, "idle")
    \/ \E t \in Threads : pc[t] \in {"drain_remove", "deliver", "giveback"}
-----------------------------------------------------------------------------
(* The handlers of the lifecycle and of the channel, each with the other     *)
(* component's state unchanged.                                             *)

Lifecycle ==
    /\ cleanup = "none"
    /\ \/ Controller!DeviceAdd(Device)
       \/ Controller!DeviceAddStep(Device)
       \/ Controller!D0EntryFromD3Final(Device)
       \/ Controller!PlugInStep(Device)
    /\ UNCHANGED <<vars, cleanup>>

HostStep ==
    /\ Plugged
    /\ Controller!Running
    /\ Host
    /\ UNCHANGED <<controllerVars, cleanup>>

\* A thread of the channel runs on, whatever the framework does meanwhile.
ThreadStep(t) ==
    /\ Controller!Running
    /\ \/ t = Control /\ ControlStep
       \/ IoEvtInterruptUrbQueueReady(t)
       \/ MbbTryDrainInterrupt(t)
    /\ UNCHANGED <<controllerVars, cleanup>>
-----------------------------------------------------------------------------
(* Leaving D0 and coming back.                                              *)

StopQueues ==
    /\ In("D0")
    /\ PowerDown
    /\ UNCHANGED <<controllerVars, cleanup>>

ExitToLowPower ==
    /\ In("D0")
    /\ ~ powered
    /\ ~ InDriversHands
    /\ Controller!LowPower(Device)
    /\ UNCHANGED <<vars, cleanup>>

ResumeFromLowPower ==
    /\ In("Dx")
    /\ Controller!LowPower(Device)
    /\ PowerUp
    /\ UNCHANGED cleanup

\* What waits in the interrupt queue goes back to the host.
PurgeQueue == InterruptUrbQueue' = <<>> /\ readyNotify' = FALSE

ChannelExceptQueue == <<lists, InProgressLock, usbContext, pool, powered,
                        powerDowns, pc, interruptUrb, control, history>>

\* Unplugging the device purges its queues.
ExitToD3Final ==
    /\ ~ powered
    /\ ~ InDriversHands
    /\ Controller!D0ExitToD3Final(Device)
    /\ IF Plugged' THEN UNCHANGED <<InterruptUrbQueue, readyNotify>> ELSE PurgeQueue
    /\ UNCHANGED <<ChannelExceptQueue, cleanup>>
-----------------------------------------------------------------------------
(* ControllerWdfEvtCleanupCallback.                                         *)

Removable == Controller!Running /\ phase[Device] \in {"failed", "added", "D3Final"}

\* No WDFDEVICE, and so no callback; or no lock to acquire.
RemoveWithoutLists ==
    /\ Removable
    /\ ~ dev[Device].InProgressLock
    /\ Controller!Remove(Device)
    /\ UNCHANGED <<vars, cleanup>>

MutantCleanupAcquire == UNCHANGED InProgressLock
CleanupAcquire == Acquire(Cleaner)

\* The framework purged the queues before.
BeginCleanup ==
    /\ Removable
    /\ cleanup = "none"
    /\ dev[Device].InProgressLock
    /\ CleanupAcquire
    /\ cleanup' = "notifications"
    /\ PurgeQueue
    /\ UNCHANGED <<lists, usbContext, pool, powered, powerDowns, pc, interruptUrb,
                   control, history, controllerVars>>

\* MbbCleanupBufferQueue removes every entry; FreeBufferContent frees the
\* buffer and the entry.
MutantFreedBy(list) == Len(list)
FreedBy(list) == 2 * Len(list)

CleanupNotifications ==
    /\ cleanup = "notifications"
    /\ AvailableInterrupt' = <<>>
    /\ pool' = pool - FreedBy(AvailableInterrupt)
    /\ cleanup' = "responses"
    /\ UNCHANGED <<EncapsulatedCommandResponse, InProgressLock, usbContext, framework,
                   pc, interruptUrb, control, history, controllerVars>>

CleanupResponses ==
    /\ cleanup = "responses"
    /\ EncapsulatedCommandResponse' = <<>>
    /\ pool' = pool - FreedBy(EncapsulatedCommandResponse)
    /\ InProgressLock' = NoThread
    /\ cleanup' = "destroy"
    /\ UNCHANGED <<AvailableInterrupt, usbContext, framework, pc, interruptUrb,
                   control, history, controllerVars>>

\* Usb_Destroy, and the objects go once all callbacks have returned.
Destroy ==
    /\ cleanup = "destroy"
    /\ \A t \in Threads : At(t, "idle")
    /\ Controller!Remove(Device)
    /\ cleanup' = "none"
    /\ UNCHANGED vars

Cleanup ==
    \/ RemoveWithoutLists
    \/ BeginCleanup
    \/ CleanupNotifications
    \/ CleanupResponses
    \/ Destroy

DeviceNext ==
    \/ Lifecycle
    \/ HostStep
    \/ \E t \in Threads : ThreadStep(t)
    \/ StopQueues
    \/ ExitToLowPower
    \/ ResumeFromLowPower
    \/ ExitToD3Final
    \/ Cleanup

DeviceSpec == DeviceInit /\ [][DeviceNext]_deviceVars
-----------------------------------------------------------------------------
(* Safety.                                                                  *)

\* Both components are well-typed, with Cleaner as one more holder of the lock.
DeviceTypeOK ==
    /\ Controller!TypeOK
    /\ cleanup \in CleanupSteps
    /\ InProgressLock = Cleaner <=> cleanup \in {"notifications", "responses"}
    /\ InProgressLock # Cleaner => TypeOK

\* A device that is gone leaves no pool memory behind, and freed none twice,
\* whatever responses and notifications were never fetched or sent and however
\* its start, its stop or its restart ended.
NothingLeftBehind == In("gone") => pool = 0

\* The handlers use the contexts, the lock and the lists without a test.  While
\* one runs they are there: none starts before the interrupt endpoint exists,
\* none is still running when the objects go.  A control URB in service has
\* its device plugged in and in D0.
HandlersHaveTheirObjects ==
    /\ \A t \in Threads : ~ At(t, "idle") =>
          /\ dev[Device].IoContext /\ dev[Device].UsbContext
          /\ dev[Device].InProgressLock /\ dev[Device].lists
    /\ ~ At(Control, "idle") => Plugged /\ In("D0")

\* A ready callback that holds no request may still run when the cleanup
\* callback starts; the cleanup never walks a list inside its critical section.
CleanupAlone ==
    cleanup \in {"notifications", "responses"} =>
        \A t \in Threads : pc[t] \notin LockedLabels
\* No cleanup has freed a list yet.
NothingFreed == cleanup \in {"none", "notifications"} /\ ~ In("gone")

\* Whatever becomes of the device, nothing accepted for its host is lost, doubled
\* or reordered until the cleanup callback frees it: neither queues that stop and
\* start, nor URBs returned by an unplug, nor a start that fails or repeats.
ResponsesKept == NothingFreed => ResponsesInOrder /\ EachResponseNotifiedOnce

\* Until then the device is the channel that ResponseChannel promises, whatever
\* happens around the handlers; from then on the host gets nothing more of it.
ImplementsChannelUntilFreed ==
    /\ Channel!Init
    /\ [][IF NothingFreed' THEN Channel!Next ELSE UNCHANGED <<fetched, delivered>>]_Channel!vars
-----------------------------------------------------------------------------
(* Liveness.                                                                *)

\* Threads run on and get a lock that is free again and again; the framework
\* goes on with what it has begun, and removes a device that failed.  It need not
\* remove one that works or is stopped.
DeviceFairness ==
    /\ \A t \in Threads :
          /\ WF_deviceVars(ThreadStep(t))
          /\ SF_deviceVars(ThreadStep(t) /\ InProgressLock' = t)
    /\ WF_deviceVars(Lifecycle /\ phase[Device] \in {"adding", "starting"})
    /\ WF_deviceVars(ExitToLowPower \/ ExitToD3Final)
    /\ WF_deviceVars(Cleanup /\ (In("failed") \/ cleanup # "none"))

FairDeviceSpec == DeviceSpec /\ DeviceFairness

\* Once its queues are stopped a device leaves D0, and once it failed or its
\* cleanup began it is gone: no handler and no cleanup waits for an URB, for the
\* lock or for another handler for ever, even if the host reposts URBs that cannot
\* hold a notification.
StopCompletes ==
    /\ In("D0") /\ ~ powered ~> ~ In("D0")
    /\ In("failed") \/ cleanup # "none" ~> phase[Device] \in {"gone", "bugcheck"}
=============================================================================
