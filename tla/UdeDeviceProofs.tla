-------------------------- MODULE UdeDeviceProofs --------------------------
(***************************************************************************)
(* A device from its addition to its removal, for any requests, any number  *)
(* of concurrent ready callbacks, any number of starts and any bounds: the  *)
(* handlers have the objects they use, the cleanup callback has the lists to *)
(* itself, and nothing is left behind.                                      *)
(*                                                                          *)
(* What the components' own proofs establish is used, not proved again: the *)
(* steps of the lifecycle are those of UdeControllerProofs, the steps of    *)
(* the handlers those of PoolProofs.                                        *)
(***************************************************************************)
EXTENDS UdeDevice, PoolProofs, ChannelStatusProofs

Lifetime == INSTANCE UdeControllerProofs WITH Controllers <- {Device}

\* The channel is well-typed, whoever holds the lock.
ChannelTypeOK ==
    /\ EncapsulatedCommandResponse \in Seq(Responses)
    /\ AvailableInterrupt \in Seq({"OPEN_DONE", "COMMAND_DONE"})
    /\ usbContext \in [MaxBulkInTransfer : Nat, NTBFormatSetupValue : {0, 1}]
    /\ pool \in Int
    /\ InterruptUrbQueue \in Seq(Buffers)
    /\ readyNotify \in BOOLEAN
    /\ powered \in BOOLEAN
    /\ powerDowns \in 0..MaxPowerDowns
    /\ pc \in [Threads -> Labels]
    /\ \A t \in ReadyThreads : pc[t] \in DrainLabels
    /\ interruptUrb \in [Threads -> Buffers]
    /\ request \in Requests \cup {NoUrb}
    /\ status \in Statuses
    /\ bytes \in Nat
    /\ answered \in BOOLEAN
    /\ bufferContent \in Seq(Responses)
    /\ accepted \in Seq(Responses)
    /\ fetched \in Seq(Responses)
    /\ delivered \in Nat

\* What holds of the channel while the cleanup callback has the lock, too.
ChannelPart ==
    /\ ChannelTypeOK
    /\ LockDiscipline
    /\ RequestInService
    /\ ListsAsChecked
    /\ CreatedEntryIsLast
    /\ AtMostOneResponse
    /\ PoolAccounted

AllIdle == \A t \in Threads : pc[t] = "idle"

\* The contexts, the lock and the lists of d are there.
HasObjects(d) == d.IoContext /\ d.UsbContext /\ d.InProgressLock /\ d.lists

\* No URB has reached the channel, and none can yet.
Untouched ==
    /\ ~ Plugged
    /\ AllIdle
    /\ ~ readyNotify
    /\ EncapsulatedCommandResponse = <<>>
    /\ AvailableInterrupt = <<>>
    /\ pool = 0

\* The queues are stopped and no URB is in the driver's hands; a ready callback
\* without one may still run, with the objects it uses.
Stopped == ~ powered /\ ~ InDriversHands /\ HasObjects(dev[Device])

\* What the phase of the device says of the channel.
PhaseTells ==
    /\ phase[Device] \notin {"D0", "gone"} => Untouched \/ Stopped
    /\ In("gone") => /\ ~ Plugged /\ AllIdle /\ pool = 0
                     /\ ~ (powered /\ readyNotify)

\* How far a cleanup is.
CleanupTells ==
    /\ cleanup \in CleanupSteps
    /\ InProgressLock \in Threads \cup {NoThread, Cleaner}
    /\ InProgressLock = Cleaner <=> cleanup \in {"notifications", "responses"}
    /\ cleanup # "none" => /\ phase[Device] \in {"failed", "added", "D3Final"}
                           /\ dev[Device].InProgressLock
    /\ cleanup \in {"responses", "destroy"} => AvailableInterrupt = <<>>
    /\ cleanup = "destroy" => EncapsulatedCommandResponse = <<>>

DeviceInv ==
    /\ Lifetime!ControllerInv
    /\ ChannelPart
    /\ PhaseTells
    /\ CleanupTells
-----------------------------------------------------------------------------
(* The lifecycle.                                                           *)

\* The steps of the lifecycle are those UdeControllerProofs speaks of.
LEMMA SameAddition ==
    Controller!DeviceAddStep(Device) => Lifetime!DeviceAddStep(Device)
<1> USE DEF Controller!Calls, Lifetime!Calls, Controller!Running, Lifetime!Running,
            Controller!Succeed, Lifetime!Succeed, Controller!Enter, Lifetime!Enter,
            Controller!Fail, Lifetime!Fail, Controller!FailWith, Lifetime!FailWith
<1>1. Controller!InitializeWdfDeviceInit(Device) => Lifetime!InitializeWdfDeviceInit(Device)
  BY DEF Controller!InitializeWdfDeviceInit, Lifetime!InitializeWdfDeviceInit
<1>2. Controller!WdfDeviceCreate(Device) => Lifetime!WdfDeviceCreate(Device)
  BY DEF Controller!WdfDeviceCreate, Lifetime!WdfDeviceCreate,
         Controller!NamesInUse, Lifetime!NamesInUse
<1>3. Controller!SymbolicLink(Device) => Lifetime!SymbolicLink(Device)
  BY DEF Controller!SymbolicLink, Lifetime!SymbolicLink
<1>4. Controller!RegisterController(Device) => Lifetime!RegisterController(Device)
  BY DEF Controller!RegisterController, Lifetime!RegisterController
<1>5. Controller!AllocateIoContext(Device) => Lifetime!AllocateIoContext(Device)
  BY DEF Controller!AllocateIoContext, Lifetime!AllocateIoContext
<1>6. Controller!AllocateUsbContext(Device) => Lifetime!AllocateUsbContext(Device)
  BY DEF Controller!AllocateUsbContext, Lifetime!AllocateUsbContext
<1>7. Controller!UsbDeviceInitAllocate(Device) => Lifetime!UsbDeviceInitAllocate(Device)
  BY DEF Controller!UsbDeviceInitAllocate, Lifetime!UsbDeviceInitAllocate
<1>8. Controller!AddDescriptors(Device) => Lifetime!AddDescriptors(Device)
  BY DEF Controller!AddDescriptors, Lifetime!AddDescriptors
<1> QED
  BY <1>1, <1>2, <1>3, <1>4, <1>5, <1>6, <1>7, <1>8
     DEF Controller!DeviceAddStep, Lifetime!DeviceAddStep

\* The exits of a start's functions are.
LEMMA SameExits ==
    /\ \A d, e : Controller!EndpointExit(d, e) = Lifetime!EndpointExit(d, e)
    /\ \A d : Controller!PlugInExit(d) = Lifetime!PlugInExit(d)
BY DEF Controller!EndpointExit, Lifetime!EndpointExit,
       Controller!ControlEndpointExit, Lifetime!ControlEndpointExit,
       Controller!InterruptEndpointExit, Lifetime!InterruptEndpointExit,
       Controller!BulkInEndpointExit, Lifetime!BulkInEndpointExit,
       Controller!BulkOutEndpointExit, Lifetime!BulkOutEndpointExit,
       Controller!CreateAndAddEndpointExit, Lifetime!CreateAndAddEndpointExit,
       Controller!FreeEndpointInit, Lifetime!FreeEndpointInit,
       Controller!PlugInExit, Lifetime!PlugInExit

\* So are the steps of a start.
LEMMA SameStart ==
    Controller!PlugInStep(Device) => Lifetime!PlugInStep(Device)
<1> USE DEF Controller!Calls, Lifetime!Calls, Controller!Running, Lifetime!Running,
            Controller!Succeed, Lifetime!Succeed, Controller!Enter, Lifetime!Enter,
            Controller!FailWith, Lifetime!FailWith, Controller!FailPlugIn,
            Lifetime!FailPlugIn, Controller!FailEndpoint, Lifetime!FailEndpoint,
            Controller!EndpointOrder, Lifetime!EndpointOrder, Controller!Endpoints,
            Lifetime!Endpoints, Controller!CachedQueues, Lifetime!CachedQueues
<1>0. /\ \A d, e : Controller!EndpointExit(d, e) = Lifetime!EndpointExit(d, e)
      /\ \A d : Controller!PlugInExit(d) = Lifetime!PlugInExit(d)
  BY SameExits
<1>1. Controller!AllocateConfigDescSet(Device) => Lifetime!AllocateConfigDescSet(Device)
  BY <1>0 DEF Controller!AllocateConfigDescSet, Lifetime!AllocateConfigDescSet
<1>2. Controller!AddConfigDescriptor(Device) => Lifetime!AddConfigDescriptor(Device)
  BY <1>0 DEF Controller!AddConfigDescriptor, Lifetime!AddConfigDescriptor
<1>3. Controller!UsbDeviceCreate(Device) => Lifetime!UsbDeviceCreate(Device)
  BY <1>0 DEF Controller!UsbDeviceCreate, Lifetime!UsbDeviceCreate
<1>4. Controller!PlugIn(Device) => Lifetime!PlugIn(Device)
  BY <1>0 DEF Controller!PlugIn, Lifetime!PlugIn
<1>5. ASSUME NEW e PROVE Controller!CreateEndpoint(Device, e) => Lifetime!CreateEndpoint(Device, e)
  <2>1. Controller!RetrieveQueue(Device, e) => Lifetime!RetrieveQueue(Device, e)
    <3>1. /\ Controller!AllObjects(dev[Device], e) = Lifetime!AllObjects(dev[Device], e)
          /\ Controller!WithQueue(dev[Device], e) = Lifetime!WithQueue(dev[Device], e)
          /\ Controller!WithReadyQueue(dev[Device]) = Lifetime!WithReadyQueue(dev[Device])
      BY DEF Controller!AllObjects, Lifetime!AllObjects, Controller!WithQueue,
             Lifetime!WithQueue, Controller!WithReadyQueue, Lifetime!WithReadyQueue,
             Controller!WithInterruptQueue, Lifetime!WithInterruptQueue
    <3> QED
      BY <1>0, <3>1 DEF Controller!RetrieveQueue, Lifetime!RetrieveQueue,
         Controller!QueueFails, Lifetime!QueueFails
  <2>2. Controller!EndpointInitAllocate(Device, e) => Lifetime!EndpointInitAllocate(Device, e)
    BY <1>0 DEF Controller!EndpointInitAllocate, Lifetime!EndpointInitAllocate
  <2>3. Controller!UsbEndpointCreate(Device, e) => Lifetime!UsbEndpointCreate(Device, e)
    BY <1>0 DEF Controller!UsbEndpointCreate, Lifetime!UsbEndpointCreate,
       Controller!UsbEndpointCreated, Lifetime!UsbEndpointCreated
  <2>4. Controller!NextEndpoint(Device) = Lifetime!NextEndpoint(Device)
    <3> DEFINE n == Cardinality(dev[Device].endpoints)
    <3>1. Controller!Cardinality(dev[Device].endpoints) = n
      BY DEF Controller!Cardinality, Cardinality
    <3>2. Lifetime!Cardinality(dev[Device].endpoints) = n
      BY DEF Lifetime!Cardinality, Cardinality
    <3> HIDE DEF n
    <3> QED
      BY <3>1, <3>2 DEF Controller!NextEndpoint, Lifetime!NextEndpoint
  <2> QED
    BY <2>1, <2>2, <2>3, <2>4 DEF Controller!CreateEndpoint, Lifetime!CreateEndpoint
<1> QED
  BY <1>1, <1>2, <1>3, <1>4, <1>5
  DEF Controller!PlugInStep, Lifetime!PlugInStep,
      Controller!UsbCreateControlEndpoint, Lifetime!UsbCreateControlEndpoint,
      Controller!UsbCreateInterruptEndpoint,
      Lifetime!UsbCreateInterruptEndpoint, Controller!UsbCreateBulkInEndpoint,
      Lifetime!UsbCreateBulkInEndpoint, Controller!UsbCreateBulkOutEndpoint,
      Lifetime!UsbCreateBulkOutEndpoint,
      Controller!UsbDevice_CreateAndAddEndpoint,
      Lifetime!UsbDevice_CreateAndAddEndpoint

\* What a step of the lifecycle is, whichever component takes it.
LifecycleStep ==
    \/ Controller!DeviceAdd(Device)
    \/ Controller!DeviceAddStep(Device)
    \/ Controller!D0EntryFromD3Final(Device)
    \/ Controller!PlugInStep(Device)
    \/ Controller!LowPower(Device)
    \/ Controller!D0ExitToD3Final(Device)
    \/ Controller!Remove(Device)
    \/ UNCHANGED controllerVars

\* It is a step of the lifecycle by itself ...
LEMMA SameStep == LifecycleStep => [Lifetime!Next]_Lifetime!vars
<1> SUFFICES ASSUME LifecycleStep PROVE [Lifetime!Next]_Lifetime!vars
  OBVIOUS
<1> USE DEF Controller!Running, Lifetime!Running, Controller!Enter, Lifetime!Enter
<1>1. Controller!DeviceAdd(Device) => Lifetime!DeviceAdd(Device)
  BY DEF Controller!DeviceAdd, Lifetime!DeviceAdd
<1>2. Controller!D0EntryFromD3Final(Device) => Lifetime!D0EntryFromD3Final(Device)
  BY DEF Controller!D0EntryFromD3Final, Lifetime!D0EntryFromD3Final
<1>3. Controller!LowPower(Device) => Lifetime!LowPower(Device)
  BY DEF Controller!LowPower, Lifetime!LowPower
<1>4. Controller!D0ExitToD3Final(Device) => Lifetime!D0ExitToD3Final(Device)
  BY DEF Controller!D0ExitToD3Final, Lifetime!D0ExitToD3Final
<1>5. Controller!Remove(Device) => Lifetime!Remove(Device)
  BY DEF Controller!Remove, Lifetime!Remove, Controller!NoName,
         Lifetime!NoName, Controller!NewDevice, Lifetime!NewDevice
<1>6. Lifetime!Next \/ UNCHANGED controllerVars
  BY <1>1, <1>2, <1>3, <1>4, <1>5, SameAddition, SameStart DEF LifecycleStep, Lifetime!Next
<1> QED
  BY <1>6 DEF controllerVars, Lifetime!vars

\* ... and keeps the invariant of the lifecycle.
LEMMA LifetimeStep ==
    ASSUME Lifetime!ControllerInv, LifecycleStep
    PROVE  Lifetime!ControllerInv'
BY SameStep, DeviceAssumption, Lifetime!ControllerNext

\* What the handlers of the lifecycle do to d, unless they plug it in: they take
\* none of its objects away.
Keeps(d, e) ==
    /\ HasObjects(d) => HasObjects(e)
    /\ d.VirtualMbimDevice # "plugged" => e.VirtualMbimDevice # "plugged"

\* The records of devices are those UdeControllerProofs speaks of.
LEMMA SameDevices == Lifetime!Devices = Controller!Devices
BY DEF Controller!Devices, Lifetime!Devices, Controller!NoName, Lifetime!NoName,
       Controller!EndpointOrder, Lifetime!EndpointOrder, Controller!Endpoints,
       Lifetime!Endpoints, Controller!CachedQueues, Lifetime!CachedQueues

\* The records that ControllerInv types.
LEMMA LifetimeType ==
    ASSUME Lifetime!ControllerInv
    PROVE  /\ phase \in [{Device} -> Controller!Phases]
           /\ at \in [{Device} -> Controller!AddCalls \cup Controller!StartCalls]
           /\ dev \in [{Device} -> Controller!Devices]
           /\ Controller!TypeOK
<1> USE DEF Controller!Phases, Lifetime!Phases, Controller!AddCalls, Lifetime!AddCalls,
            Controller!StartCalls, Lifetime!StartCalls, Controller!NoName, Lifetime!NoName
<1> QED
  BY SameDevices DEF Lifetime!ControllerInv, Lifetime!TypeOK, Controller!TypeOK

\* A working device is plugged in, and a device that is plugged in has its objects.
LEMMA LifetimeTells ==
    ASSUME Lifetime!ControllerInv
    PROVE  /\ phase[Device] \in {"D0", "Dx"} => Plugged
           /\ Plugged => HasObjects(dev[Device])
BY DEF Lifetime!ControllerInv, Lifetime!Consistent, Lifetime!Sound, Lifetime!Complete,
       Plugged, HasObjects

\* What a step of DeviceAdd and of D0Entry leads to: none leads to the end, and
\* only the last call of a start plugs the device in.
HandlerEffect ==
    /\ phase[Device] \notin {"D0", "gone"}
    /\ phase'[Device] # "gone"
    /\ phase'[Device] # "D0" => Keeps(dev[Device], dev'[Device])

\* A call that succeeds ...
LEMMA CallSucceeds ==
    ASSUME Lifetime!ControllerInv, NEW label, Controller!Calls(Device, label),
           NEW d, NEW a, Controller!Succeed(Device, d, a), Keeps(dev[Device], d)
    PROVE  HandlerEffect
<1>1. dev'[Device] = d /\ UNCHANGED phase
  BY LifetimeType DEF Controller!Succeed
<1> QED
  BY <1>1 DEF Controller!Calls, HandlerEffect

\* ... or fails and leaves d behind, ...
LEMMA CallFails ==
    ASSUME Lifetime!ControllerInv, NEW label, Controller!Calls(Device, label),
           NEW d, Controller!FailWith(Device, d), Keeps(dev[Device], d)
    PROVE  HandlerEffect
<1>1. dev'[Device] = d /\ phase'[Device] = "failed"
  BY LifetimeType DEF Controller!FailWith, Controller!Enter
<1> QED
  BY <1>1 DEF Controller!Calls, HandlerEffect

\* ... in DeviceAdd what there was, ...
LEMMA CallFailsClean ==
    ASSUME Lifetime!ControllerInv, NEW label, Controller!Calls(Device, label),
           Controller!Fail(Device)
    PROVE  HandlerEffect
<1>1. Keeps(dev[Device], dev[Device])
  BY DEF Keeps
<1> QED
  BY <1>1, CallFails DEF Controller!Fail

\* ... in a start what the exits leave of it.
LEMMA ExitsKeep ==
    ASSUME NEW d, NEW x, NEW y, Keeps(d, x), Lifetime!SameObjects(x, y)
    PROVE  Keeps(d, y)
BY DEF Keeps, HasObjects, Lifetime!SameObjects

\* They find nothing else to free than what the handler holds, on the way to an
\* endpoint ...
LEMMA CallFailsAtEndpoint ==
    ASSUME Lifetime!ControllerInv, NEW label, Controller!Calls(Device, label),
           NEW d \in Controller!Devices, NEW e, Controller!FailEndpoint(Device, e, d),
           Lifetime!Accounted(d), Keeps(dev[Device], d)
    PROVE  HandlerEffect
<1> DEFINE x == Lifetime!EndpointExit(d, e)
           y == Lifetime!PlugInExit(x)
<1>1. d \in Lifetime!Devices
  BY SameDevices
<1>2. /\ x \in Lifetime!Devices /\ Lifetime!SameObjects(d, x) /\ Lifetime!Accounted(x)
      /\ ~ x.endpointInit
  BY <1>1, DeviceAssumption, Lifetime!EndpointExitFrees
<1>3. Controller!FailWith(Device, y)
  BY SameExits DEF Controller!FailEndpoint
<1> HIDE DEF x
<1>4. Lifetime!SameObjects(x, y)
  BY <1>2, DeviceAssumption, Lifetime!PlugInExitFrees
<1> HIDE DEF y
<1>5. Keeps(dev[Device], y)
  BY <1>2, <1>4, ExitsKeep
<1> QED
  BY <1>3, <1>5, CallFails

\* ... and before and after them.
LEMMA CallFailsToPlugIn ==
    ASSUME Lifetime!ControllerInv,
           NEW label \in Controller!StartCalls \ {"Endpoint"},
           Controller!Calls(Device, label), Controller!FailPlugIn(Device)
    PROVE  HandlerEffect
<1> DEFINE d == dev[Device]
           y == Lifetime!PlugInExit(d)
<1>1. Lifetime!Calls(Device, label) /\ label \in Lifetime!StartCalls
  BY DEF Controller!Calls, Lifetime!Calls, Controller!Running, Lifetime!Running,
         Controller!StartCalls, Lifetime!StartCalls
<1>2. /\ d \in Lifetime!Devices /\ Lifetime!Accounted(d)
      /\ Lifetime!StartedUpTo(label, d)
  BY <1>1, DeviceAssumption, Lifetime!Starting
<1>3. ~ d.endpointInit
  BY <1>2 DEF Lifetime!StartedUpTo
<1>4. Controller!FailWith(Device, y)
  BY SameExits DEF Controller!FailPlugIn
<1>5. Lifetime!SameObjects(d, y)
  BY <1>2, <1>3, DeviceAssumption, Lifetime!PlugInExitFrees
<1> HIDE DEF y
<1>6. Keeps(dev[Device], y)
  BY <1>5, ExitsKeep DEF Keeps
<1> QED
  BY <1>4, <1>6, CallFails

\* The steps of DeviceAdd.
LEMMA AdditionEffect ==
    ASSUME Lifetime!ControllerInv, Controller!DeviceAddStep(Device)
    PROVE  HandlerEffect
<1> DEFINE d == dev[Device]
<1>1. d \in Controller!Devices /\ Keeps(d, d)
  BY LifetimeType DEF Keeps
<1>2. CASE Controller!InitializeWdfDeviceInit(Device)
  BY <1>1, <1>2, CallSucceeds, CallFailsClean DEF Controller!InitializeWdfDeviceInit
<1>3. CASE Controller!WdfDeviceCreate(Device)
  <2>1. Keeps(d, [d EXCEPT !.name = instance[Device]])
    BY <1>1 DEF Keeps, HasObjects, Controller!Devices
  <2>2. CASE UNCHANGED <<phase, dev>>
    BY <1>1, <1>3, <2>2 DEF Controller!WdfDeviceCreate, Controller!Calls, HandlerEffect
  <2> QED
    BY <1>3, <2>1, <2>2, CallSucceeds, CallFailsClean DEF Controller!WdfDeviceCreate
<1>4. CASE Controller!SymbolicLink(Device)
  <2>1. Keeps(d, [d EXCEPT !.symLink = instance[Device]])
    BY <1>1 DEF Keeps, HasObjects, Controller!Devices
  <2> QED
    BY <1>4, <2>1, CallSucceeds, CallFailsClean DEF Controller!SymbolicLink
<1>5. CASE Controller!RegisterController(Device)
  BY <1>1, <1>5, CallSucceeds, CallFailsClean DEF Controller!RegisterController
<1>6. CASE Controller!AllocateIoContext(Device)
  <2>1. Keeps(d, [d EXCEPT !.IoContext = TRUE])
    BY <1>1 DEF Keeps, HasObjects, Controller!Devices
  <2> QED
    BY <1>6, <2>1, CallSucceeds, CallFailsClean DEF Controller!AllocateIoContext
<1>7. CASE Controller!AllocateUsbContext(Device)
  <2>1. Keeps(d, [d EXCEPT !.UsbContext = TRUE])
    BY <1>1 DEF Keeps, HasObjects, Controller!Devices
  <2> QED
    BY <1>7, <2>1, CallSucceeds, CallFailsClean DEF Controller!AllocateUsbContext
<1>8. CASE Controller!UsbDeviceInitAllocate(Device)
  <2>1. Keeps(d, [d EXCEPT !.UdecxUsbDeviceInit = "allocated"])
    BY <1>1 DEF Keeps, HasObjects, Controller!Devices
  <2> QED
    BY <1>8, <2>1, CallSucceeds, CallFailsClean DEF Controller!UsbDeviceInitAllocate
<1>9. CASE Controller!AddDescriptors(Device)
  <2>1. CASE Controller!Enter(Device, "added") /\ UNCHANGED dev
    <3>1. phase'[Device] = "added"
      BY <2>1, LifetimeType DEF Controller!Enter
    <3> QED
      BY <1>1, <1>9, <2>1, <3>1 DEF Controller!AddDescriptors, Controller!Calls,
         HandlerEffect
  <2> QED
    BY <1>9, <2>1, CallFailsClean DEF Controller!AddDescriptors
<1> QED
  BY <1>2, <1>3, <1>4, <1>5, <1>6, <1>7, <1>8, <1>9 DEF Controller!DeviceAddStep

\* What the queue of an endpoint adds to d, in the order the calls add it.
LEMMA QueueAdds ==
    ASSUME NEW d \in Controller!Devices, NEW e \in Controller!Endpoints
    PROVE  /\ Keeps(d, Controller!AllObjects(d, e))
           /\ \A part \in {d, Controller!WithQueue(d, e), Controller!WithReadyQueue(d)} :
                 /\ part \in Controller!Devices /\ Keeps(d, part)
                 /\ Lifetime!Accounted(d) => Lifetime!Accounted(part)
<1>1. ASSUME NEW n \in Controller!Endpoints, NEW q, q = Controller!WithQueue(d, n)
      PROVE  /\ q \in Controller!Devices /\ Keeps(d, q)
             /\ Lifetime!Accounted(d) => Lifetime!Accounted(q)
  <2> DEFINE qs == d.queues \cup ({n} \cap Controller!CachedQueues)
  <2>1. qs \in SUBSET Controller!CachedQueues
    BY DEF Controller!Devices
  <2>2. q = [d EXCEPT !.queues = qs]
    BY <1>1 DEF Controller!WithQueue
  <2> HIDE DEF qs
  <2>3. q \in Controller!Devices /\ Keeps(d, q)
    BY <2>1, <2>2 DEF Controller!Devices, Keeps, HasObjects
  <2>4. /\ q.configDescSet = d.configDescSet /\ q.endpointInit = d.endpointInit
        /\ q.temporaries = d.temporaries
    BY <2>2 DEF Controller!Devices
  <2> QED
    BY <2>3, <2>4 DEF Lifetime!Accounted, Lifetime!Held
<1> DEFINE q == Controller!WithQueue(d, "Interrupt")
           r == Controller!WithReadyQueue(d)
           ready == q.readyNotify \/ "Interrupt" \notin d.queues
<1>2. "Interrupt" \in Controller!Endpoints
  BY DEF Controller!Endpoints, Controller!EndpointOrder
<1>3. /\ q \in Controller!Devices /\ Keeps(d, q)
      /\ Lifetime!Accounted(d) => Lifetime!Accounted(q)
  BY <1>1, <1>2
<1>4. r = [q EXCEPT !.readyNotify = ready]
  BY DEF Controller!WithReadyQueue
<1>5. ready \in BOOLEAN
  OBVIOUS
<1>6. Controller!WithInterruptQueue(d) = [r EXCEPT !.InProgressLock = TRUE, !.lists = TRUE]
  BY DEF Controller!WithInterruptQueue
<1> HIDE DEF q, r, ready
<1>7. r \in Controller!Devices /\ Keeps(d, r)
  BY <1>3, <1>4, <1>5 DEF Controller!Devices, Keeps, HasObjects
<1>8. /\ r.configDescSet = q.configDescSet /\ r.endpointInit = q.endpointInit
      /\ r.temporaries = q.temporaries
  BY <1>3, <1>4 DEF Controller!Devices
<1>9. Lifetime!Accounted(d) => Lifetime!Accounted(r)
  BY <1>3, <1>8 DEF Lifetime!Accounted, Lifetime!Held
<1>10. Keeps(d, Controller!WithInterruptQueue(d))
  BY <1>6, <1>7 DEF Controller!Devices, Keeps, HasObjects
<1>11. Keeps(d, Controller!AllObjects(d, e))
  BY <1>1, <1>10 DEF Controller!AllObjects
<1>12. Keeps(d, d)
  BY DEF Keeps
<1> QED
  BY <1>1, <1>7, <1>9, <1>11, <1>12 DEF r

\* The calls that create an endpoint.
LEMMA EndpointEffect ==
    ASSUME Lifetime!ControllerInv, NEW e \in Controller!Endpoints,
           Controller!CreateEndpoint(Device, e)
    PROVE  HandlerEffect
<1> DEFINE d == dev[Device]
<1>1. d \in Controller!Devices /\ Keeps(d, d) /\ Lifetime!Accounted(d)
  BY LifetimeType DEF Keeps, Lifetime!ControllerInv, Lifetime!Consistent
<1>2. CASE Controller!RetrieveQueue(Device, e)
  <2>1. CASE Controller!Succeed(Device, Controller!AllObjects(d, e), "EndpointInit")
    <3>1. Keeps(d, Controller!AllObjects(d, e))
      BY <1>1, QueueAdds
    <3> QED
      BY <1>2, <2>1, <3>1, CallSucceeds DEF Controller!RetrieveQueue
  <2>2. CASE Controller!QueueFails(Device, e)
    <3>1. PICK part \in {d, Controller!WithQueue(d, e), Controller!WithReadyQueue(d)} :
            Controller!FailEndpoint(Device, e, part)
      BY <2>2 DEF Controller!QueueFails
    <3>2. part \in Controller!Devices /\ Keeps(d, part) /\ Lifetime!Accounted(part)
      BY <1>1, QueueAdds
    <3> QED
      BY <1>2, <3>1, <3>2, CallFailsAtEndpoint DEF Controller!RetrieveQueue
  <2> QED
    BY <1>2, <2>1, <2>2 DEF Controller!RetrieveQueue
<1>3. CASE Controller!EndpointInitAllocate(Device, e)
  <2> DEFINE x == [d EXCEPT !.endpointInit = TRUE, !.temporaries = d.temporaries + 1]
  <2>1. Keeps(d, x)
    BY <1>1 DEF Keeps, HasObjects, Controller!Devices
  <2>2. Controller!Succeed(Device, x, "Endpoint") \/ Controller!FailEndpoint(Device, e, d)
    BY <1>3 DEF Controller!EndpointInitAllocate
  <2> HIDE DEF x
  <2> QED
    BY <1>1, <1>3, <2>1, <2>2, CallSucceeds, CallFailsAtEndpoint
       DEF Controller!EndpointInitAllocate
<1>4. CASE Controller!UsbEndpointCreate(Device, e)
  <2> DEFINE x == [d EXCEPT !.endpoints = d.endpoints \cup {e}, !.endpointInit = FALSE,
                            !.temporaries = d.temporaries - 1]
             b == IF e = Controller!EndpointOrder[Len(Controller!EndpointOrder)]
                  THEN "PlugIn" ELSE "Queue"
  <2>1. Keeps(d, x) /\ ~ x.endpointInit
    BY <1>1 DEF Keeps, HasObjects, Controller!Devices
  <2>2. \/ Controller!Succeed(Device, Controller!EndpointExit(x, e), b)
        \/ Controller!FailEndpoint(Device, e, d)
    BY <1>4 DEF Controller!UsbEndpointCreate, Controller!UsbEndpointCreated
  <2> HIDE DEF x, b
  <2>3. Controller!EndpointExit(x, e) = x
    BY <2>1 DEF Controller!EndpointExit, Controller!ControlEndpointExit,
       Controller!InterruptEndpointExit, Controller!BulkInEndpointExit,
       Controller!BulkOutEndpointExit, Controller!CreateAndAddEndpointExit,
       Controller!FreeEndpointInit
  <2> QED
    BY <1>1, <1>4, <2>1, <2>2, <2>3, CallSucceeds, CallFailsAtEndpoint
       DEF Controller!UsbEndpointCreate
<1> QED
  BY <1>2, <1>3, <1>4 DEF Controller!CreateEndpoint

\* The steps of a start.
LEMMA StartEffect ==
    ASSUME Lifetime!ControllerInv, Controller!PlugInStep(Device)
    PROVE  HandlerEffect
<1> DEFINE d == dev[Device]
<1>1. d \in Controller!Devices /\ Keeps(d, d)
  BY LifetimeType DEF Keeps
<1>2. CASE Controller!AllocateConfigDescSet(Device)
  <2> DEFINE x == [d EXCEPT !.configDescSet = TRUE, !.temporaries = d.temporaries + 1]
  <2>1. Keeps(d, x)
    BY <1>1 DEF Keeps, HasObjects, Controller!Devices
  <2>2. \/ Controller!Succeed(Device, x, "ConfigDescriptor")
        \/ Controller!FailPlugIn(Device)
    BY <1>2 DEF Controller!AllocateConfigDescSet
  <2> HIDE DEF x
  <2> QED
    BY <1>2, <2>1, <2>2, CallSucceeds, CallFailsToPlugIn
       DEF Controller!AllocateConfigDescSet, Controller!StartCalls
<1>3. CASE Controller!AddConfigDescriptor(Device)
  <2>1. CASE Controller!Enter(Device, "bugcheck") /\ UNCHANGED dev
    <3>1. phase'[Device] = "bugcheck"
      BY <2>1, LifetimeType DEF Controller!Enter
    <3> QED
      BY <1>1, <1>3, <2>1, <3>1 DEF Controller!AddConfigDescriptor, Controller!Calls,
         HandlerEffect
  <2> QED
    BY <1>1, <1>3, <2>1, CallSucceeds, CallFailsToPlugIn
       DEF Controller!AddConfigDescriptor, Controller!StartCalls
<1>4. CASE Controller!UsbDeviceCreate(Device)
  <2>1. Keeps(d, [d EXCEPT !.UdecxUsbDeviceInit = "null", !.VirtualMbimDevice = "created"])
    BY <1>1 DEF Keeps, HasObjects, Controller!Devices
  <2> QED
    BY <1>4, <2>1, CallSucceeds, CallFailsToPlugIn
       DEF Controller!UsbDeviceCreate, Controller!StartCalls
<1>5. ASSUME NEW e \in Controller!Endpoints, Controller!CreateEndpoint(Device, e)
      PROVE  HandlerEffect
  BY <1>5, EndpointEffect
<1>6. CASE Controller!PlugIn(Device)
  <2>1. CASE Controller!Enter(Device, "D0")
    <3>1. phase'[Device] = "D0"
      BY <2>1, LifetimeType DEF Controller!Enter
    <3> QED
      BY <1>6, <3>1 DEF Controller!PlugIn, Controller!Calls, HandlerEffect
  <2> QED
    BY <1>6, <2>1, CallFailsToPlugIn DEF Controller!PlugIn, Controller!StartCalls
<1>7. {"Control", "Interrupt", "BulkIn", "BulkOut"} \subseteq Controller!Endpoints
  BY DEF Controller!Endpoints, Controller!EndpointOrder
<1> QED
  BY <1>2, <1>3, <1>4, <1>5, <1>6, <1>7
  DEF Controller!PlugInStep, Controller!UsbCreateControlEndpoint,
      Controller!UsbCreateInterruptEndpoint, Controller!UsbCreateBulkInEndpoint,
      Controller!UsbCreateBulkOutEndpoint, Controller!UsbDevice_CreateAndAddEndpoint

\* Whatever a handler of the lifecycle does.
LEMMA LifecycleEffect ==
    ASSUME Lifetime!ControllerInv, Lifecycle
    PROVE  HandlerEffect
<1>1. CASE Controller!DeviceAdd(Device)
  <2>1. phase'[Device] = "adding" /\ phase[Device] = "absent" /\ UNCHANGED dev
    BY <1>1, LifetimeType DEF Controller!DeviceAdd, Controller!Enter
  <2> QED
    BY <2>1 DEF HandlerEffect, Keeps
<1>2. CASE Controller!D0EntryFromD3Final(Device)
  <2> DEFINE d == dev[Device]
             e == [d EXCEPT !.AllowOnlyResetInterrupts = TRUE]
  <2>1. phase'[Device] = "starting" /\ phase[Device] \in {"added", "D3Final"}
    BY <1>2, LifetimeType DEF Controller!D0EntryFromD3Final, Controller!Enter
  <2>2. dev'[Device] = e
    BY <1>2, LifetimeType DEF Controller!D0EntryFromD3Final
  <2>3. Keeps(d, e)
    BY LifetimeType DEF Keeps, HasObjects, Controller!Devices
  <2> HIDE DEF e
  <2> QED
    BY <2>1, <2>2, <2>3 DEF HandlerEffect
<1> QED
  BY <1>1, <1>2, AdditionEffect, StartEffect DEF Lifecycle
-----------------------------------------------------------------------------
(* The channel.                                                             *)

\* With the lock in its threads' hands or free, the channel's part of the invariant
\* is the invariant of its own proofs.
LEMMA ChannelPartMeaning ==
    InProgressLock \in Threads \cup {NoThread} => (ChannelPart <=> PoolInv)
BY DEF ChannelPart, ChannelTypeOK, PoolInv, ChannelInv, IInv, TypeOK

\* The same after a step.
LEMMA ChannelPartMeaningNext ==
    (InProgressLock \in Threads \cup {NoThread} => (ChannelPart <=> PoolInv))'
BY ChannelPartMeaning, PTL

\* A step of the channel keeps it, and the lock stays with the threads.
LEMMA ChannelKeeps ==
    ASSUME ChannelPart, InProgressLock \in Threads \cup {NoThread}, [Next]_vars
    PROVE  /\ TypeOK /\ IInv
           /\ ChannelPart' /\ InProgressLock' \in Threads \cup {NoThread}
<1>1. PoolInv
  BY ChannelPartMeaning
<1>2. PoolInv'
  BY <1>1, ChannelStep, PoolStep DEF PoolInv
<1>3. TypeOK /\ IInv /\ TypeOK'
  BY <1>1, <1>2 DEF PoolInv, ChannelInv, IInv
<1> QED
  BY <1>2, <1>3, ChannelPartMeaningNext DEF TypeOK

\* What happens to the interrupt queue, or to a lock no thread holds, does not
\* matter to the rest.
LEMMA QueueKeeps ==
    ASSUME ChannelPart, InterruptUrbQueue' \in Seq(Buffers), readyNotify' \in BOOLEAN,
           UNCHANGED <<lists, usbContext, pool, powered, powerDowns, pc, interruptUrb,
                       control, history>>,
           \A t \in Threads : InProgressLock' = t <=> InProgressLock = t
    PROVE  ChannelPart'
<1> USE DEF lists, control, history
<1>1. ChannelTypeOK'
  BY DEF ChannelPart, ChannelTypeOK
<1>2. LockDiscipline'
  BY DEF ChannelPart, LockDiscipline
<1>3. RequestInService' /\ ListsAsChecked' /\ AtMostOneResponse'
  BY DEF ChannelPart, RequestInService, ListsAsChecked, AtMostOneResponse
<1>4. CommittedResponses' = CommittedResponses /\ Delivering' = Delivering
      /\ HeldByControl' = HeldByControl
  BY DEF CommittedResponses, Delivering, HeldByControl, Opening, At
<1>5. CreatedEntryIsLast'
  BY <1>4 DEF ChannelPart, CreatedEntryIsLast
<1>6. PoolAccounted'
  BY <1>4 DEF ChannelPart, PoolAccounted
<1> QED
  BY <1>1, <1>2, <1>3, <1>5, <1>6 DEF ChannelPart

\* A purged queue is empty.
LEMMA PurgeKeeps ==
    ASSUME ChannelPart, PurgeQueue,
           UNCHANGED <<lists, usbContext, pool, powered, powerDowns, pc, interruptUrb,
                       control, history>>,
           \A t \in Threads : InProgressLock' = t <=> InProgressLock = t
    PROVE  ChannelPart'
<1>1. InterruptUrbQueue' \in Seq(Buffers) /\ readyNotify' \in BOOLEAN
  BY EmptySeq DEF PurgeQueue
<1> QED
  BY <1>1, QueueKeeps

\* With no URB in the driver's hands Control holds no allocation, nobody delivers,
\* and what is live is on the lists.
LEMMA PoolOnLists ==
    ASSUME ChannelPart, Untouched \/ Stopped
    PROVE  /\ Delivering = {} /\ HeldByControl = 0 /\ pc[Control] = "idle"
           /\ Len(EncapsulatedCommandResponse) \in Nat /\ Len(AvailableInterrupt) \in Nat
           /\ pool = 2 * Len(EncapsulatedCommandResponse) + 2 * Len(AvailableInterrupt)
<1>1. pc[Control] = "idle" /\ Delivering = {}
  BY DEF Untouched, AllIdle, Stopped, InDriversHands, Delivering, At, Threads
<1>2. HeldByControl = 0
  BY <1>1, HeldValue
<1>3. Len(EncapsulatedCommandResponse) \in Nat /\ Len(AvailableInterrupt) \in Nat
  BY LenProperties DEF ChannelPart, ChannelTypeOK
<1>4. Cardinality(Delivering) = 0
  BY <1>1, FS_EmptySet
<1> QED
  BY <1>1, <1>2, <1>3, <1>4 DEF ChannelPart, PoolAccounted

\* While no URB is in the driver's hands, a thread that runs is a ready callback
\* on its way out, which takes nothing and adds nothing.
LEMMA QuietThread ==
    ASSUME ChannelPart, Untouched \/ Stopped, NEW t \in Threads, ThreadStep(t)
    PROVE  /\ Stopped /\ Stopped'
           /\ InProgressLock \in {t, NoThread}
           /\ UNCHANGED <<lists, readyNotify, pool, pc[Control], control, history>>
<1> USE DEF At, Goto
<1>1. pc[Control] = "idle" /\ Control \in Threads /\ pc \in [Threads -> Labels]
  BY PoolOnLists DEF Threads, ChannelPart, ChannelTypeOK
<1>2. ~ ControlStep
  BY <1>1 DEF ControlStep, CompleteControlUrb, AcquireToEnqueue, EnqueueResponse,
     EnqueueAvailableInterrupt, AcquireToGet, CheckResponse, RemoveResponse, CopyResponse
<1>3. ~ IoEvtInterruptUrbQueueReady(t)
  BY DEF IoEvtInterruptUrbQueueReady, Untouched, Stopped
<1>4. MbbTryDrainInterrupt(t) /\ UNCHANGED controllerVars
  BY <1>2, <1>3 DEF ThreadStep
<1>5. pc[t] # "idle" /\ t # Control
  BY <1>1, <1>4 DEF MbbTryDrainInterrupt, AcquireToDrain, CheckInterrupt,
     RetrieveNextRequest, RemoveInterrupt, DeliverInterrupt, GiveBackUrb
<1>6. Stopped /\ pc[t] \notin {"drain_remove", "deliver", "giveback"}
  BY <1>5 DEF Untouched, AllIdle, Stopped, InDriversHands
<1>7. /\ \E label \in {"drain_check", "drain_retrieve", "idle"} :
            pc' = [pc EXCEPT ![t] = label]
      /\ InProgressLock \in {t, NoThread}
      /\ UNCHANGED <<lists, readyNotify, pool, powered, control, history>>
  <2>1. CASE AcquireToDrain(t)
    BY <2>1 DEF AcquireToDrain, Acquire, framework
  <2>2. CASE CheckInterrupt(t)
    BY <1>5, <2>2 DEF CheckInterrupt, AfterDrain, framework, ChannelPart, LockDiscipline,
       LockedLabels
  <2>3. CASE RetrieveNextRequest(t)
    <3>1. pc[t] = "drain_retrieve" /\ InProgressLock = t
      BY <2>3 DEF RetrieveNextRequest, ChannelPart, LockDiscipline, LockedLabels
    <3>2. /\ pc' = [pc EXCEPT ![t] = "idle"]
          /\ UNCHANGED <<lists, readyNotify, pool, powered, control, history>>
      BY <1>5, <1>6, <2>3 DEF RetrieveNextRequest, AfterDrain, Stopped
    <3> QED
      BY <3>1, <3>2
  <2> QED
    BY <1>4, <1>6, <2>1, <2>2, <2>3
    DEF MbbTryDrainInterrupt, RemoveInterrupt, DeliverInterrupt, GiveBackUrb
<1>8. ~ InDriversHands'
  BY <1>1, <1>5, <1>6, <1>7 DEF Stopped, InDriversHands
<1>9. UNCHANGED dev
  BY <1>4 DEF controllerVars
<1>10. UNCHANGED pc[Control]
  BY <1>1, <1>5, <1>7
<1> QED
  BY <1>6, <1>7, <1>8, <1>9, <1>10 DEF Stopped
-----------------------------------------------------------------------------
(* The steps of the device keep the invariant.                              *)

\* The lock is the cleanup callback's or the threads'.
LEMMA NotCleaner ==
    ASSUME CleanupTells, cleanup \notin {"notifications", "responses"}
    PROVE  InProgressLock \in Threads \cup {NoThread}
BY DEF CleanupTells

\* Adding and starting a device that no URB has reached, or that was stopped.
LEMMA LifecycleKeeps ==
    ASSUME DeviceInv, Lifecycle
    PROVE  DeviceInv'
<1>1. cleanup = "none" /\ UNCHANGED <<vars, cleanup>>
  BY DEF Lifecycle
<1>2. Lifetime!ControllerInv'
  BY LifetimeStep DEF LifecycleStep, DeviceInv, Lifecycle
<1>3. ChannelPart'
  BY <1>1, NotCleaner, ChannelKeeps DEF DeviceInv
<1>4. HandlerEffect
  BY LifecycleEffect DEF DeviceInv
<1>5. PhaseTells'
  <2> USE DEF vars, lists, framework
  <2>1. CASE phase'[Device] = "D0"
    BY <2>1 DEF PhaseTells, In
  <2>2. CASE phase'[Device] # "D0"
    <3>1. Untouched \/ Stopped
      BY <1>4 DEF DeviceInv, PhaseTells, HandlerEffect
    <3>2. Keeps(dev[Device], dev'[Device]) /\ phase'[Device] # "gone"
      BY <1>4, <2>2 DEF HandlerEffect
    <3>3. Untouched => Untouched'
      BY <1>1, <3>2 DEF Untouched, Plugged, AllIdle, Keeps
    <3>4. Stopped => Stopped'
      BY <1>1, <3>2 DEF Stopped, InDriversHands, At, Keeps
    <3> QED
      BY <2>2, <3>1, <3>2, <3>3, <3>4 DEF PhaseTells, In
  <2> QED
    BY <2>1, <2>2
<1>6. CleanupTells'
  BY <1>1 DEF vars, lists, DeviceInv, CleanupTells
<1> QED
  BY <1>2, <1>3, <1>5, <1>6 DEF DeviceInv

\* A device that is plugged in, but not in D0, is stopped.
LEMMA PluggedButStopped ==
    ASSUME DeviceInv, Plugged, ~ In("D0")
    PROVE  Stopped
BY DEF DeviceInv, PhaseTells, Untouched, In

\* What the host does to a device that is stopped reaches its interrupt queue only.
LEMMA HostWaits ==
    ASSUME ChannelPart, ~ powered, Host
    PROVE  /\ InterruptUrbQueue' \in Seq(Buffers) /\ readyNotify' \in BOOLEAN
           /\ UNCHANGED <<lists, InProgressLock, usbContext, pool, powered, powerDowns,
                          pc, interruptUrb, control, history>>
<1>1. InterruptUrbQueue \in Seq(Buffers) /\ readyNotify \in BOOLEAN
  BY DEF ChannelPart, ChannelTypeOK
<1>2. ASSUME NEW u \in Requests, IoEvtControlUrb(u) PROVE FALSE
  BY <1>2 DEF IoEvtControlUrb, RetrieveSetupFails, Unrecognized, GetNtbParameters,
     SetNtbInputSize, SetNtbFormat, ResetAdapter, RejectFetch, SendWithoutResponse,
     GetEncapsulatedCommand, MbbOpen, MbbCommand, Dispatch
<1>3. ASSUME NEW b \in UrbBuffers, PostInterruptUrb(b)
      PROVE  InterruptUrbQueue' \in Seq(Buffers) /\ readyNotify' \in BOOLEAN
  <2>1. b \in Buffers
    BY RequestsAssumption
  <2> QED
    BY <1>1, <1>3, <2>1, AppendProperties DEF PostInterruptUrb
<1>4. ASSUME NEW i \in 1..MaxInterruptUrbs, CancelInterruptUrb(i)
      PROVE  InterruptUrbQueue' \in Seq(Buffers) /\ readyNotify' \in BOOLEAN
  BY <1>1, <1>4 DEF CancelInterruptUrb, Buffers
<1> QED
  BY <1>2, <1>3, <1>4 DEF Host, PostInterruptUrb, CancelInterruptUrb

\* The host may submit URBs as long as the device is plugged in.
LEMMA HostKeeps ==
    ASSUME DeviceInv, HostStep
    PROVE  DeviceInv'
<1>1. Plugged /\ Host /\ UNCHANGED <<controllerVars, cleanup>>
  BY DEF HostStep
<1>2. Lifetime!ControllerInv'
  BY <1>1, LifetimeStep DEF LifecycleStep, DeviceInv
<1>3. CASE ~ In("D0")
  <2>1. Stopped /\ phase[Device] # "gone"
    BY <1>1, <1>3, PluggedButStopped DEF DeviceInv, PhaseTells, In
  <2>2. /\ InterruptUrbQueue' \in Seq(Buffers) /\ readyNotify' \in BOOLEAN
        /\ UNCHANGED <<lists, InProgressLock, usbContext, pool, powered, powerDowns,
                       pc, interruptUrb, control, history>>
    BY <1>1, <2>1, HostWaits DEF DeviceInv, Stopped
  <2>3. ChannelPart'
    BY <2>2, QueueKeeps DEF DeviceInv
  <2>4. Stopped'
    BY <1>1, <2>1, <2>2 DEF controllerVars, Stopped, InDriversHands, At
  <2>5. PhaseTells'
    BY <1>1, <2>1, <2>4 DEF controllerVars, PhaseTells, In
  <2>6. CleanupTells'
    BY <1>1, <2>2 DEF controllerVars, lists, DeviceInv, CleanupTells
  <2> QED
    BY <1>2, <2>3, <2>5, <2>6 DEF DeviceInv
<1>4. CASE In("D0")
  <2>1. cleanup = "none"
    BY <1>4 DEF DeviceInv, CleanupTells, In
  <2>2. ChannelPart' /\ InProgressLock' \in Threads \cup {NoThread}
    BY <1>1, <2>1, NotCleaner, ChannelKeeps DEF DeviceInv, Next
  <2>3. PhaseTells'
    BY <1>1, <1>4 DEF controllerVars, PhaseTells, In
  <2>4. CleanupTells'
    BY <1>1, <2>1, <2>2, DeviceAssumption DEF CleanupTells, CleanupSteps
  <2> QED
    BY <1>2, <2>2, <2>3, <2>4 DEF DeviceInv
<1> QED
  BY <1>3, <1>4

\* No thread runs when the device is gone.
LEMMA ThreadsNeedTheDevice ==
    ASSUME DeviceInv, NEW t \in Threads, ThreadStep(t)
    PROVE  phase[Device] # "gone"
<1> SUFFICES ASSUME phase[Device] = "gone" PROVE FALSE
  OBVIOUS
<1>1. AllIdle /\ ~ (powered /\ readyNotify)
  BY DEF DeviceInv, PhaseTells, In
<1> QED
  BY <1>1 DEF AllIdle, At, ThreadStep, ControlStep, CompleteControlUrb, AcquireToEnqueue,
     EnqueueResponse, EnqueueAvailableInterrupt, AcquireToGet, CheckResponse,
     RemoveResponse, CopyResponse, IoEvtInterruptUrbQueueReady, MbbTryDrainInterrupt,
     AcquireToDrain, CheckInterrupt, RetrieveNextRequest, RemoveInterrupt,
     DeliverInterrupt, GiveBackUrb

\* The threads run on, whatever becomes of the device.
LEMMA ThreadKeeps ==
    ASSUME DeviceInv, NEW t \in Threads, ThreadStep(t)
    PROVE  DeviceInv'
<1>1. UNCHANGED <<controllerVars, cleanup>>
  BY DEF ThreadStep
<1>2. Next
  BY DEF ThreadStep, Next, IoEvtInterruptUrbQueueReady
<1>3. Lifetime!ControllerInv'
  BY <1>1, LifetimeStep DEF LifecycleStep, DeviceInv
<1>4. phase[Device] # "gone"
  BY ThreadsNeedTheDevice
<1>5. CASE phase[Device] # "D0"
  <2>1. /\ Stopped' /\ InProgressLock \in {t, NoThread} /\ UNCHANGED lists
    BY <1>4, <1>5, QuietThread DEF DeviceInv, PhaseTells
  <2>2. ChannelPart' /\ InProgressLock' \in Threads \cup {NoThread}
    BY <1>2, <2>1, ChannelKeeps DEF DeviceInv
  <2>3. cleanup \notin {"notifications", "responses"}
    BY <2>1, DeviceAssumption DEF DeviceInv, CleanupTells
  <2>4. PhaseTells'
    BY <1>1, <1>4, <2>1 DEF controllerVars, PhaseTells, In
  <2>5. CleanupTells'
    BY <1>1, <2>1, <2>2, <2>3, DeviceAssumption
       DEF controllerVars, lists, DeviceInv, CleanupTells
  <2> QED
    BY <1>3, <2>2, <2>4, <2>5 DEF DeviceInv
<1>6. CASE phase[Device] = "D0"
  <2>1. cleanup = "none"
    BY <1>6 DEF DeviceInv, CleanupTells
  <2>2. ChannelPart' /\ InProgressLock' \in Threads \cup {NoThread}
    BY <1>2, <2>1, NotCleaner, ChannelKeeps DEF DeviceInv
  <2>3. PhaseTells'
    BY <1>1, <1>6 DEF controllerVars, PhaseTells, In
  <2>4. CleanupTells'
    BY <1>1, <2>1, <2>2, DeviceAssumption DEF CleanupTells, CleanupSteps
  <2> QED
    BY <1>3, <2>2, <2>3, <2>4 DEF DeviceInv
<1> QED
  BY <1>5, <1>6

\* The queues stop, and start again.
LEMMA PowerKeeps ==
    ASSUME DeviceInv, StopQueues \/ ResumeFromLowPower
    PROVE  DeviceInv'
<1>1. /\ Next /\ cleanup = "none" /\ cleanup' = "none"
  BY DEF StopQueues, ResumeFromLowPower, Next, DeviceInv, CleanupTells, In
<1>2. phase'[Device] = "D0"
  BY LifetimeType DEF StopQueues, ResumeFromLowPower, controllerVars, DeviceInv, In,
     Controller!LowPower, Controller!Enter
<1>3. Lifetime!ControllerInv'
  BY LifetimeStep DEF LifecycleStep, StopQueues, ResumeFromLowPower, DeviceInv
<1>4. ChannelPart' /\ InProgressLock' \in Threads \cup {NoThread}
  BY <1>1, NotCleaner, ChannelKeeps DEF DeviceInv
<1>5. PhaseTells'
  BY <1>2 DEF PhaseTells, In
<1>6. CleanupTells'
  BY <1>1, <1>4, DeviceAssumption DEF CleanupTells, CleanupSteps
<1> QED
  BY <1>3, <1>4, <1>5, <1>6 DEF DeviceInv

\* A working device has its objects, so it is Stopped when it leaves D0 ...
LEMMA LowPowerKeeps ==
    ASSUME DeviceInv, ExitToLowPower
    PROVE  DeviceInv'
<1>1. /\ phase[Device] = "D0" /\ cleanup = "none" /\ ~ powered /\ ~ InDriversHands
      /\ Controller!LowPower(Device) /\ UNCHANGED <<vars, cleanup>>
  BY DEF ExitToLowPower, In, DeviceInv, CleanupTells
<1>2. phase'[Device] = "Dx" /\ UNCHANGED dev
  BY <1>1, LifetimeType DEF DeviceInv, Controller!LowPower, Controller!Enter
<1>3. Lifetime!ControllerInv'
  BY <1>1, LifetimeStep DEF LifecycleStep, DeviceInv
<1>4. ChannelPart'
  BY <1>1, NotCleaner, ChannelKeeps DEF DeviceInv
<1>5. Stopped'
  BY <1>1, <1>2, LifetimeTells DEF DeviceInv, Stopped, InDriversHands, At, vars, framework
<1>6. PhaseTells'
  BY <1>2, <1>5 DEF PhaseTells, In
<1>7. CleanupTells'
  BY <1>1 DEF vars, DeviceInv, CleanupTells
<1> QED
  BY <1>3, <1>4, <1>6, <1>7 DEF DeviceInv

\* ... or is stopped for good, whether or not it could be plugged out.
LEMMA D3FinalKeeps ==
    ASSUME DeviceInv, ExitToD3Final
    PROVE  DeviceInv'
<1>1. /\ phase[Device] = "D0" /\ cleanup = "none" /\ ~ powered /\ ~ InDriversHands
      /\ Controller!D0ExitToD3Final(Device) /\ UNCHANGED <<ChannelExceptQueue, cleanup>>
  BY DEF ExitToD3Final, Controller!D0ExitToD3Final, DeviceInv, CleanupTells
<1>2. phase'[Device] = "D3Final"
  BY <1>1, LifetimeType DEF DeviceInv, Controller!D0ExitToD3Final, Controller!Enter
<1>3. Lifetime!ControllerInv'
  BY <1>1, LifetimeStep DEF LifecycleStep, DeviceInv
<1>4. ChannelPart'
  <2>1. CASE PurgeQueue
    BY <1>1, <2>1, PurgeKeeps DEF ChannelExceptQueue, DeviceInv
  <2>2. CASE UNCHANGED <<InterruptUrbQueue, readyNotify>>
    <3>1. UNCHANGED vars
      BY <1>1, <2>2 DEF ChannelExceptQueue, vars, framework
    <3> QED
      BY <1>1, <3>1, NotCleaner, ChannelKeeps DEF DeviceInv
  <2> QED
    BY <2>1, <2>2 DEF ExitToD3Final
<1>5. HasObjects(dev'[Device])
  <2>1. HasObjects(dev[Device]) /\ dev[Device] \in Controller!Devices
    BY <1>1, LifetimeTells, LifetimeType DEF DeviceInv
  <2>2. CASE UNCHANGED dev
    BY <2>1, <2>2
  <2>3. CASE dev' = [dev EXCEPT ![Device].VirtualMbimDevice = "deleted",
                                ![Device].endpoints = {}]
    <3>1. dev'[Device] = [dev[Device] EXCEPT !.VirtualMbimDevice = "deleted",
                                             !.endpoints = {}]
      BY <2>3, LifetimeType DEF DeviceInv
    <3> QED
      BY <2>1, <3>1 DEF HasObjects, Controller!Devices
  <2> QED
    BY <1>1, <2>2, <2>3 DEF Controller!D0ExitToD3Final
<1>6. Stopped'
  BY <1>1, <1>5 DEF Stopped, InDriversHands, At, ChannelExceptQueue
<1>7. PhaseTells'
  BY <1>2, <1>6 DEF PhaseTells, In
<1>8. CleanupTells'
  BY <1>1 DEF ChannelExceptQueue, DeviceInv, CleanupTells
<1> QED
  BY <1>3, <1>4, <1>7, <1>8 DEF DeviceInv

\* A device that may be removed was never reached or is stopped.
LEMMA RemovableTells ==
    ASSUME DeviceInv, phase[Device] \in {"failed", "added", "D3Final"}
    PROVE  Untouched \/ Stopped
BY DEF DeviceInv, PhaseTells

\* What Remove makes of the device.
LEMMA RemoveEffect ==
    ASSUME Lifetime!ControllerInv, Controller!Remove(Device)
    PROVE  /\ phase[Device] \in {"failed", "added", "D3Final"}
           /\ \/ phase'[Device] = "gone" /\ ~ Plugged'
              \/ phase'[Device] = "bugcheck" /\ UNCHANGED dev /\ ~ dev[Device].InProgressLock
<1>1. phase[Device] \in {"failed", "added", "D3Final"}
  BY DEF Controller!Remove
<1>2. CASE dev[Device].name # Controller!NoName /\ ~ dev[Device].InProgressLock
  BY <1>1, <1>2, LifetimeType DEF Controller!Remove, Controller!Enter
<1>3. CASE ~ (dev[Device].name # Controller!NoName /\ ~ dev[Device].InProgressLock)
  <2>1. phase'[Device] = "gone"
    BY <1>3, LifetimeType DEF Controller!Remove, Controller!Enter
  <2> DEFINE init == IF dev[Device].UsbContext /\ dev[Device].UdecxUsbDeviceInit # "null"
                     THEN "freed" ELSE dev[Device].UdecxUsbDeviceInit
             d == [Controller!NewDevice EXCEPT
                     !.UdecxUsbDeviceInit = init,
                     !.temporaries = dev[Device].temporaries]
  <2>2. dev' = [dev EXCEPT ![Device] = d]
    BY <1>3 DEF Controller!Remove
  <2> HIDE DEF init
  <2>3. d.VirtualMbimDevice = "null"
    BY DEF Controller!NewDevice
  <2> HIDE DEF d
  <2>4. dev'[Device].VirtualMbimDevice = "null"
    BY <2>2, <2>3, LifetimeType
  <2> QED
    BY <1>1, <2>1, <2>4 DEF Plugged
<1> QED
  BY <1>2, <1>3

\* A device without lists goes, or brings the system down for want of the lock.
LEMMA RemoveWithoutListsKeeps ==
    ASSUME DeviceInv, RemoveWithoutLists
    PROVE  DeviceInv'
<1>1. /\ Controller!Remove(Device) /\ ~ dev[Device].InProgressLock
      /\ UNCHANGED <<vars, cleanup>> /\ cleanup = "none"
      /\ phase[Device] \in {"failed", "added", "D3Final"}
  BY DEF RemoveWithoutLists, Removable, DeviceInv, CleanupTells
<1>2. Lifetime!ControllerInv'
  BY <1>1, LifetimeStep DEF LifecycleStep, DeviceInv
<1>3. ChannelPart'
  BY <1>1, NotCleaner, ChannelKeeps DEF DeviceInv
<1>4. Untouched
  BY <1>1, RemovableTells DEF Stopped, HasObjects
<1>5. \/ phase'[Device] = "gone" /\ ~ Plugged'
      \/ phase'[Device] = "bugcheck" /\ UNCHANGED dev
  BY <1>1, RemoveEffect DEF DeviceInv
<1>6. PhaseTells'
  BY <1>1, <1>4, <1>5 DEF PhaseTells, In, Untouched, AllIdle, Plugged, vars, lists, framework
<1>7. CleanupTells'
  BY <1>1 DEF vars, DeviceInv, CleanupTells
<1> QED
  BY <1>2, <1>3, <1>6, <1>7 DEF DeviceInv

\* The cleanup callback takes the lock when no thread has it ...
LEMMA BeginCleanupKeeps ==
    ASSUME DeviceInv, BeginCleanup
    PROVE  DeviceInv'
<1> USE DEF lists, control, history
<1>1. /\ phase[Device] \in {"failed", "added", "D3Final"} /\ cleanup = "none"
      /\ dev[Device].InProgressLock /\ InProgressLock = NoThread
      /\ InProgressLock' = Cleaner /\ cleanup' = "notifications" /\ PurgeQueue
      /\ UNCHANGED <<lists, usbContext, pool, powered, powerDowns, pc, interruptUrb,
                     control, history, controllerVars>>
  BY DEF BeginCleanup, Removable, CleanupAcquire, Acquire
<1>2. Lifetime!ControllerInv'
  BY <1>1, LifetimeStep DEF LifecycleStep, DeviceInv
<1>3. ChannelPart'
  BY <1>1, PurgeKeeps, DeviceAssumption, ThreadsAssumption DEF DeviceInv
<1>4. Untouched' \/ Stopped'
  BY <1>1, RemovableTells DEF Untouched, Stopped, AllIdle, Plugged, InDriversHands, At,
     PurgeQueue, controllerVars
<1>5. PhaseTells'
  BY <1>1, <1>4 DEF controllerVars, PhaseTells, In
<1>6. CleanupTells'
  BY <1>1 DEF controllerVars, CleanupTells, CleanupSteps
<1> QED
  BY <1>2, <1>3, <1>5, <1>6 DEF DeviceInv

\* ... and frees every entry of a list nobody can look at.
LEMMA FreeingKeeps ==
    ASSUME DeviceInv, CleanupNotifications \/ CleanupResponses
    PROVE  DeviceInv'
<1> USE DEF lists, control, history, framework
<1> DEFINE R == EncapsulatedCommandResponse
           A == AvailableInterrupt
<1>1. /\ cleanup \in {"notifications", "responses"} /\ InProgressLock = Cleaner
      /\ phase[Device] \in {"failed", "added", "D3Final"}
      /\ dev[Device].InProgressLock
      /\ cleanup = "responses" => A = <<>>
  BY DEF CleanupNotifications, CleanupResponses, DeviceInv, CleanupTells
<1>2. UNCHANGED <<usbContext, framework, pc, interruptUrb, control, history, controllerVars>>
  BY DEF CleanupNotifications, CleanupResponses
<1>3. Untouched \/ Stopped
  BY <1>1, RemovableTells
<1>4. \/ /\ A' = <<>> /\ R' = R /\ pool' = pool - 2 * Len(A)
         /\ InProgressLock' = Cleaner /\ cleanup' = "responses"
      \/ /\ R' = <<>> /\ A' = A /\ A = <<>> /\ pool' = pool - 2 * Len(R)
         /\ InProgressLock' = NoThread /\ cleanup' = "destroy"
  BY <1>1 DEF CleanupNotifications, CleanupResponses, FreedBy
<1>5. Lifetime!ControllerInv'
  BY <1>2, LifetimeStep DEF LifecycleStep, DeviceInv
<1>6. /\ Len(R) \in Nat /\ Len(A) \in Nat /\ Len(<<>>) = 0
      /\ pool = 2 * Len(R) + 2 * Len(A)
      /\ Delivering = {} /\ HeldByControl = 0 /\ pc[Control] = "idle"
  BY <1>3, PoolOnLists, EmptySeq DEF DeviceInv
<1>7. pool' = 2 * Len(R') + 2 * Len(A') /\ pool' \in Int
  BY <1>4, <1>6
<1>8. \A t \in Threads : pc[t] \notin LockedLabels
  BY <1>1, DeviceAssumption DEF DeviceInv, ChannelPart, LockDiscipline
<1>9. ChannelPart'
  <2>1. ChannelTypeOK'
    <3>1. R' \in Seq(Responses) /\ A' \in Seq({"OPEN_DONE", "COMMAND_DONE"})
      BY <1>4, EmptySeq DEF DeviceInv, ChannelPart, ChannelTypeOK
    <3> QED
      BY <1>2, <1>7, <3>1 DEF DeviceInv, ChannelPart, ChannelTypeOK
  <2>2. LockDiscipline'
    BY <1>2, <1>4, <1>8, DeviceAssumption, ThreadsAssumption DEF LockDiscipline
  <2>3. RequestInService' /\ AtMostOneResponse' /\ CreatedEntryIsLast'
    BY <1>2, <1>6 DEF DeviceInv, ChannelPart, RequestInService, AtMostOneResponse,
       CreatedEntryIsLast
  <2>4. ListsAsChecked'
    BY <1>2, <1>6, <1>8 DEF ListsAsChecked, LockedLabels
  <2>5. PoolAccounted'
    <3>1. Delivering' = {} /\ HeldByControl' = 0
      BY <1>2, <1>6, HeldValueNext DEF Delivering, At
    <3>2. Cardinality(Delivering') = 0
      BY <3>1, FS_EmptySet
    <3>3. Len(R') \in Nat /\ Len(A') \in Nat
      BY <1>4, <1>6
    <3> QED
      BY <1>7, <3>1, <3>2, <3>3 DEF PoolAccounted
  <2> QED
    BY <2>1, <2>2, <2>3, <2>4, <2>5 DEF ChannelPart
<1>10. Untouched' \/ Stopped'
  BY <1>2, <1>3, <1>4, <1>6 DEF Untouched, Stopped, AllIdle, Plugged, InDriversHands, At,
     controllerVars
<1>11. PhaseTells'
  BY <1>1, <1>2, <1>10 DEF controllerVars, PhaseTells, In
<1>12. CleanupTells'
  BY <1>1, <1>2, <1>4, DeviceAssumption DEF controllerVars, CleanupTells, CleanupSteps
<1> QED
  BY <1>5, <1>9, <1>11, <1>12 DEF DeviceInv

\* When the objects go, all callbacks have returned and all memory is freed.
LEMMA DestroyKeeps ==
    ASSUME DeviceInv, Destroy
    PROVE  DeviceInv'
<1>1. /\ cleanup = "destroy" /\ cleanup' = "none" /\ AllIdle
      /\ Controller!Remove(Device) /\ UNCHANGED vars
      /\ dev[Device].InProgressLock
      /\ AvailableInterrupt = <<>> /\ EncapsulatedCommandResponse = <<>>
  BY DEF Destroy, AllIdle, At, DeviceInv, CleanupTells
<1>2. Lifetime!ControllerInv'
  BY <1>1, LifetimeStep DEF LifecycleStep, DeviceInv
<1>3. ChannelPart'
  BY <1>1, NotCleaner, ChannelKeeps DEF DeviceInv
<1>4. phase'[Device] = "gone" /\ ~ Plugged' /\ (Untouched \/ Stopped)
  BY <1>1, RemoveEffect, RemovableTells DEF DeviceInv
<1>5. pool = 0 /\ ~ (powered /\ readyNotify)
  <2>1. Len(<<>>) = 0
    BY EmptySeq
  <2> QED
    BY <1>1, <1>4, <2>1, PoolOnLists DEF DeviceInv, Untouched, Stopped
<1>6. PhaseTells'
  BY <1>1, <1>4, <1>5 DEF PhaseTells, In, AllIdle, vars, framework
<1>7. CleanupTells'
  BY <1>1 DEF vars, DeviceInv, CleanupTells, CleanupSteps
<1> QED
  BY <1>2, <1>3, <1>6, <1>7 DEF DeviceInv
-----------------------------------------------------------------------------
(* Theorems.                                                                *)

\* The invariant holds before the device is added ...
LEMMA DeviceInitInv == DeviceInit => DeviceInv
<1> SUFFICES ASSUME DeviceInit PROVE DeviceInv
  OBVIOUS
<1>1. Init /\ Controller!Init /\ cleanup = "none"
  BY DEF DeviceInit
<1>2. Lifetime!ControllerInv
  <2>1. Lifetime!Init
    BY <1>1 DEF Controller!Init, Lifetime!Init, Controller!NewDevice, Lifetime!NewDevice,
       Controller!NoName, Lifetime!NoName
  <2> QED
    BY <2>1, DeviceAssumption, Lifetime!ControllerInit
<1>3. ChannelPart /\ InProgressLock = NoThread
  <2>1. PoolInv /\ InProgressLock = NoThread
    BY <1>1, PoolInit DEF Init
  <2> QED
    BY <2>1, ChannelPartMeaning
<1>4. Untouched /\ phase[Device] = "absent"
  BY <1>1 DEF Init, Controller!Init, Controller!NewDevice, Untouched, AllIdle, Plugged
<1>5. PhaseTells
  BY <1>4 DEF PhaseTells, In
<1>6. CleanupTells
  BY <1>1, <1>3, DeviceAssumption DEF CleanupTells, CleanupSteps
<1> QED
  BY <1>2, <1>3, <1>5, <1>6 DEF DeviceInv

\* ... and every step of the device and its channel keeps it.
LEMMA DeviceNextInv == DeviceInv /\ [DeviceNext]_deviceVars => DeviceInv'
<1> SUFFICES ASSUME DeviceInv, [DeviceNext]_deviceVars PROVE DeviceInv'
  OBVIOUS
<1>1. CASE Cleanup
  BY <1>1, RemoveWithoutListsKeeps, BeginCleanupKeeps, FreeingKeeps, DestroyKeeps
     DEF Cleanup
<1>2. CASE UNCHANGED deviceVars
  <2>1. UNCHANGED <<vars, controllerVars, cleanup>>
    BY <1>2 DEF deviceVars
  <2>2. Lifetime!ControllerInv'
    BY <2>1, LifetimeStep DEF LifecycleStep, DeviceInv
  <2>3. InterruptUrbQueue \in Seq(Buffers) /\ readyNotify \in BOOLEAN
    BY DEF DeviceInv, ChannelPart, ChannelTypeOK
  <2>4. ChannelPart'
    BY <2>1, <2>3, QueueKeeps DEF DeviceInv, vars, framework
  <2>5. PhaseTells'
    BY <2>1 DEF DeviceInv, vars, lists, framework, controllerVars, PhaseTells, In, Untouched,
       Stopped, AllIdle, Plugged, InDriversHands, At
  <2>6. CleanupTells'
    BY <2>1 DEF DeviceInv, vars, lists, controllerVars, CleanupTells
  <2> QED
    BY <2>2, <2>4, <2>5, <2>6 DEF DeviceInv
<1> QED
  BY <1>1, <1>2, LifecycleKeeps, HostKeeps, ThreadKeeps, PowerKeeps, LowPowerKeeps,
     D3FinalKeeps DEF DeviceNext

\* The invariant of the device with its channel.
THEOREM DeviceInvariance == DeviceSpec => []DeviceInv
BY DeviceInitInv, DeviceNextInv, PTL DEF DeviceSpec

\* Both components are well-typed, and the cleanup callback is the only other
\* holder of the lock.
THEOREM DeviceTypeCorrect == DeviceSpec => []DeviceTypeOK
<1>1. DeviceInv => DeviceTypeOK
  <2> SUFFICES ASSUME DeviceInv PROVE DeviceTypeOK
    OBVIOUS
  <2>1. Controller!TypeOK
    BY LifetimeType DEF DeviceInv
  <2>2. InProgressLock # Cleaner => TypeOK
    BY DEF DeviceInv, CleanupTells, ChannelPart, ChannelTypeOK, TypeOK
  <2> QED
    BY <2>1, <2>2 DEF DeviceTypeOK, DeviceInv, CleanupTells
<1> QED
  BY <1>1, DeviceInvariance, PTL

\* However its start, its stop or its restart ended, a device that is gone leaves
\* no pool memory behind and freed none twice.
THEOREM NothingStaysBehind == DeviceSpec => []NothingLeftBehind
<1>1. DeviceInv => NothingLeftBehind
  BY DEF DeviceInv, PhaseTells, NothingLeftBehind
<1> QED
  BY <1>1, DeviceInvariance, PTL

\* No handler runs without the contexts, the lock and the lists it uses untested,
\* and a control URB is served in D0 only.
THEOREM HandlersAreSafe == DeviceSpec => []HandlersHaveTheirObjects
<1>1. DeviceInv => HandlersHaveTheirObjects
  <2> SUFFICES ASSUME DeviceInv PROVE HandlersHaveTheirObjects
    OBVIOUS
  <2>1. ASSUME NEW t \in Threads, pc[t] # "idle"
        PROVE  HasObjects(dev[Device])
    <3>1. phase[Device] = "D0" \/ Stopped
      BY <2>1 DEF DeviceInv, PhaseTells, In, Untouched, AllIdle
    <3> QED
      BY <3>1, LifetimeTells DEF DeviceInv, Stopped
  <2>2. pc[Control] # "idle" => phase[Device] = "D0"
    BY DEF DeviceInv, PhaseTells, In, Untouched, AllIdle, Stopped, InDriversHands, At, Threads
  <2> QED
    BY <2>1, <2>2, LifetimeTells DEF DeviceInv, HandlersHaveTheirObjects, HasObjects, In, At
<1> QED
  BY <1>1, DeviceInvariance, PTL

\* The cleanup callback walks the lists alone, although a ready callback may be
\* spinning on the lock or on its way out.
THEOREM CleanupHasListsAlone == DeviceSpec => []CleanupAlone
<1>1. DeviceInv => CleanupAlone
  BY DeviceAssumption DEF DeviceInv, CleanupTells, ChannelPart, LockDiscipline, CleanupAlone
<1> QED
  BY <1>1, DeviceInvariance, PTL
-----------------------------------------------------------------------------
(* The lifecycle, with the channel inside.                                   *)

\* Neither the channel nor the power transitions that wait for it do more to the
\* lifecycle than its own steps do.
LEMMA DeviceStepIsLifecycleStep == [DeviceNext]_deviceVars => LifecycleStep
BY DEF DeviceNext, deviceVars, LifecycleStep, Lifecycle, HostStep, ThreadStep, StopQueues,
       ExitToLowPower, ResumeFromLowPower, ExitToD3Final, Cleanup, RemoveWithoutLists,
       BeginCleanup, CleanupNotifications, CleanupResponses, Destroy

\* The device with its channel follows the lifecycle that UdeController describes,
\* although its channel decides when a stop, a removal or an end may come.
THEOREM DeviceFollowsLifecycle == DeviceSpec => Lifetime!Spec
<1>1. DeviceInit => Lifetime!Init
  BY DEF DeviceInit, Controller!Init, Lifetime!Init, Controller!NewDevice,
     Lifetime!NewDevice, Controller!NoName, Lifetime!NoName
<1>2. [DeviceNext]_deviceVars => [Lifetime!Next]_Lifetime!vars
  BY DeviceStepIsLifecycleStep, SameStep
<1> QED
  BY <1>1, <1>2, PTL DEF DeviceSpec, Lifetime!Spec

\* So the system sees a controller whose device is plugged in at most once, and
\* complete, whatever its channel is doing.
THEOREM DeviceKeepsItsPromises ==
    DeviceSpec => [](Lifetime!PluggedIsComplete /\ Lifetime!NothingLeaks)
                  /\ Lifetime!ImplementsPresence
<1>1. Lifetime!Spec => []Lifetime!PluggedIsComplete
  BY DeviceAssumption, Lifetime!PluggedInComplete
<1>2. Lifetime!Spec => []Lifetime!NothingLeaks
  BY DeviceAssumption, Lifetime!NothingIsLeaked
<1>3. Lifetime!Spec => Lifetime!ImplementsPresence
  BY DeviceAssumption, Lifetime!PresenceIsImplemented
<1> QED
  BY <1>1, <1>2, <1>3, DeviceFollowsLifecycle, PTL
-----------------------------------------------------------------------------
(* What the channel promises its host, from the addition of the device to    *)
(* its removal.                                                             *)

\* A step of the channel itself, or of the lifecycle around it.
Channels ==
    /\ ChannelInv
    /\ [Next]_vars
    /\ NothingFreed' => NothingFreed
    /\ NothingFreed' \/ UNCHANGED vars

\* A step that meets no control URB and no delivery, whatever it does to the
\* queue and the lists.
Quiet ==
    /\ pc[Control] = "idle"
    /\ UNCHANGED <<pc[Control], control, history>>
    /\ Delivering = {} /\ Delivering' = {}
    /\ NothingFreed' => (NothingFreed /\ UNCHANGED lists)
    /\ InterruptUrbQueue' = <<>> \/ AvailableInterrupt' = <<>> \/ ~ powered'

\* A device that is gone is not started again.
LEMMA GoneIsFinal ==
    ASSUME Lifetime!ControllerInv, Lifecycle
    PROVE  phase[Device] # "gone"
BY LifecycleEffect DEF HandlerEffect

\* With the lock in its threads' hands or free, the channel's own invariant holds.
LEMMA ChannelsOwnInv ==
    ASSUME ChannelPart, InProgressLock \in Threads \cup {NoThread}
    PROVE  ChannelInv
BY ChannelPartMeaning DEF PoolInv

\* Without a cleanup under way a step of the channel is one of Channels ...
LEMMA OrdinaryDeviceStep ==
    ASSUME DeviceInv, cleanup = "none", [Next]_vars, In("gone") => In("gone")',
           (~ In("gone")' /\ cleanup' = "none") \/ UNCHANGED vars
    PROVE  Channels
<1>1. InProgressLock \in Threads \cup {NoThread}
  BY NotCleaner DEF DeviceInv
<1>2. ChannelInv
  BY <1>1, ChannelsOwnInv DEF DeviceInv
<1> QED
  BY <1>2 DEF Channels, NothingFreed

\* ... and whatever else a step of the device is, the channel is quiet.
LEMMA DeviceStepOnChannel ==
    ASSUME DeviceInv, [DeviceNext]_deviceVars
    PROVE  Channels \/ Quiet
<1>1. CASE Lifecycle
  <2>1. phase[Device] # "gone" /\ cleanup = "none" /\ UNCHANGED vars
    BY <1>1, GoneIsFinal DEF DeviceInv, Lifecycle
  <2> QED
    BY <2>1, OrdinaryDeviceStep DEF In
<1>2. ASSUME ChannelPart, Untouched \/ Stopped
      PROVE  Delivering = {} /\ pc[Control] = "idle"
  BY <1>2, PoolOnLists
<1>3. CASE HostStep
  <2>1. Plugged /\ Host /\ UNCHANGED <<controllerVars, cleanup>>
    BY <1>3 DEF HostStep
  <2>2. CASE In("D0")
    <3>1. cleanup = "none"
      BY <2>2 DEF DeviceInv, CleanupTells, In
    <3> QED
      BY <2>1, <2>2, <3>1, OrdinaryDeviceStep DEF Next, In, controllerVars
  <2>3. CASE ~ In("D0")
    <3>1. Stopped
      BY <2>1, <2>3, PluggedButStopped
    <3>2. UNCHANGED <<lists, powered, pc, control, history>>
      BY <2>1, <3>1, HostWaits DEF DeviceInv, Stopped
    <3> QED
      BY <1>2, <2>1, <3>1, <3>2
         DEF DeviceInv, Quiet, NothingFreed, In, controllerVars, Stopped, Delivering, At
  <2> QED
    BY <2>2, <2>3
<1>4. ASSUME NEW t \in Threads, ThreadStep(t)
      PROVE  Channels \/ Quiet
  <2>1. Next /\ UNCHANGED <<controllerVars, cleanup>>
    BY <1>4 DEF ThreadStep, Next, IoEvtInterruptUrbQueueReady
  <2>2. CASE cleanup = "none"
    BY <1>4, <2>1, <2>2, ThreadsNeedTheDevice, OrdinaryDeviceStep DEF In, controllerVars
  <2>3. CASE cleanup # "none"
    <3>1. Untouched \/ Stopped
      BY <2>3, RemovableTells DEF DeviceInv, CleanupTells
    <3>2. Stopped' /\ UNCHANGED <<lists, pc[Control], control, history>>
      BY <1>4, <3>1, QuietThread DEF DeviceInv
    <3>3. Delivering' = {}
      BY <3>2 DEF Stopped, InDriversHands, Delivering, At
    <3> QED
      BY <1>2, <2>1, <3>1, <3>2, <3>3
         DEF DeviceInv, Quiet, NothingFreed, In, controllerVars, Stopped
  <2> QED
    BY <2>2, <2>3
<1>5. CASE StopQueues \/ ResumeFromLowPower \/ ExitToLowPower
  <2>1. /\ phase[Device] # "gone" /\ cleanup = "none" /\ [Next]_vars
        /\ cleanup' = "none"
    BY <1>5 DEF StopQueues, ResumeFromLowPower, ExitToLowPower, In, DeviceInv, CleanupTells,
       Next
  <2>2. phase'[Device] # "gone"
    BY <1>5, LifetimeType DEF StopQueues, ResumeFromLowPower, ExitToLowPower,
       controllerVars, DeviceInv, In, Controller!LowPower, Controller!Enter
  <2> QED
    BY <2>1, <2>2, OrdinaryDeviceStep DEF In
<1>6. CASE ExitToD3Final
  <2>1. /\ phase[Device] = "D0" /\ cleanup = "none" /\ ~ powered /\ ~ InDriversHands
        /\ UNCHANGED <<ChannelExceptQueue, cleanup>>
    BY <1>6 DEF ExitToD3Final, Controller!D0ExitToD3Final, DeviceInv, CleanupTells
  <2>2. pc[Control] = "idle" /\ Delivering = {}
    BY <2>1 DEF InDriversHands, Delivering, At
  <2> QED
    BY <2>1, <2>2 DEF Quiet, NothingFreed, In, ChannelExceptQueue, Delivering, At
<1>7. CASE RemoveWithoutLists
  <2>1. phase[Device] # "gone" /\ cleanup = "none" /\ UNCHANGED vars
    BY <1>7 DEF RemoveWithoutLists, Removable, DeviceInv, CleanupTells
  <2> QED
    BY <2>1, OrdinaryDeviceStep DEF In
<1>8. CASE BeginCleanup
  <2>1. /\ phase[Device] \in {"failed", "added", "D3Final"} /\ cleanup = "none" /\ PurgeQueue
        /\ UNCHANGED <<lists, pc, control, history>>
    BY <1>8 DEF BeginCleanup, Removable
  <2>2. Untouched \/ Stopped
    BY <2>1, RemovableTells
  <2> QED
    BY <1>2, <2>1, <2>2 DEF DeviceInv, Quiet, NothingFreed, In, PurgeQueue, Delivering, At
<1>9. CASE CleanupNotifications \/ CleanupResponses
  <2>1. /\ cleanup \in {"notifications", "responses"}
        /\ cleanup' \in {"responses", "destroy"} /\ AvailableInterrupt' = <<>>
        /\ UNCHANGED <<pc, control, history>>
    BY <1>9 DEF CleanupNotifications, CleanupResponses, DeviceInv, CleanupTells
  <2>2. Untouched \/ Stopped
    BY <2>1, RemovableTells DEF DeviceInv, CleanupTells
  <2> QED
    BY <1>2, <2>1, <2>2 DEF DeviceInv, Quiet, NothingFreed, Delivering, At
<1>10. CASE Destroy
  <2>1. /\ cleanup = "destroy" /\ Controller!Remove(Device) /\ UNCHANGED vars
        /\ dev[Device].InProgressLock /\ AvailableInterrupt = <<>>
    BY <1>10 DEF Destroy, DeviceInv, CleanupTells
  <2>2. Untouched \/ Stopped
    BY <2>1, RemovableTells DEF DeviceInv, CleanupTells
  <2>3. phase'[Device] = "gone"
    BY <2>1, RemoveEffect DEF DeviceInv
  <2> QED
    BY <1>2, <2>1, <2>2, <2>3
       DEF DeviceInv, Quiet, NothingFreed, In, vars, lists, Delivering, At
<1>11. CASE UNCHANGED deviceVars
  <2>1. UNCHANGED <<vars, controllerVars, cleanup>>
    BY <1>11 DEF deviceVars
  <2>2. CASE cleanup = "none"
    BY <2>1, <2>2, OrdinaryDeviceStep DEF In, controllerVars
  <2>3. CASE cleanup # "none"
    <3>1. Untouched \/ Stopped
      BY <2>3, RemovableTells DEF DeviceInv, CleanupTells
    <3> QED
      BY <1>2, <2>1, <3>1 DEF DeviceInv, Quiet, NothingFreed, In, vars, lists, framework,
         controllerVars, Delivering, At, Untouched, Stopped
  <2> QED
    BY <2>2, <2>3
<1> QED
  BY <1>1, <1>3, <1>4, <1>5, <1>6, <1>7, <1>8, <1>9, <1>10, <1>11 DEF DeviceNext, Cleanup

\* What the device keeps of the promises its channel makes.
HostPart ==
    /\ StatusInv
    /\ CommandWaits => DrainIsBound
    /\ NothingFreed => HistoryAgrees

\* A quiet step changes nothing the host was told or promised ...
LEMMA QuietKeeps ==
    ASSUME HostPart, Quiet
    PROVE  /\ HostPart'
           /\ NothingFreed' => UNCHANGED Channel!vars
<1>1. StatusInv'
  BY DEF HostPart, Quiet, control, StatusInv, NoFailureBeforeExit, HandlerKnowsRequest,
     ExitIsTruthful
<1>2. CommandWaits' => DrainIsBound'
  BY EmptySeq DEF Quiet, CommandWaits, DrainIsBound
<1>3. ASSUME NothingFreed'
      PROVE  /\ NothingFreed
             /\ UNCHANGED <<lists, pc[Control], bufferContent, history, Delivering>>
  BY <1>3 DEF Quiet, control
<1>4. NothingFreed' => UNCHANGED <<bufferContent \o CommittedResponses, fetched,
                                   Len(AvailableInterrupt) + Cardinality(Delivering)>>
  BY <1>3 DEF lists, history, CommittedResponses, At
<1>5. NothingFreed' => HistoryAgrees'
  BY <1>3, <1>4 DEF HostPart, HistoryAgrees, Pending, Owed, history
<1> QED
  BY <1>1, <1>2, <1>4, <1>5 DEF HostPart, Channel!vars

\* ... and so does a step of the channel, whose proofs speak of it.
LEMMA ChannelsKeeps ==
    ASSUME HostPart, Channels
    PROVE  HostPart'
<1>1. ChannelInv /\ IInv /\ [Next]_vars
  BY DEF Channels, ChannelInv
<1>2. StatusInv'
  BY <1>1, StatusStep DEF HostPart
<1>3. CommandWaits' => DrainIsBound'
  BY <1>1, StrandedStep DEF HostPart
<1>4. NothingFreed' => HistoryAgrees'
  BY <1>1, HistoryStep DEF HostPart, Channels
<1> QED
  BY <1>2, <1>3, <1>4 DEF HostPart

\* Every state of the device keeps them.
LEMMA HostInvariance == DeviceSpec => [](DeviceInv /\ HostPart)
<1>1. DeviceInit => HostPart
  BY InitStatus, InitHistory DEF DeviceInit, HostPart, CommandWaits, Init
<1>2. DeviceInv /\ HostPart /\ [DeviceNext]_deviceVars => HostPart'
  BY DeviceStepOnChannel, QuietKeeps, ChannelsKeeps
<1> QED
  BY <1>1, <1>2, DeviceInitInv, DeviceNextInv, PTL DEF DeviceSpec

\* No handler leaves the lock behind or walks into an empty list, whatever the
\* framework does to its device meanwhile and although the cleanup callback
\* competes for the lock.
THEOREM DeviceKeepsLockDiscipline ==
    DeviceSpec => [](LockDiscipline /\ NoRemoveFromEmptyList)
<1>1. DeviceInv => LockDiscipline /\ NoRemoveFromEmptyList
  BY DEF DeviceInv, ChannelPart, ListsAsChecked, NoRemoveFromEmptyList, At
<1> QED
  BY <1>1, DeviceInvariance, PTL

\* What is live is on the lists or in the hands of a thread, in every state of the
\* device: also between the two lists the cleanup callback frees.
THEOREM DevicePoolIsAccounted == DeviceSpec => []PoolAccounted
<1>1. DeviceInv => PoolAccounted
  BY DEF DeviceInv, ChannelPart
<1> QED
  BY <1>1, DeviceInvariance, PTL

\* The URBs the device completes tell the truth.
THEOREM DeviceAnswersTruthfully ==
    DeviceSpec => [](BytesWithinBuffer /\ FetchStatusIsTruthful)
<1>1. HostPart => BytesWithinBuffer /\ FetchStatusIsTruthful
  BY DEF HostPart, StatusInv, ExitIsTruthful, BytesWithinBuffer,
     FetchStatusIsTruthful, At
<1> QED
  BY <1>1, HostInvariance, PTL

\* No stop, start, unplug or removal leaves a command's notification next to an
\* interrupt URB that nobody is bound to send it with.
THEOREM DeviceStrandsNoCommand == DeviceSpec => []CommandNotStranded
<1>1. HostPart => CommandNotStranded
  BY StrandedMeaning DEF HostPart
<1> QED
  BY <1>1, HostInvariance, PTL

\* Nothing accepted for the host is lost, doubled or reordered before the cleanup
\* callback frees it.
THEOREM DeviceKeepsResponses == DeviceSpec => []ResponsesKept
<1>1. DeviceInv /\ HostPart => ResponsesKept
  <2> SUFFICES ASSUME DeviceInv, HostPart, NothingFreed
               PROVE  ResponsesInOrder /\ EachResponseNotifiedOnce
    BY DEF ResponsesKept
  <2>1. HistoryAgrees
    BY DEF HostPart
  <2>2. /\ fetched \in Seq(Responses) /\ bufferContent \in Seq(Responses)
        /\ EncapsulatedCommandResponse \in Seq(Responses)
        /\ AvailableInterrupt \in Seq({"OPEN_DONE", "COMMAND_DONE"})
        /\ delivered \in Nat
    BY DEF DeviceInv, ChannelPart, ChannelTypeOK
  <2>3. CommittedResponses \in Seq(Responses)
    BY <2>2, RemoveCreatedEntryType DEF CommittedResponses
  <2>4. ResponsesInOrder
    <3>1. fetched \in Seq(Responses) /\ bufferContent \in Seq(Responses)
      BY <2>2
    <3>2. (fetched \o bufferContent) \o CommittedResponses
          = fetched \o (bufferContent \o CommittedResponses)
      BY <2>3, <3>1, ConcatAssociative
    <3> QED
      BY <2>1, <3>2, Zenon DEF HistoryAgrees, Pending, ResponsesInOrder
  <2>5. EachResponseNotifiedOnce
    BY <2>1 DEF HistoryAgrees, Owed, EachResponseNotifiedOnce
  <2> QED
    BY <2>4, <2>5
<1> QED
  BY <1>1, HostInvariance, PTL

\* Until then every step of the device is one that ResponseChannel allows, or
\* invisible, and afterwards the host gets nothing more.
THEOREM DeviceImplementsChannel == DeviceSpec => ImplementsChannelUntilFreed
<1> DEFINE Promised ==
        IF NothingFreed' THEN Channel!Next ELSE UNCHANGED <<fetched, delivered>>
<1>1. DeviceInit => Channel!Init
  BY InitialState DEF DeviceInit, Channel!Init, Pending, Owed, Init
<1>2. DeviceInv /\ HostPart /\ [DeviceNext]_deviceVars => [Promised]_Channel!vars
  <2> SUFFICES ASSUME DeviceInv, HostPart, [DeviceNext]_deviceVars
               PROVE  [Promised]_Channel!vars
    OBVIOUS
  <2>1. CASE Quiet
    <3>1. NothingFreed' => UNCHANGED Channel!vars
      BY <2>1, QuietKeeps
    <3>2. UNCHANGED <<fetched, delivered>>
      BY <2>1 DEF Quiet, history
    <3> QED
      BY <3>1, <3>2
  <2>2. CASE Channels
    <3>1. [Channel!Next]_Channel!vars
      BY <2>2, ChannelRefines DEF Channels
    <3>2. NothingFreed' \/ UNCHANGED <<fetched, delivered>>
      BY <2>2 DEF Channels, vars, history
    <3> QED
      BY <3>1, <3>2
  <2> QED
    BY <2>1, <2>2, DeviceStepOnChannel
<1> HIDE DEF Promised
<1>3. DeviceSpec => [][Promised]_Channel!vars
  BY <1>2, HostInvariance, PTL DEF DeviceSpec
<1> QED
  BY <1>1, <1>3, PTL DEF DeviceSpec, ImplementsChannelUntilFreed, Promised

\* The steps tell the truth, too: an OPEN succeeds exactly when its response is
\* queued, and a host that fetches because it was notified finds one, across all
\* stops and starts.
THEOREM DeviceStepsTellTheTruth ==
    DeviceSpec => OpenStatusIsTruthful /\ NotifiedFetchFindsResponse
<1>1. ASSUME DeviceInv, pc[Control] # "idle"
      PROVE  NothingFreed
  <2>1. phase[Device] = "D0"
    BY <1>1 DEF DeviceInv, PhaseTells, In, Untouched, AllIdle, Stopped, InDriversHands, At,
       Threads
  <2> QED
    BY <1>1, <2>1 DEF DeviceInv, CleanupTells, NothingFreed, In
<1>2. DeviceInv /\ HostPart /\ [DeviceNext]_deviceVars
      => [OpenIsTruthful]_vars /\ [FetchIsServed]_vars
  <2> SUFFICES ASSUME DeviceInv, HostPart, [DeviceNext]_deviceVars
               PROVE  OpenIsTruthful /\ FetchIsServed
    OBVIOUS
  <2>1. CASE Quiet
    BY <2>1 DEF Quiet, OpenIsTruthful, FetchIsServed, At
  <2>2. CASE Channels
    <3>1. OpenIsTruthful
      BY <2>2, OpenStep DEF Channels, ChannelInv
    <3>2. pc[Control] = "get_check" => FetchIsServed
      BY <1>1, <2>2, FetchStep DEF Channels, HostPart
    <3>3. pc[Control] # "get_check" => FetchIsServed
      BY DEF FetchIsServed, At
    <3> QED
      BY <3>1, <3>2, <3>3
  <2> QED
    BY <2>1, <2>2, DeviceStepOnChannel
<1>3. DeviceSpec => [][OpenIsTruthful]_vars /\ [][FetchIsServed]_vars
  BY <1>2, HostInvariance, PTL DEF DeviceSpec
<1> QED
  BY <1>3 DEF OpenStatusIsTruthful, OpenIsTruthful, NotifiedFetchFindsResponse, FetchIsServed
=============================================================================
