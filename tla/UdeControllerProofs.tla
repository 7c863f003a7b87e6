------------------------ MODULE UdeControllerProofs ------------------------
(***************************************************************************)
(* The lifecycle for any number of controllers, any range of instance       *)
(* numbers and any number of starts: a plugged-in device is complete, every *)
(* temporary allocation is freed, and the system sees what DevicePresence   *)
(* promises.                                                                *)
(***************************************************************************)
EXTENDS UdeController, FiniteSetTheorems, TLAPS

\* The first k endpoints that Usb_ReadDescriptorsAndPlugIn creates.
Created(k) == {EndpointOrder[i] : i \in 1..k}

\* d has no USB device yet, and none of what is created with it.
Fresh(d) ==
    /\ d.VirtualMbimDevice = "null"
    /\ d.endpoints = {}
    /\ d.queues = {}

\* The queues of the first k endpoints are there, and with the interrupt queue
\* its callback, the lock and the list heads.
QueuesOf(d, k) ==
    /\ d.queues = Created(k) \cap CachedQueues
    /\ k >= 2 => d.readyNotify /\ d.InProgressLock /\ d.lists

\* What PluggedIsComplete demands of one device.
Complete(d) ==
    /\ d.IoContext /\ d.UsbContext
    /\ d.InProgressLock /\ d.lists /\ d.readyNotify
    /\ d.endpoints = Endpoints
    /\ d.queues = CachedQueues

\* What DeviceAdd has made of d, with instance number i, when it comes to call a.
AddedUpTo(a, i, d) ==
    /\ Fresh(d)
    /\ IF a \in {"WdfDeviceInit", "WdfDeviceCreate"}
       THEN d.name = NoName
       ELSE d.name = i /\ i # NoName
    /\ a \in {"UsbContext", "UsbDeviceInit", "Descriptors"} => d.IoContext
    /\ a \in {"UsbDeviceInit", "Descriptors"} => d.UsbContext

\* With k endpoints made, the handler is at call a on the way to the next one.
EndpointsUpTo(a, k, d) ==
    /\ d.endpoints = Created(k)
    /\ a = "PlugIn" <=> k = 6
    /\ QueuesOf(d, IF a \in {"EndpointInit", "Endpoint"} THEN k + 1 ELSE k)

\* What the start has made of d when it comes to call a.  Beyond the device only
\* a first start gets: the device init is consumed by it.
StartedUpTo(a, d) ==
    /\ a = "ConfigDescSet" => ~ d.configDescSet
    /\ a = "UsbDevice" => d.UdecxUsbDeviceInit = "allocated"
    /\ a \in {"Queue", "EndpointInit", "Endpoint", "PlugIn"} =>
          /\ d.VirtualMbimDevice = "created"
          /\ \E k \in 0..6 : EndpointsUpTo(a, k, d)
    /\ d.endpointInit <=> a = "Endpoint"

\* Wherever the handlers leave d: a device init that is still there was not
\* consumed, and what is plugged in is complete.
Sound(d) ==
    /\ d.UdecxUsbDeviceInit = "allocated" => d.UsbContext /\ Fresh(d)
    /\ d.VirtualMbimDevice = "plugged" => Complete(d)

\* The temporary allocations are those the local pointers hold, ...
Held(d) == (IF d.configDescSet THEN 1 ELSE 0) + (IF d.endpointInit THEN 1 ELSE 0)
Accounted(d) == d.temporaries = Held(d)

\* ... and outside the handlers there is neither.
Empty(d) == ~ d.configDescSet /\ ~ d.endpointInit /\ d.temporaries = 0

\* The state of one controller: its phase p, the next call a of its handler, its
\* instance number i and its device d.
Consistent(p, a, i, d) ==
    /\ Sound(d)
    /\ Accounted(d)
    /\ p = "absent" => a = "WdfDeviceInit"
    /\ p \in {"absent", "adding"} => a \in AddCalls /\ AddedUpTo(a, i, d)
    /\ p \in {"added", "starting", "D0", "Dx", "D3Final"} =>
          d.name # NoName /\ d.IoContext /\ d.UsbContext
    /\ p = "starting" => a \in StartCalls /\ StartedUpTo(a, d)
    /\ p \in {"D0", "Dx"} => d.VirtualMbimDevice = "plugged"
    /\ p \notin {"starting", "bugcheck"} => Empty(d)

ControllerInv ==
    /\ TypeOK
    /\ \A c \in Controllers : Consistent(phase[c], at[c], instance[c], dev[c])
-----------------------------------------------------------------------------
(* Lemmas about one controller and its device.                              *)

\* An empty device is accounted for.
LEMMA EmptyIsAccounted ==
    ASSUME NEW d, Empty(d)
    PROVE  Accounted(d)
BY DEF Empty, Accounted, Held

\* A step that gives one controller a consistent state keeps the invariant.
LEMMA StepOfOne ==
    ASSUME ControllerInv, NEW c \in Controllers,
           NEW p \in Phases, NEW a \in AddCalls \cup StartCalls,
           NEW i \in 0..MaxInstance + 1, NEW d \in Devices,
           phase' = [phase EXCEPT ![c] = p],
           at' = [at EXCEPT ![c] = a],
           starts' \in [Controllers -> 0..MaxStarts],
           instance' = [instance EXCEPT ![c] = i],
           dev' = [dev EXCEPT ![c] = d],
           Consistent(p, a, i, d)
    PROVE  ControllerInv'
<1>1. TypeOK'
  BY DEF ControllerInv, TypeOK
<1>2. ASSUME NEW e \in Controllers
      PROVE  Consistent(phase[e], at[e], instance[e], dev[e])'
  <2>1. CASE e = c
    <3>1. /\ phase'[e] = p /\ at'[e] = a /\ instance'[e] = i /\ dev'[e] = d
      BY <2>1 DEF ControllerInv, TypeOK
    <3> QED
      BY <3>1 DEF Consistent, Sound, Fresh, Complete, AddedUpTo, StartedUpTo,
                  EndpointsUpTo, QueuesOf, Accounted, Held, Empty
  <2>2. CASE e # c
    <3>1. /\ phase'[e] = phase[e] /\ at'[e] = at[e]
          /\ instance'[e] = instance[e] /\ dev'[e] = dev[e]
      BY <2>2 DEF ControllerInv, TypeOK
    <3>2. Consistent(phase[e], at[e], instance[e], dev[e])
      BY DEF ControllerInv
    <3> QED
      BY <3>1, <3>2 DEF Consistent, Sound, Fresh, Complete, AddedUpTo, StartedUpTo,
                  EndpointsUpTo, QueuesOf, Accounted, Held, Empty
  <2> QED
    BY <2>1, <2>2
<1> QED
  BY <1>1, <1>2 DEF ControllerInv

\* In that state a call may succeed ...
LEMMA SucceedKeeps ==
    ASSUME ControllerInv, NEW c \in Controllers,
           NEW a \in AddCalls \cup StartCalls, NEW d \in Devices,
           Succeed(c, d, a),
           Consistent(phase[c], a, instance[c], d)
    PROVE  ControllerInv'
<1> DEFINE p == phase[c]
           i == instance[c]
<1>1. /\ p \in Phases /\ i \in 0..MaxInstance + 1
      /\ phase' = [phase EXCEPT ![c] = p]
      /\ instance' = [instance EXCEPT ![c] = i]
      /\ starts' \in [Controllers -> 0..MaxStarts]
  BY DEF Succeed, ControllerInv, TypeOK
<1>2. at' = [at EXCEPT ![c] = a] /\ dev' = [dev EXCEPT ![c] = d]
  BY DEF Succeed
<1>3. Consistent(p, a, i, d)
  OBVIOUS
<1> HIDE DEF p, i
<1> QED
  BY <1>1, <1>2, <1>3, StepOfOne

\* ... or fail, with d what it leaves behind.
LEMMA FailWithKeeps ==
    ASSUME ControllerInv, NEW c \in Controllers, NEW d \in Devices,
           FailWith(c, d), Sound(d), Empty(d)
    PROVE  ControllerInv'
<1> DEFINE a == at[c]
           i == instance[c]
<1>1. /\ a \in AddCalls \cup StartCalls /\ i \in 0..MaxInstance + 1
      /\ at' = [at EXCEPT ![c] = a]
      /\ instance' = [instance EXCEPT ![c] = i]
      /\ starts' \in [Controllers -> 0..MaxStarts]
  BY DEF FailWith, ControllerInv, TypeOK
<1>2. /\ phase' = [phase EXCEPT ![c] = "failed"] /\ "failed" \in Phases
      /\ dev' = [dev EXCEPT ![c] = d]
  BY DEF FailWith, Enter, Phases
<1>3. Consistent("failed", a, i, d)
  BY EmptyIsAccounted DEF Consistent
<1> HIDE DEF a, i
<1> QED
  BY <1>1, <1>2, <1>3, StepOfOne

\* The endpoints are made one by one.
LEMMA CreatedNext ==
    ASSUME NEW k \in 0..5
    PROVE  /\ Created(k + 1) = Created(k) \cup {EndpointOrder[k + 1]}
           /\ EndpointOrder[k + 1] \notin Created(k)
<1>1. DOMAIN EndpointOrder = 1..6
  BY DEF EndpointOrder
<1>2. 1..(k + 1) = 1..k \cup {k + 1}
  OBVIOUS
<1>3. Created(k + 1) = Created(k) \cup {EndpointOrder[k + 1]}
  BY <1>2 DEF Created
<1>4. \A i \in 1..k : EndpointOrder[i] # EndpointOrder[k + 1]
  BY DEF EndpointOrder
<1> QED
  BY <1>3, <1>4 DEF Created

\* None at first, all of them after six, and never more than counted.
LEMMA CreatedCount ==
    /\ Created(0) = {}
    /\ Created(6) = Endpoints
    /\ \A k \in 0..6 : IsFiniteSet(Created(k)) /\ Cardinality(Created(k)) = k
<1>1. Created(0) = {}
  BY DEF Created
<1>2. Created(6) = Endpoints
  BY DEF Created, Endpoints, EndpointOrder
<1> DEFINE Counted(k) == IsFiniteSet(Created(k)) /\ Cardinality(Created(k)) = k
<1>3. Counted(0)
  BY <1>1, FS_EmptySet
<1>4. ASSUME NEW k \in 0..5, Counted(k) PROVE Counted(k + 1)
  <2>1. /\ Created(k + 1) = Created(k) \cup {EndpointOrder[k + 1]}
        /\ EndpointOrder[k + 1] \notin Created(k)
    BY CreatedNext
  <2>2. IsFiniteSet(Created(k)) /\ Cardinality(Created(k)) = k
    BY <1>4
  <2> DEFINE S == Created(k)
             e == EndpointOrder[k + 1]
  <2> HIDE DEF S, e
  <2>3. /\ IsFiniteSet(S \cup {e})
        /\ Cardinality(S \cup {e}) = IF e \in S THEN Cardinality(S) ELSE Cardinality(S) + 1
    BY <2>2, FS_AddElement DEF S
  <2> QED
    BY <2>1, <2>2, <2>3 DEF S, e
<1>5. Counted(0 + 1)
  BY <1>3, <1>4
<1>6. Counted(1 + 1)
  BY <1>4, <1>5
<1>7. Counted(2 + 1)
  BY <1>4, <1>6
<1>8. Counted(3 + 1)
  BY <1>4, <1>7
<1>9. Counted(4 + 1)
  BY <1>4, <1>8
<1>10. Counted(5 + 1)
  BY <1>4, <1>9
<1>11. \A k \in 0..6 : k = 0 \/ k = 1 \/ k = 2 \/ k = 3 \/ k = 4 \/ k = 5 \/ k = 6
  OBVIOUS
<1> HIDE DEF Counted
<1>12. \A k \in 0..6 : Counted(k)
  BY <1>3, <1>5, <1>6, <1>7, <1>8, <1>9, <1>10, <1>11
<1> QED
  BY <1>1, <1>2, <1>12 DEF Counted
-----------------------------------------------------------------------------
(* ControllerWdfEvtDeviceAdd keeps the invariant, call by call.             *)

\* What the invariant says of one controller.
LEMMA OfOne ==
    ASSUME ControllerInv, NEW c \in Controllers
    PROVE  /\ phase[c] \in Phases
           /\ at[c] \in AddCalls \cup StartCalls
           /\ instance[c] \in 0..MaxInstance + 1
           /\ dev[c] \in Devices
           /\ Consistent(phase[c], at[c], instance[c], dev[c])
BY DEF ControllerInv, TypeOK

\* At a call of its own, DeviceAdd is what runs, and not D0Entry.
LEMMA Adding ==
    ASSUME ControllerInv, NEW c \in Controllers, NEW a \in AddCalls, Calls(c, a)
    PROVE  /\ phase[c] = "adding"
           /\ AddedUpTo(a, instance[c], dev[c])
           /\ Sound(dev[c])
           /\ Empty(dev[c])
<1>1. Consistent(phase[c], at[c], instance[c], dev[c])
  BY OfOne
<1>2. phase[c] \in {"adding", "starting"} /\ at[c] = a
  BY DEF Calls
<1>3. phase[c] # "starting"
  BY <1>1, <1>2 DEF Consistent, AddCalls, StartCalls
<1> QED
  BY <1>1, <1>2, <1>3 DEF Consistent

\* DeviceAdd fails, and leaves what its calls have made.
LEMMA FailKeeps ==
    ASSUME ControllerInv, NEW c \in Controllers, NEW a \in AddCalls, Calls(c, a),
           Fail(c)
    PROVE  ControllerInv'
BY Adding, OfOne, FailWithKeeps DEF Fail

\* A step of DeviceAdd to call b, with the device it made.
LEMMA AddCallKeeps ==
    ASSUME ControllerInv, NEW c \in Controllers, NEW a \in AddCalls, Calls(c, a),
           NEW b \in AddCalls, NEW d \in Devices,
           Succeed(c, d, b),
           AddedUpTo(b, instance[c], d), Sound(d),
           Empty(d)
    PROVE  ControllerInv'
<1>1. phase[c] = "adding"
  BY Adding
<1>2. Consistent("adding", b, instance[c], d)
  BY EmptyIsAccounted DEF Consistent
<1> QED
  BY <1>1, <1>2, SucceedKeeps

\* The framework calls DeviceAdd for a device that is not there yet.
LEMMA DeviceAddKeeps ==
    ASSUME ControllerInv, NEW c \in Controllers, DeviceAdd(c)
    PROVE  ControllerInv'
<1>1. /\ phase' = [phase EXCEPT ![c] = "adding"]
      /\ at' = [at EXCEPT ![c] = at[c]]
      /\ starts' \in [Controllers -> 0..MaxStarts]
      /\ instance' = [instance EXCEPT ![c] = instance[c]]
      /\ dev' = [dev EXCEPT ![c] = dev[c]]
  BY DEF DeviceAdd, Enter, ControllerInv, TypeOK
<1>2. Consistent("adding", at[c], instance[c], dev[c])
  BY OfOne DEF DeviceAdd, Consistent
<1>3. "adding" \in Phases
  BY DEF Phases
<1> QED
  BY <1>1, <1>2, <1>3, OfOne, StepOfOne

\* The calls of DeviceAdd, one by one: before there is a WDFDEVICE, ...
LEMMA InitializeWdfDeviceInitKeeps ==
    ASSUME ControllerInv, NEW c \in Controllers, InitializeWdfDeviceInit(c)
    PROVE  ControllerInv'
<1>1. CASE Succeed(c, dev[c], "WdfDeviceCreate")
  <2>1. AddedUpTo("WdfDeviceCreate", instance[c], dev[c])
    BY Adding DEF InitializeWdfDeviceInit, AddCalls, AddedUpTo
  <2> QED
    BY <1>1, <2>1, Adding, OfOne, AddCallKeeps DEF InitializeWdfDeviceInit, AddCalls
<1> QED
  BY <1>1, FailKeeps DEF InitializeWdfDeviceInit, AddCalls

\* The one call that gives a name; a collision only moves on to the next number.
LEMMA WdfDeviceCreateKeeps ==
    ASSUME ControllerInv, NEW c \in Controllers, WdfDeviceCreate(c)
    PROVE  ControllerInv'
<1> DEFINE i == instance[c]
           d == [dev[c] EXCEPT !.name = i]
<1>1. /\ AddedUpTo("WdfDeviceCreate", i, dev[c]) /\ Sound(dev[c])
      /\ Empty(dev[c])
      /\ phase[c] = "adding" /\ at[c] = "WdfDeviceCreate"
  BY Adding DEF WdfDeviceCreate, AddCalls, Calls
<1>2. dev[c] \in Devices /\ i \in 0..MaxInstance + 1
  BY OfOne
<1>3. ASSUME i <= MaxInstance, i \notin NamesInUse, Succeed(c, d, "SymbolicLink")
      PROVE  ControllerInv'
  <2>1. d \in Devices /\ d.name = i /\ i # NoName
    BY <1>2, <1>3, ControllersAssumption DEF Devices, NoName
  <2>2. AddedUpTo("SymbolicLink", i, d)
    BY <1>1, <1>2, <2>1 DEF AddedUpTo, Fresh, Devices
  <2>3. Sound(d) /\ Empty(d)
    BY <1>1, <1>2, <2>1 DEF AddedUpTo, Sound, Fresh, Complete, Empty, Devices
  <2> HIDE DEF d
  <2> QED
    BY <1>3, <2>1, <2>2, <2>3, AddCallKeeps DEF WdfDeviceCreate, AddCalls
<1>4. ASSUME i <= MaxInstance, instance' = [instance EXCEPT ![c] = @ + 1],
             UNCHANGED <<phase, at, starts, dev>>
      PROVE  ControllerInv'
  <2>1. /\ phase' = [phase EXCEPT ![c] = phase[c]]
        /\ at' = [at EXCEPT ![c] = at[c]]
        /\ starts' \in [Controllers -> 0..MaxStarts]
        /\ instance' = [instance EXCEPT ![c] = i + 1]
        /\ dev' = [dev EXCEPT ![c] = dev[c]]
    BY <1>4 DEF ControllerInv, TypeOK
  <2>2. i + 1 \in 0..MaxInstance + 1
    BY <1>2, <1>4, ControllersAssumption
  <2>3. Consistent("adding", "WdfDeviceCreate", i + 1, dev[c])
    BY <1>1, EmptyIsAccounted DEF Consistent, AddedUpTo, AddCalls
  <2> HIDE DEF i
  <2> QED
    BY <1>1, <1>2, <2>1, <2>2, <2>3, OfOne, StepOfOne
<1>5. Calls(c, "WdfDeviceCreate")
  BY DEF WdfDeviceCreate
<1> QED
  BY <1>3, <1>4, FailKeeps DEF WdfDeviceCreate, AddCalls

\* The symbolic link changes nothing else.
LEMMA SymbolicLinkKeeps ==
    ASSUME ControllerInv, NEW c \in Controllers, SymbolicLink(c)
    PROVE  ControllerInv'
<1> DEFINE i == instance[c]
           d == [dev[c] EXCEPT !.symLink = i]
<1>1. CASE Succeed(c, d, "Interface")
  <2>1. /\ AddedUpTo("SymbolicLink", i, dev[c]) /\ Sound(dev[c])
        /\ Empty(dev[c])
    BY Adding DEF SymbolicLink, AddCalls
  <2>2. dev[c] \in Devices /\ i \in 0..MaxInstance + 1
    BY OfOne
  <2>3. d \in Devices /\ d.name = dev[c].name
    BY <2>2 DEF Devices, NoName
  <2>4. AddedUpTo("Interface", i, d)
    BY <2>1, <2>2 DEF AddedUpTo, Fresh, Devices
  <2>5. Sound(d) /\ Empty(d)
    BY <2>1, <2>2 DEF AddedUpTo, Sound, Fresh, Complete, Empty, Devices
  <2> HIDE DEF d
  <2> QED
    BY <1>1, <2>3, <2>4, <2>5, AddCallKeeps DEF SymbolicLink, AddCalls
<1> QED
  BY <1>1, FailKeeps DEF SymbolicLink, AddCalls

\* The WDFDEVICE becomes a controller.
LEMMA RegisterControllerKeeps ==
    ASSUME ControllerInv, NEW c \in Controllers, RegisterController(c)
    PROVE  ControllerInv'
<1>1. CASE Succeed(c, dev[c], "IoContext")
  <2>1. AddedUpTo("IoContext", instance[c], dev[c])
    BY Adding DEF RegisterController, AddCalls, AddedUpTo
  <2> QED
    BY <1>1, <2>1, Adding, OfOne, AddCallKeeps DEF RegisterController, AddCalls
<1> QED
  BY <1>1, FailKeeps DEF RegisterController, AddCalls

\* The IO_CONTEXT is there before the USB_CONTEXT ...
LEMMA AllocateIoContextKeeps ==
    ASSUME ControllerInv, NEW c \in Controllers, AllocateIoContext(c)
    PROVE  ControllerInv'
<1> DEFINE d == [dev[c] EXCEPT !.IoContext = TRUE]
<1>1. CASE Succeed(c, d, "UsbContext")
  <2>1. /\ AddedUpTo("IoContext", instance[c], dev[c]) /\ Sound(dev[c])
        /\ Empty(dev[c])
        /\ dev[c] \in Devices
    BY Adding, OfOne DEF AllocateIoContext, AddCalls
  <2>2. d \in Devices /\ d.name = dev[c].name
    BY <2>1 DEF Devices
  <2>3. AddedUpTo("UsbContext", instance[c], d)
    BY <2>1 DEF AddedUpTo, Fresh, Devices
  <2>4. Sound(d) /\ Empty(d)
    BY <2>1 DEF Sound, Fresh, Complete, Empty, Devices
  <2> HIDE DEF d
  <2> QED
    BY <1>1, <2>2, <2>3, <2>4, AddCallKeeps DEF AllocateIoContext, AddCalls
<1> QED
  BY <1>1, FailKeeps DEF AllocateIoContext, AddCalls

\* ... and both before the device init.
LEMMA AllocateUsbContextKeeps ==
    ASSUME ControllerInv, NEW c \in Controllers, AllocateUsbContext(c)
    PROVE  ControllerInv'
<1> DEFINE d == [dev[c] EXCEPT !.UsbContext = TRUE]
<1>1. CASE Succeed(c, d, "UsbDeviceInit")
  <2>1. /\ AddedUpTo("UsbContext", instance[c], dev[c]) /\ Sound(dev[c])
        /\ Empty(dev[c])
        /\ dev[c] \in Devices
    BY Adding, OfOne DEF AllocateUsbContext, AddCalls
  <2>2. d \in Devices /\ d.name = dev[c].name
    BY <2>1 DEF Devices
  <2>3. AddedUpTo("UsbDeviceInit", instance[c], d)
    BY <2>1 DEF AddedUpTo, Fresh, Devices
  <2>4. Sound(d) /\ Empty(d)
    BY <2>1 DEF Sound, Fresh, Complete, Empty, Devices
  <2> HIDE DEF d
  <2> QED
    BY <1>1, <2>2, <2>3, <2>4, AddCallKeeps DEF AllocateUsbContext, AddCalls
<1> QED
  BY <1>1, FailKeeps DEF AllocateUsbContext, AddCalls

\* The device init comes when the device has its contexts and no USB device.
LEMMA UsbDeviceInitAllocateKeeps ==
    ASSUME ControllerInv, NEW c \in Controllers, UsbDeviceInitAllocate(c)
    PROVE  ControllerInv'
<1> DEFINE d == [dev[c] EXCEPT !.UdecxUsbDeviceInit = "allocated"]
<1>1. CASE Succeed(c, d, "Descriptors")
  <2>1. /\ AddedUpTo("UsbDeviceInit", instance[c], dev[c]) /\ Sound(dev[c])
        /\ Empty(dev[c])
        /\ dev[c] \in Devices
    BY Adding, OfOne DEF UsbDeviceInitAllocate, AddCalls
  <2>2. d \in Devices /\ d.name = dev[c].name
    BY <2>1 DEF Devices
  <2>3. AddedUpTo("Descriptors", instance[c], d)
    BY <2>1 DEF AddedUpTo, Fresh, Devices
  <2>4. Sound(d) /\ Empty(d)
    BY <2>1 DEF AddedUpTo, Sound, Fresh, Complete, Empty, Devices
  <2> HIDE DEF d
  <2> QED
    BY <1>1, <2>2, <2>3, <2>4, AddCallKeeps DEF UsbDeviceInitAllocate, AddCalls
<1> QED
  BY <1>1, FailKeeps DEF UsbDeviceInitAllocate, AddCalls

\* The last call of DeviceAdd leaves a device with its name and its contexts.
LEMMA AddDescriptorsKeeps ==
    ASSUME ControllerInv, NEW c \in Controllers, AddDescriptors(c)
    PROVE  ControllerInv'
<1>1. CASE Enter(c, "added") /\ UNCHANGED <<at, starts, instance, dev>>
  <2>1. /\ AddedUpTo("Descriptors", instance[c], dev[c]) /\ Sound(dev[c])
        /\ Empty(dev[c])
    BY Adding DEF AddDescriptors, AddCalls
  <2>2. Consistent("added", at[c], instance[c], dev[c])
    BY <2>1, EmptyIsAccounted DEF Consistent, AddedUpTo
  <2>3. /\ phase' = [phase EXCEPT ![c] = "added"] /\ "added" \in Phases
        /\ at' = [at EXCEPT ![c] = at[c]]
        /\ starts' \in [Controllers -> 0..MaxStarts]
        /\ instance' = [instance EXCEPT ![c] = instance[c]]
        /\ dev' = [dev EXCEPT ![c] = dev[c]]
    BY <1>1 DEF Enter, ControllerInv, TypeOK, Phases
  <2> QED
    BY <2>2, <2>3, OfOne, StepOfOne
<1> QED
  BY <1>1, FailKeeps DEF AddDescriptors, AddCalls

\* So every step of DeviceAdd keeps the invariant.
LEMMA DeviceAddStepKeeps ==
    ASSUME ControllerInv, NEW c \in Controllers, DeviceAddStep(c)
    PROVE  ControllerInv'
BY InitializeWdfDeviceInitKeeps, WdfDeviceCreateKeeps, SymbolicLinkKeeps,
   RegisterControllerKeeps, AllocateIoContextKeeps, AllocateUsbContextKeeps,
   UsbDeviceInitAllocateKeeps, AddDescriptorsKeeps DEF DeviceAddStep
-----------------------------------------------------------------------------
(* ControllerWdfEvtDeviceD0Entry keeps the invariant, call by call.         *)

\* The framework starts a device that was added, or that it stopped.
LEMMA D0EntryFromD3FinalKeeps ==
    ASSUME ControllerInv, NEW c \in Controllers, D0EntryFromD3Final(c)
    PROVE  ControllerInv'
<1> DEFINE d == [dev[c] EXCEPT !.AllowOnlyResetInterrupts = TRUE]
<1>1. /\ phase' = [phase EXCEPT ![c] = "starting"] /\ "starting" \in Phases
      /\ at' = [at EXCEPT ![c] = "ConfigDescSet"]
      /\ instance' = [instance EXCEPT ![c] = instance[c]]
      /\ dev' = [dev EXCEPT ![c] = d]
  BY DEF D0EntryFromD3Final, Enter, ControllerInv, TypeOK, Phases
<1>2. starts' \in [Controllers -> 0..MaxStarts]
  <2>1. starts \in [Controllers -> 0..MaxStarts] /\ starts[c] < MaxStarts
        /\ starts' = [starts EXCEPT ![c] = starts[c] + 1]
    BY DEF D0EntryFromD3Final, ControllerInv, TypeOK
  <2>2. starts[c] + 1 \in 0..MaxStarts
    BY <2>1, ControllersAssumption
  <2> QED
    BY <2>1, <2>2
<1>3. dev[c] \in Devices /\ Consistent(phase[c], at[c], instance[c], dev[c])
      /\ phase[c] \in {"added", "D3Final"}
  BY OfOne DEF D0EntryFromD3Final
<1>4. d \in Devices /\ d.name = dev[c].name
  BY <1>3 DEF Devices
<1>5. Consistent("starting", "ConfigDescSet", instance[c], d)
  BY <1>3 DEF Devices, Consistent, Sound, Fresh, Complete, StartedUpTo, StartCalls,
              Accounted, Held, Empty
<1>6. "ConfigDescSet" \in AddCalls \cup StartCalls
  BY DEF StartCalls
<1> HIDE DEF d
<1> QED
  BY <1>1, <1>2, <1>4, <1>5, <1>6, OfOne, StepOfOne

\* At a call of its own, D0Entry is what runs.
LEMMA Starting ==
    ASSUME ControllerInv, NEW c \in Controllers, NEW a \in StartCalls, Calls(c, a)
    PROVE  /\ phase[c] = "starting"
           /\ at[c] = a
           /\ StartedUpTo(a, dev[c])
           /\ Sound(dev[c]) /\ Accounted(dev[c])
           /\ dev[c].name # NoName /\ dev[c].IoContext /\ dev[c].UsbContext
           /\ dev[c] \in Devices
<1>1. Consistent(phase[c], at[c], instance[c], dev[c])
  BY OfOne
<1>2. phase[c] \in {"adding", "starting"} /\ at[c] = a
  BY DEF Calls
<1>3. phase[c] # "adding"
  BY <1>1, <1>2 DEF Consistent, AddCalls, StartCalls
<1> QED
  BY <1>1, <1>2, <1>3, OfOne DEF Consistent

\* A step of D0Entry to call b, with the device it made.
LEMMA StartCallKeeps ==
    ASSUME ControllerInv, NEW c \in Controllers, NEW a \in StartCalls, Calls(c, a),
           NEW b \in StartCalls, NEW d \in Devices,
           Succeed(c, d, b),
           StartedUpTo(b, d), Sound(d), Accounted(d),
           d.name = dev[c].name, d.IoContext, d.UsbContext
    PROVE  ControllerInv'
<1>1. phase[c] = "starting" /\ dev[c].name # NoName
  BY Starting
<1>2. Consistent("starting", b, instance[c], d)
  BY <1>1 DEF Consistent
<1> QED
  BY <1>1, <1>2, SucceedKeeps

\* Two devices with the same objects, whatever the local pointers of the handler
\* hold.
SameObjects(d, x) ==
    /\ x.name = d.name
    /\ x.IoContext = d.IoContext /\ x.UsbContext = d.UsbContext
    /\ x.UdecxUsbDeviceInit = d.UdecxUsbDeviceInit
    /\ x.VirtualMbimDevice = d.VirtualMbimDevice
    /\ x.queues = d.queues /\ x.readyNotify = d.readyNotify
    /\ x.InProgressLock = d.InProgressLock /\ x.lists = d.lists
    /\ x.endpoints = d.endpoints

\* What is sound of one is sound of the other.
LEMMA SameIsSound ==
    ASSUME NEW d, NEW x, Sound(d), SameObjects(d, x)
    PROVE  Sound(x)
BY DEF Sound, Fresh, Complete, SameObjects

\* Each of the five functions frees its endpoint init at its exit, and nothing
\* else, ...
LEMMA EndpointExitFrees ==
    ASSUME NEW d \in Devices, NEW e, Accounted(d)
    PROVE  /\ EndpointExit(d, e) \in Devices
           /\ SameObjects(d, EndpointExit(d, e))
           /\ Accounted(EndpointExit(d, e))
           /\ ~ EndpointExit(d, e).endpointInit
           /\ ~ d.endpointInit => EndpointExit(d, e) = d
<1> DEFINE x == [d EXCEPT !.endpointInit = FALSE, !.temporaries = d.temporaries - 1]
<1>1. EndpointExit(d, e) = FreeEndpointInit(d)
  BY DEF EndpointExit, ControlEndpointExit, InterruptEndpointExit, BulkInEndpointExit,
         BulkOutEndpointExit, CreateAndAddEndpointExit
<1>2. FreeEndpointInit(d) = IF d.endpointInit THEN x ELSE d
  BY DEF FreeEndpointInit
<1>3. SameObjects(d, d)
  BY DEF SameObjects
<1>4. CASE d.endpointInit
  <2>1. d.temporaries - 1 \in 0..2
    BY <1>4 DEF Accounted, Held, Devices
  <2>2. x \in Devices /\ SameObjects(d, x) /\ ~ x.endpointInit
    BY <2>1 DEF Devices, SameObjects
  <2>3. x.configDescSet = d.configDescSet /\ x.temporaries = d.temporaries - 1
    BY DEF Devices
  <2> HIDE DEF x
  <2>4. Accounted(x)
    BY <1>4, <2>2, <2>3 DEF Accounted, Held, Devices
  <2> QED
    BY <1>1, <1>2, <1>4, <2>2, <2>4
<1>5. CASE ~ d.endpointInit
  BY <1>1, <1>2, <1>3, <1>5
<1> QED
  BY <1>4, <1>5

\* ... and then Usb_ReadDescriptorsAndPlugIn frees the copy of the table.
LEMMA PlugInExitFrees ==
    ASSUME NEW d \in Devices, Accounted(d), ~ d.endpointInit
    PROVE  /\ PlugInExit(d) \in Devices
           /\ SameObjects(d, PlugInExit(d))
           /\ Empty(PlugInExit(d))
<1> DEFINE x == [d EXCEPT !.configDescSet = FALSE, !.temporaries = d.temporaries - 1]
<1>1. PlugInExit(d) = IF d.configDescSet THEN x ELSE d
  BY DEF PlugInExit
<1>2. CASE d.configDescSet
  <2>1. d.temporaries = 1
    BY <1>2 DEF Accounted, Held
  <2>2. x \in Devices
    <3>1. d.temporaries - 1 \in 0..2
      BY <2>1
    <3> QED
      BY <3>1 DEF Devices
  <2>3. SameObjects(d, x)
    BY DEF Devices, SameObjects
  <2>4. ~ x.configDescSet /\ ~ x.endpointInit /\ x.temporaries = 0
    BY <2>1 DEF Devices
  <2> HIDE DEF x
  <2> QED
    BY <1>1, <1>2, <2>2, <2>3, <2>4 DEF Empty
<1>3. CASE ~ d.configDescSet
  BY <1>1, <1>3 DEF Accounted, Held, Empty, SameObjects
<1> QED
  BY <1>2, <1>3

\* A start that fails leaves what its calls have made, d, but for what the exits
\* free.
LEMMA FailEndpointKeeps ==
    ASSUME ControllerInv, NEW c \in Controllers, NEW e, NEW d \in Devices,
           FailEndpoint(c, e, d), Sound(d), Accounted(d)
    PROVE  ControllerInv'
<1> DEFINE x == EndpointExit(d, e)
           y == PlugInExit(x)
<1>1. x \in Devices /\ Sound(x) /\ Accounted(x) /\ ~ x.endpointInit
  BY EndpointExitFrees, SameIsSound
<1>2. FailWith(c, y)
  BY DEF FailEndpoint
<1> HIDE DEF x
<1>3. y \in Devices /\ Sound(y) /\ Empty(y)
  BY <1>1, PlugInExitFrees, SameIsSound
<1> HIDE DEF y
<1> QED
  BY <1>2, <1>3, FailWithKeeps

\* Where no endpoint is being created there is no endpoint init to free.
LEMMA FailPlugInKeeps ==
    ASSUME ControllerInv, NEW c \in Controllers, NEW a \in StartCalls \ {"Endpoint"},
           Calls(c, a), FailPlugIn(c)
    PROVE  ControllerInv'
<1> DEFINE y == PlugInExit(dev[c])
<1>1. dev[c] \in Devices /\ Sound(dev[c]) /\ Accounted(dev[c]) /\ ~ dev[c].endpointInit
  BY Starting DEF StartedUpTo
<1>2. y \in Devices /\ Sound(y) /\ Empty(y)
  BY <1>1, PlugInExitFrees, SameIsSound
<1>3. FailWith(c, y)
  BY DEF FailPlugIn
<1> HIDE DEF y
<1> QED
  BY <1>2, <1>3, FailWithKeeps

\* The calls of a start: the copy of the table is there until the handler ends.
LEMMA AllocateConfigDescSetKeeps ==
    ASSUME ControllerInv, NEW c \in Controllers, AllocateConfigDescSet(c)
    PROVE  ControllerInv'
<1> DEFINE d == [dev[c] EXCEPT !.configDescSet = TRUE,
                               !.temporaries = dev[c].temporaries + 1]
<1>1. CASE Succeed(c, d, "ConfigDescriptor")
  <2>1. /\ StartedUpTo("ConfigDescSet", dev[c]) /\ Sound(dev[c]) /\ Accounted(dev[c])
        /\ dev[c].IoContext /\ dev[c].UsbContext /\ dev[c] \in Devices
    BY Starting DEF AllocateConfigDescSet, StartCalls
  <2>2. /\ ~ dev[c].configDescSet /\ ~ dev[c].endpointInit /\ dev[c].temporaries = 0
    BY <2>1 DEF StartedUpTo, Accounted, Held
  <2>3. d \in Devices
    <3>1. dev[c].temporaries + 1 \in 0..2
      BY <2>2
    <3> QED
      BY <2>1, <3>1 DEF Devices
  <2>4. SameObjects(dev[c], d)
    BY <2>1 DEF Devices, SameObjects
  <2>5. d.configDescSet /\ ~ d.endpointInit /\ d.temporaries = 1
    BY <2>1, <2>2 DEF Devices
  <2> HIDE DEF d
  <2>6. d.name = dev[c].name /\ d.IoContext /\ d.UsbContext
    BY <2>1, <2>4 DEF SameObjects
  <2>7. Sound(d)
    BY <2>1, <2>4, SameIsSound
  <2>8. StartedUpTo("ConfigDescriptor", d)
    BY <2>5 DEF StartedUpTo
  <2>9. Accounted(d)
    BY <2>5 DEF Accounted, Held
  <2> QED
    BY <1>1, <2>3, <2>6, <2>7, <2>8, <2>9, StartCallKeeps
       DEF AllocateConfigDescSet, StartCalls
<1> QED
  BY <1>1, FailPlugInKeeps DEF AllocateConfigDescSet, StartCalls

\* A device init that was consumed stops the handler here, by a failure or by a
\* crash of the system.
LEMMA AddConfigDescriptorKeeps ==
    ASSUME ControllerInv, NEW c \in Controllers, AddConfigDescriptor(c)
    PROVE  ControllerInv'
<1>1. /\ StartedUpTo("ConfigDescriptor", dev[c]) /\ Sound(dev[c])
      /\ Accounted(dev[c]) /\ dev[c].IoContext /\ dev[c].UsbContext /\ dev[c] \in Devices
  BY Starting DEF AddConfigDescriptor, StartCalls
<1>2. CASE dev[c].UdecxUsbDeviceInit = "allocated" /\ Succeed(c, dev[c], "UsbDevice")
  <2>1. StartedUpTo("UsbDevice", dev[c])
    BY <1>1, <1>2 DEF StartedUpTo
  <2> QED
    BY <1>1, <1>2, <2>1, StartCallKeeps DEF AddConfigDescriptor, StartCalls
<1>3. CASE Enter(c, "bugcheck") /\ UNCHANGED <<at, starts, instance, dev>>
  <2>1. Consistent("bugcheck", at[c], instance[c], dev[c])
    BY <1>1 DEF Consistent
  <2>2. /\ phase' = [phase EXCEPT ![c] = "bugcheck"] /\ "bugcheck" \in Phases
        /\ at' = [at EXCEPT ![c] = at[c]]
        /\ starts' \in [Controllers -> 0..MaxStarts]
        /\ instance' = [instance EXCEPT ![c] = instance[c]]
        /\ dev' = [dev EXCEPT ![c] = dev[c]]
    BY <1>3 DEF Enter, ControllerInv, TypeOK, Phases
  <2> QED
    BY <2>1, <2>2, OfOne, StepOfOne
<1> QED
  BY <1>2, <1>3, FailPlugInKeeps DEF AddConfigDescriptor, StartCalls

\* Creating the USB device consumes the device init, so that a second start
\* never gets here.
LEMMA UsbDeviceCreateKeeps ==
    ASSUME ControllerInv, NEW c \in Controllers, UsbDeviceCreate(c)
    PROVE  ControllerInv'
<1> DEFINE d == [dev[c] EXCEPT !.UdecxUsbDeviceInit = "null",
                               !.VirtualMbimDevice = "created"]
<1>1. CASE Succeed(c, d, "Queue")
  <2>1. /\ StartedUpTo("UsbDevice", dev[c]) /\ Sound(dev[c])
        /\ Accounted(dev[c])
        /\ dev[c].IoContext /\ dev[c].UsbContext /\ dev[c] \in Devices
    BY Starting DEF UsbDeviceCreate, StartCalls
  <2>2. Fresh(dev[c]) /\ ~ dev[c].endpointInit
    BY <2>1 DEF StartedUpTo, Sound
  <2>3. /\ d \in Devices /\ d.name = dev[c].name /\ d.IoContext /\ d.UsbContext
        /\ d.VirtualMbimDevice = "created" /\ d.UdecxUsbDeviceInit = "null"
        /\ d.endpoints = {} /\ d.queues = {} /\ ~ d.endpointInit
        /\ d.configDescSet = dev[c].configDescSet /\ d.temporaries = dev[c].temporaries
    BY <2>1, <2>2 DEF Devices, Fresh
  <2> HIDE DEF d
  <2>4. EndpointsUpTo("Queue", 0, d)
    BY <2>3, CreatedCount DEF EndpointsUpTo, QueuesOf
  <2>5. StartedUpTo("Queue", d) /\ Sound(d)
    BY <2>1, <2>3, <2>4 DEF StartedUpTo, Sound
  <2>6. Accounted(d)
    BY <2>1, <2>2, <2>3 DEF Accounted, Held
  <2> QED
    BY <1>1, <2>3, <2>5, <2>6, StartCallKeeps DEF UsbDeviceCreate, StartCalls
<1> QED
  BY <1>1, FailPlugInKeeps DEF UsbDeviceCreate, StartCalls
-----------------------------------------------------------------------------
(* Creating the endpoints.                                                  *)

\* On the way to endpoint k + 1 that is the endpoint the handler creates, and
\* the device init has been consumed.
LEMMA OnTheWay ==
    ASSUME ControllerInv, NEW c \in Controllers,
           NEW a \in {"Queue", "EndpointInit", "Endpoint"}, Calls(c, a)
    PROVE  \E k \in 0..5 :
              /\ EndpointsUpTo(a, k, dev[c])
              /\ NextEndpoint(c) = EndpointOrder[k + 1]
              /\ dev[c].VirtualMbimDevice = "created"
              /\ dev[c].UdecxUsbDeviceInit # "allocated"
              /\ dev[c].endpointInit <=> a = "Endpoint"
<1>1. StartedUpTo(a, dev[c]) /\ Sound(dev[c])
  BY Starting DEF StartCalls
<1>2. PICK k \in 0..6 : EndpointsUpTo(a, k, dev[c])
  BY <1>1 DEF StartedUpTo
<1>3. k \in 0..5
  BY <1>2 DEF EndpointsUpTo
<1>4. Cardinality(dev[c].endpoints) = k
  BY <1>2, CreatedCount DEF EndpointsUpTo
<1>5. NextEndpoint(c) = EndpointOrder[k + 1]
  BY <1>4 DEF NextEndpoint
<1>6. dev[c].VirtualMbimDevice = "created"
  BY <1>1 DEF StartedUpTo
<1>7. dev[c].UdecxUsbDeviceInit # "allocated"
  BY <1>1, <1>6 DEF Sound, Fresh
<1> QED
  BY <1>1, <1>2, <1>3, <1>5, <1>6, <1>7 DEF StartedUpTo

\* A device with a USB device that is not plugged in, and no init to make one
\* from, is sound.
LEMMA SoundUnplugged ==
    ASSUME NEW d, d.VirtualMbimDevice = "created", d.UdecxUsbDeviceInit # "allocated"
    PROVE  Sound(d)
BY DEF Sound

\* What Io_Retrieve<e>Queue makes of d, in whole or in part.
PartsOf(d, e) == {d, WithQueue(d, e), WithReadyQueue(d), AllObjects(d, e)}

\* That is no more than the queue, the ready callback, the lock and the list heads.
LEMMA PartsOfType ==
    ASSUME NEW d \in Devices, NEW e \in Endpoints, NEW part \in PartsOf(d, e)
    PROVE  /\ part \in Devices
           /\ part.name = d.name
           /\ part.IoContext = d.IoContext /\ part.UsbContext = d.UsbContext
           /\ part.VirtualMbimDevice = d.VirtualMbimDevice
           /\ part.UdecxUsbDeviceInit = d.UdecxUsbDeviceInit
           /\ part.endpoints = d.endpoints
           /\ part.endpointInit = d.endpointInit
           /\ Accounted(d) => Accounted(part)
           /\ part = AllObjects(d, e) =>
                 part.queues = d.queues \cup ({e} \cap CachedQueues)
<1> DEFINE Like(x) == /\ x \in Devices /\ x.name = d.name
                      /\ x.IoContext = d.IoContext /\ x.UsbContext = d.UsbContext
                      /\ x.VirtualMbimDevice = d.VirtualMbimDevice
                      /\ x.UdecxUsbDeviceInit = d.UdecxUsbDeviceInit
                      /\ x.endpoints = d.endpoints /\ x.endpointInit = d.endpointInit
                      /\ x.configDescSet = d.configDescSet
                      /\ x.temporaries = d.temporaries
           w == WithQueue(d, e)
           i == WithQueue(d, "Interrupt")
           r == WithReadyQueue(d)
           h == WithInterruptQueue(d)
<1>1. ASSUME NEW f \in Endpoints
      PROVE  /\ Like(WithQueue(d, f))
             /\ WithQueue(d, f).queues = d.queues \cup ({f} \cap CachedQueues)
             /\ WithQueue(d, f).readyNotify \in BOOLEAN
  <2> DEFINE q == d.queues \cup ({f} \cap CachedQueues)
  <2>1. q \in SUBSET CachedQueues
    BY DEF Devices
  <2>2. WithQueue(d, f) = [d EXCEPT !.queues = q]
    BY DEF WithQueue
  <2> HIDE DEF q
  <2>3. Like([d EXCEPT !.queues = q]) /\ [d EXCEPT !.queues = q].queues = q
        /\ [d EXCEPT !.queues = q].readyNotify \in BOOLEAN
    BY <2>1 DEF Devices
  <2> HIDE DEF Like
  <2> QED
    BY <2>2, <2>3 DEF q
<1>2. Like(i) /\ i.queues = d.queues \cup {"Interrupt"} /\ i.readyNotify \in BOOLEAN
  <2>1. "Interrupt" \in Endpoints /\ {"Interrupt"} \cap CachedQueues = {"Interrupt"}
    BY DEF Endpoints, EndpointOrder, CachedQueues
  <2> HIDE DEF Like
  <2> QED
    BY <1>1, <2>1
<1>3. Like(r) /\ r.queues = i.queues
  <2>1. PICK n \in BOOLEAN : r = [i EXCEPT !.readyNotify = n]
    <3>1. r = [i EXCEPT !.readyNotify = (i.readyNotify \/ "Interrupt" \notin d.queues)]
      BY DEF WithReadyQueue
    <3>2. (i.readyNotify \/ "Interrupt" \notin d.queues) \in BOOLEAN
      OBVIOUS
    <3> HIDE DEF r, i
    <3> QED
      BY <3>1, <3>2
  <2> HIDE DEF i, r
  <2> QED
    BY <1>2, <2>1 DEF Devices
<1>4. Like(h) /\ h.queues = r.queues
  <2>1. h = [r EXCEPT !.InProgressLock = TRUE, !.lists = TRUE]
    BY DEF WithInterruptQueue
  <2> HIDE DEF h, r
  <2> QED
    BY <1>3, <2>1 DEF Devices
<1> HIDE DEF w, i, r, h
<1>5. AllObjects(d, e) = IF e = "Interrupt" THEN h ELSE w
  BY DEF AllObjects, h, w
<1>6. part \in {d, w, r, h}
  BY <1>5 DEF PartsOf, w, r
<1>7. Like(w) /\ w.queues = d.queues \cup ({e} \cap CachedQueues)
  BY <1>1 DEF w
<1>8. Like(d)
  OBVIOUS
<1>9. Like(part)
  <2> HIDE DEF Like
  <2> QED
    BY <1>3, <1>4, <1>6, <1>7, <1>8
<1>10. part = AllObjects(d, e) => part.queues = d.queues \cup ({e} \cap CachedQueues)
  BY <1>2, <1>3, <1>4, <1>5, <1>7 DEF CachedQueues
<1>11. Accounted(d) => Accounted(part)
  BY <1>9 DEF Accounted, Held
<1> QED
  BY <1>9, <1>10, <1>11

\* A failure on the way to the queue leaves one of those parts.
LEMMA QueueFailsWithPart ==
    ASSUME NEW c, NEW e, QueueFails(c, e)
    PROVE  \E part \in PartsOf(dev[c], e) : FailEndpoint(c, e, part)
BY DEF QueueFails, PartsOf

\* The interrupt endpoint's queue comes with everything it needs, and the queues
\* that follow leave that alone.
LEMMA AllObjectsKeepsQueues ==
    ASSUME NEW d \in Devices, NEW k \in 0..5, QueuesOf(d, k)
    PROVE  QueuesOf(AllObjects(d, EndpointOrder[k + 1]), k + 1)
<1> DEFINE e == EndpointOrder[k + 1]
           o == AllObjects(d, e)
<1>1. e \in Endpoints /\ (e = "Interrupt" <=> k = 1)
  BY DEF Endpoints, EndpointOrder
<1>2. o \in PartsOf(d, e)
  BY DEF PartsOf
<1>3. o.queues = d.queues \cup ({e} \cap CachedQueues)
  BY <1>1, <1>2, PartsOfType
<1>4. o.queues = Created(k + 1) \cap CachedQueues
  <2>1. Created(k + 1) = Created(k) \cup {e} /\ d.queues = Created(k) \cap CachedQueues
    BY CreatedNext DEF QueuesOf
  <2> HIDE DEF o, e
  <2> QED
    BY <1>3, <2>1
<1>5. CASE k = 1
  <2> DEFINE q == WithQueue(d, e)
             r == WithReadyQueue(d)
  <2>1. q \in Devices /\ r \in Devices /\ e = "Interrupt"
    BY <1>1, <1>5, PartsOfType DEF PartsOf
  \* The queue is not there yet, so that its callback is registered.
  <2>2. "Interrupt" \notin d.queues
    <3>1. \A i \in 1..1 : EndpointOrder[i] # "Interrupt"
      BY DEF EndpointOrder
    <3> QED
      BY <1>5, <3>1 DEF QueuesOf, Created
  <2>3. r = [q EXCEPT !.readyNotify = (q.readyNotify \/ "Interrupt" \notin d.queues)]
    BY <2>1 DEF WithReadyQueue
  <2>4. o = [r EXCEPT !.InProgressLock = TRUE, !.lists = TRUE]
    BY <2>1 DEF AllObjects, WithInterruptQueue
  <2> HIDE DEF o, e, q, r
  <2>5. r.readyNotify
    BY <2>1, <2>2, <2>3 DEF Devices
  <2>6. o.readyNotify /\ o.InProgressLock /\ o.lists
    BY <2>1, <2>4, <2>5 DEF Devices
  <2> QED
    BY <1>4, <2>6 DEF o, e, QueuesOf
<1>6. CASE k # 1
  <2>1. o = [d EXCEPT !.queues = d.queues \cup ({e} \cap CachedQueues)]
    BY <1>1, <1>6 DEF AllObjects, WithQueue
  <2> HIDE DEF o, e
  <2>2. /\ o.readyNotify = d.readyNotify /\ o.InProgressLock = d.InProgressLock
        /\ o.lists = d.lists
    BY <2>1 DEF Devices
  <2>3. k + 1 >= 2 => k >= 2
    BY <1>6
  <2> QED
    BY <1>4, <2>2, <2>3 DEF o, e, QueuesOf
<1> QED
  BY <1>5, <1>6

\* Of an endpoint: its queue, or any part of what makes it, ...
LEMMA RetrieveQueueKeeps ==
    ASSUME ControllerInv, NEW c \in Controllers, RetrieveQueue(c, NextEndpoint(c))
    PROVE  ControllerInv'
<1> DEFINE e == NextEndpoint(c)
           o == AllObjects(dev[c], e)
<1>1. PICK k \in 0..5 :
        /\ EndpointsUpTo("Queue", k, dev[c])
        /\ e = EndpointOrder[k + 1]
        /\ dev[c].VirtualMbimDevice = "created"
        /\ dev[c].UdecxUsbDeviceInit # "allocated"
        /\ ~ dev[c].endpointInit
  BY OnTheWay DEF RetrieveQueue
<1>2. /\ dev[c] \in Devices /\ Accounted(dev[c])
      /\ dev[c].IoContext /\ dev[c].UsbContext
  BY Starting DEF RetrieveQueue, StartCalls
<1>3. e \in Endpoints
  BY <1>1 DEF Endpoints, EndpointOrder
<1>4. \A part \in PartsOf(dev[c], e) :
        /\ part \in Devices /\ Sound(part) /\ part.name = dev[c].name
        /\ Accounted(part)
        /\ part.IoContext /\ part.UsbContext
        /\ part.VirtualMbimDevice = "created"
        /\ part.endpoints = dev[c].endpoints /\ ~ part.endpointInit
  BY <1>1, <1>2, <1>3, PartsOfType, SoundUnplugged
<1>5. CASE Succeed(c, o, "EndpointInit")
  <2>1. o \in PartsOf(dev[c], e)
    BY DEF PartsOf
  <2>2. QueuesOf(o, k + 1)
    BY <1>1, <1>2, AllObjectsKeepsQueues DEF EndpointsUpTo
  <2> HIDE DEF o
  <2>3. EndpointsUpTo("EndpointInit", k, o)
    BY <1>1, <1>4, <2>1, <2>2 DEF EndpointsUpTo
  <2>4. StartedUpTo("EndpointInit", o)
    BY <1>4, <2>1, <2>3 DEF StartedUpTo
  <2> QED
    BY <1>4, <1>5, <2>1, <2>4, StartCallKeeps DEF RetrieveQueue, StartCalls
<1>6. ASSUME NEW part \in PartsOf(dev[c], e), FailEndpoint(c, e, part)
      PROVE  ControllerInv'
  BY <1>4, <1>6, FailEndpointKeeps
<1> QED
  BY <1>5, <1>6, QueueFailsWithPart DEF RetrieveQueue

\* ... its endpoint init, ...
LEMMA EndpointInitAllocateKeeps ==
    ASSUME ControllerInv, NEW c \in Controllers, NEW e, EndpointInitAllocate(c, e)
    PROVE  ControllerInv'
<1> DEFINE d == [dev[c] EXCEPT !.endpointInit = TRUE,
                               !.temporaries = dev[c].temporaries + 1]
<1>1. PICK k \in 0..5 :
        /\ EndpointsUpTo("EndpointInit", k, dev[c])
        /\ dev[c].VirtualMbimDevice = "created"
        /\ dev[c].UdecxUsbDeviceInit # "allocated"
        /\ ~ dev[c].endpointInit
  BY OnTheWay DEF EndpointInitAllocate
<1>2. /\ dev[c] \in Devices /\ Sound(dev[c]) /\ Accounted(dev[c])
      /\ dev[c].IoContext /\ dev[c].UsbContext
  BY Starting DEF EndpointInitAllocate, StartCalls
<1>3. CASE Succeed(c, d, "Endpoint")
  <2>1. dev[c].temporaries + 1 \in 0..2
    BY <1>1, <1>2 DEF Accounted, Held
  <2>2. d \in Devices
    BY <1>2, <2>1 DEF Devices
  <2>3. SameObjects(dev[c], d)
    BY <1>2 DEF Devices, SameObjects
  <2>4. /\ d.endpointInit /\ d.configDescSet = dev[c].configDescSet
        /\ d.temporaries = dev[c].temporaries + 1
    BY <1>2 DEF Devices
  <2> HIDE DEF d
  <2>5. EndpointsUpTo("Endpoint", k, d)
    BY <1>1, <2>3 DEF EndpointsUpTo, QueuesOf, SameObjects
  <2>6. Sound(d)
    BY <1>2, <2>3, SameIsSound
  <2>7. d.VirtualMbimDevice = "created" /\ k \in 0..6
    BY <1>1, <2>3 DEF SameObjects
  <2>8. StartedUpTo("Endpoint", d)
    BY <2>4, <2>5, <2>7 DEF StartedUpTo
  <2>9. Accounted(d)
    BY <1>1, <1>2, <2>4 DEF Accounted, Held, Devices
  <2>10. d.name = dev[c].name /\ d.IoContext /\ d.UsbContext
    BY <1>2, <2>3 DEF SameObjects
  <2> QED
    BY <1>3, <2>2, <2>6, <2>8, <2>9, <2>10, StartCallKeeps
       DEF EndpointInitAllocate, StartCalls
<1> QED
  BY <1>2, <1>3, FailEndpointKeeps DEF EndpointInitAllocate

\* ... and the endpoint, which consumes the init, so that the exit finds none.
LEMMA UsbEndpointCreateKeeps ==
    ASSUME ControllerInv, NEW c \in Controllers,
           UsbEndpointCreate(c, NextEndpoint(c))
    PROVE  ControllerInv'
<1> DEFINE e == NextEndpoint(c)
           d == UsbEndpointCreated(dev[c], e)
           b == IF e = EndpointOrder[Len(EndpointOrder)] THEN "PlugIn" ELSE "Queue"
<1>1. PICK k \in 0..5 :
        /\ EndpointsUpTo("Endpoint", k, dev[c])
        /\ e = EndpointOrder[k + 1]
        /\ dev[c].VirtualMbimDevice = "created"
        /\ dev[c].UdecxUsbDeviceInit # "allocated"
        /\ dev[c].endpointInit
  BY OnTheWay, Starting DEF UsbEndpointCreate, StartedUpTo, StartCalls
<1>2. /\ dev[c] \in Devices /\ Sound(dev[c]) /\ Accounted(dev[c])
      /\ dev[c].IoContext /\ dev[c].UsbContext
  BY Starting DEF UsbEndpointCreate, StartCalls
<1>3. e \in Endpoints /\ (e = EndpointOrder[Len(EndpointOrder)] <=> k = 5)
  BY <1>1 DEF Endpoints, EndpointOrder
<1>4. b \in {"PlugIn", "Queue"} /\ (b = "PlugIn" <=> k + 1 = 6)
  BY <1>3
<1>5. Created(k + 1) = dev[c].endpoints \cup {e}
  BY <1>1, CreatedNext DEF EndpointsUpTo
<1>6. QueuesOf(dev[c], k + 1)
  BY <1>1 DEF EndpointsUpTo
<1>7. dev[c].temporaries - 1 \in 0..2
  BY <1>1, <1>2 DEF Accounted, Held, Devices
<1>8. Calls(c, "Endpoint") /\ "Endpoint" \in StartCalls
  BY DEF UsbEndpointCreate, StartCalls
<1>9. Succeed(c, EndpointExit(d, e), b) \/ FailEndpoint(c, e, dev[c])
  BY DEF UsbEndpointCreate
<1>10. d = [dev[c] EXCEPT !.endpoints = dev[c].endpoints \cup {e}, !.endpointInit = FALSE,
                          !.temporaries = dev[c].temporaries - 1]
  BY DEF UsbEndpointCreated
<1> HIDE DEF b, e, d
<1>11. /\ d \in Devices /\ d.name = dev[c].name
       /\ d.IoContext /\ d.UsbContext
       /\ d.VirtualMbimDevice = "created" /\ d.UdecxUsbDeviceInit # "allocated"
       /\ d.endpoints = dev[c].endpoints \cup {e} /\ ~ d.endpointInit
       /\ d.configDescSet = dev[c].configDescSet
       /\ d.temporaries = dev[c].temporaries - 1
  BY <1>1, <1>2, <1>3, <1>7, <1>10 DEF Devices
<1>12. QueuesOf(d, k + 1)
  BY <1>2, <1>6, <1>10 DEF QueuesOf, Devices
<1>13. EndpointsUpTo(b, k + 1, d) /\ k + 1 \in 0..6
  BY <1>4, <1>5, <1>11, <1>12 DEF EndpointsUpTo
<1>14. StartedUpTo(b, d) /\ Sound(d)
  BY <1>4, <1>11, <1>13, SoundUnplugged DEF StartedUpTo
<1>15. Accounted(d)
  BY <1>1, <1>2, <1>11 DEF Accounted, Held, Devices
<1>16. EndpointExit(d, e) = d
  BY <1>11, <1>15, EndpointExitFrees
<1>17. b \in StartCalls
  BY <1>4 DEF StartCalls
<1>18. CASE Succeed(c, d, b)
  BY <1>8, <1>11, <1>14, <1>15, <1>17, <1>18, StartCallKeeps
<1> QED
  BY <1>2, <1>9, <1>16, <1>18, FailEndpointKeeps

\* So each of the three keeps the invariant.
LEMMA CreateEndpointKeeps ==
    ASSUME ControllerInv, NEW c \in Controllers, NEW e, CreateEndpoint(c, e)
    PROVE  ControllerInv'
BY RetrieveQueueKeeps, EndpointInitAllocateKeeps, UsbEndpointCreateKeeps
   DEF CreateEndpoint

\* The device is plugged in after the last endpoint, when it has them all; the
\* exit is the same as after a failure.
LEMMA PlugInKeeps ==
    ASSUME ControllerInv, NEW c \in Controllers, PlugIn(c)
    PROVE  ControllerInv'
<1> DEFINE d == [dev[c] EXCEPT !.VirtualMbimDevice = "plugged"]
           x == PlugInExit(d)
<1>1. ASSUME dev' = [dev EXCEPT ![c] = x],
             Enter(c, "D0"), UNCHANGED <<at, starts, instance>>
      PROVE  ControllerInv'
  <2>1. /\ StartedUpTo("PlugIn", dev[c]) /\ Sound(dev[c]) /\ Accounted(dev[c])
        /\ dev[c].name # NoName /\ dev[c].IoContext /\ dev[c].UsbContext
        /\ dev[c] \in Devices
    BY Starting DEF PlugIn, StartCalls
  <2>2. EndpointsUpTo("PlugIn", 6, dev[c])
    BY <2>1 DEF StartedUpTo, EndpointsUpTo
  <2>3. /\ dev[c].endpoints = Endpoints
        /\ dev[c].queues = CachedQueues
        /\ dev[c].readyNotify /\ dev[c].InProgressLock /\ dev[c].lists
    <3>1. Endpoints \cap CachedQueues = CachedQueues
      BY DEF Endpoints, EndpointOrder, CachedQueues
    <3> QED
      BY <2>2, <3>1, CreatedCount DEF EndpointsUpTo, QueuesOf
  <2>4. ~ dev[c].endpointInit /\ dev[c].UdecxUsbDeviceInit # "allocated"
    BY <2>1 DEF StartedUpTo, Sound, Fresh
  <2>5. /\ phase' = [phase EXCEPT ![c] = "D0"] /\ "D0" \in Phases
        /\ at' = [at EXCEPT ![c] = at[c]]
        /\ starts' \in [Controllers -> 0..MaxStarts]
        /\ instance' = [instance EXCEPT ![c] = instance[c]]
    BY <1>1 DEF Enter, ControllerInv, TypeOK, Phases
  <2>6. /\ d \in Devices /\ d.name = dev[c].name /\ d.VirtualMbimDevice = "plugged"
        /\ d.UdecxUsbDeviceInit # "allocated" /\ d.IoContext /\ d.UsbContext
        /\ d.endpoints = Endpoints /\ d.queues = CachedQueues
        /\ d.readyNotify /\ d.InProgressLock /\ d.lists /\ ~ d.endpointInit
        /\ d.configDescSet = dev[c].configDescSet /\ d.temporaries = dev[c].temporaries
    BY <2>1, <2>3, <2>4 DEF Devices
  <2> HIDE DEF d
  <2>7. Sound(d) /\ Accounted(d)
    BY <2>1, <2>4, <2>6 DEF Sound, Complete, Accounted, Held
  <2>8. x \in Devices /\ SameObjects(d, x) /\ Empty(x) /\ Sound(x) /\ Accounted(x)
    BY <2>6, <2>7, PlugInExitFrees, SameIsSound, EmptyIsAccounted
  <2> HIDE DEF x
  <2>9. Consistent("D0", at[c], instance[c], x)
    BY <2>1, <2>6, <2>8 DEF Consistent, SameObjects
  <2> QED
    BY <1>1, <2>5, <2>8, <2>9, OfOne, StepOfOne
<1>2. \/ /\ dev' = [dev EXCEPT ![c] = x]
         /\ Enter(c, "D0") /\ UNCHANGED <<at, starts, instance>>
      \/ FailPlugIn(c)
  BY DEF PlugIn, ControllerInv, TypeOK
<1> QED
  BY <1>1, <1>2, FailPlugInKeeps DEF PlugIn, StartCalls

\* So every step of a start keeps the invariant.
LEMMA PlugInStepKeeps ==
    ASSUME ControllerInv, NEW c \in Controllers, PlugInStep(c)
    PROVE  ControllerInv'
BY AllocateConfigDescSetKeeps, AddConfigDescriptorKeeps, UsbDeviceCreateKeeps,
   CreateEndpointKeeps, PlugInKeeps
   DEF PlugInStep, UsbCreateControlEndpoint, UsbCreateInterruptEndpoint,
       UsbCreateBulkInEndpoint, UsbCreateBulkOutEndpoint,
       UsbDevice_CreateAndAddEndpoint
-----------------------------------------------------------------------------
(* Power transitions, removal, and the invariant.                           *)

\* Low power and back changes no object.
LEMMA LowPowerKeeps ==
    ASSUME ControllerInv, NEW c \in Controllers, LowPower(c)
    PROVE  ControllerInv'
<1>1. PICK p \in {"D0", "Dx"} : phase' = [phase EXCEPT ![c] = p]
  BY DEF LowPower, Enter
<1>2. phase[c] \in {"D0", "Dx"}
  BY DEF LowPower
<1>3. p \in Phases /\ Consistent(p, at[c], instance[c], dev[c])
  BY <1>1, <1>2, OfOne DEF Consistent, Phases
<1>4. /\ at' = [at EXCEPT ![c] = at[c]]
      /\ starts' \in [Controllers -> 0..MaxStarts]
      /\ instance' = [instance EXCEPT ![c] = instance[c]]
      /\ dev' = [dev EXCEPT ![c] = dev[c]]
  BY DEF LowPower, ControllerInv, TypeOK
<1> QED
  BY <1>1, <1>3, <1>4, OfOne, StepOfOne

\* Usb_Disconnect deletes the USB device and leaves what the next start may find.
LEMMA D0ExitToD3FinalKeeps ==
    ASSUME ControllerInv, NEW c \in Controllers, D0ExitToD3Final(c)
    PROVE  ControllerInv'
<1> DEFINE x == [dev[c] EXCEPT !.VirtualMbimDevice = "deleted", !.endpoints = {}]
<1>1. /\ phase[c] = "D0" /\ dev[c] \in Devices
      /\ Consistent("D0", at[c], instance[c], dev[c])
  BY OfOne DEF D0ExitToD3Final
<1>2. PICK d \in {dev[c], x} : dev' = [dev EXCEPT ![c] = d]
  BY DEF D0ExitToD3Final, ControllerInv, TypeOK
<1>3. x \in Devices /\ x.name = dev[c].name
  BY <1>1 DEF Devices
<1>4. Consistent("D3Final", at[c], instance[c], x)
  <2>1. /\ Sound(dev[c]) /\ Empty(dev[c]) /\ dev[c].VirtualMbimDevice = "plugged"
        /\ dev[c].name # NoName /\ dev[c].IoContext /\ dev[c].UsbContext
    BY <1>1 DEF Consistent
  <2>2. /\ x.UdecxUsbDeviceInit = dev[c].UdecxUsbDeviceInit
        /\ x.VirtualMbimDevice = "deleted"
        /\ x.name # NoName /\ x.IoContext /\ x.UsbContext
    BY <1>1, <2>1 DEF Devices
  <2>3. Empty(x)
    BY <1>1, <2>1 DEF Devices, Empty
  <2> HIDE DEF x
  <2>4. Sound(x)
    BY <2>1, <2>2 DEF Sound, Fresh
  <2> QED
    BY <2>2, <2>3, <2>4, EmptyIsAccounted DEF Consistent
<1>5. Consistent("D3Final", at[c], instance[c], dev[c])
  BY <1>1 DEF Consistent
<1>6. /\ phase' = [phase EXCEPT ![c] = "D3Final"] /\ "D3Final" \in Phases
      /\ at' = [at EXCEPT ![c] = at[c]]
      /\ starts' \in [Controllers -> 0..MaxStarts]
      /\ instance' = [instance EXCEPT ![c] = instance[c]]
  BY DEF D0ExitToD3Final, Enter, ControllerInv, TypeOK, Phases
<1> HIDE DEF x
<1> QED
  BY <1>1, <1>2, <1>3, <1>4, <1>5, <1>6, OfOne, StepOfOne

\* A device init that is still there belongs to a USB context, by which the
\* cleanup finds it; temporary allocations there are none.
LEMMA RemoveKeeps ==
    ASSUME ControllerInv, NEW c \in Controllers, Remove(c)
    PROVE  ControllerInv'
<1> DEFINE init == IF dev[c].UsbContext /\ dev[c].UdecxUsbDeviceInit # "null"
                   THEN "freed" ELSE dev[c].UdecxUsbDeviceInit
           d == [NewDevice EXCEPT !.UdecxUsbDeviceInit = init,
                                  !.temporaries = dev[c].temporaries]
<1>1. /\ phase[c] \in {"failed", "added", "D3Final"} /\ dev[c] \in Devices
      /\ Consistent(phase[c], at[c], instance[c], dev[c])
  BY OfOne DEF Remove
<1>2. /\ at' = [at EXCEPT ![c] = at[c]]
      /\ starts' \in [Controllers -> 0..MaxStarts]
      /\ instance' = [instance EXCEPT ![c] = instance[c]]
  BY DEF Remove, ControllerInv, TypeOK
<1>3. CASE Enter(c, "bugcheck") /\ UNCHANGED dev
  <2>1. Consistent("bugcheck", at[c], instance[c], dev[c])
    BY <1>1 DEF Consistent
  <2>2. /\ phase' = [phase EXCEPT ![c] = "bugcheck"] /\ "bugcheck" \in Phases
        /\ dev' = [dev EXCEPT ![c] = dev[c]]
    BY <1>3 DEF Enter, ControllerInv, TypeOK, Phases
  <2> QED
    BY <1>2, <2>1, <2>2, OfOne, StepOfOne
<1>4. CASE Enter(c, "gone") /\ dev' = [dev EXCEPT ![c] = d]
  <2>1. init \in {"null", "freed"}
    BY <1>1 DEF Consistent, Sound, Devices
  <2>2. dev[c].temporaries = 0
    BY <1>1 DEF Consistent, Empty
  <2> HIDE DEF init
  <2>3. NewDevice \in Devices
    BY ControllersAssumption DEF NewDevice, Devices, NoName
  <2>4. /\ d.name = NoName /\ ~ d.configDescSet /\ ~ d.endpointInit
        /\ d.UdecxUsbDeviceInit = init /\ d.VirtualMbimDevice = "null"
        /\ d.temporaries = dev[c].temporaries
    BY DEF NewDevice
  <2>5. d \in Devices
    BY <1>1, <2>1, <2>3 DEF Devices
  <2> HIDE DEF d
  <2>7. Consistent("gone", at[c], instance[c], d)
    BY <2>1, <2>2, <2>4, EmptyIsAccounted DEF Consistent, Sound, Empty
  <2>6. phase' = [phase EXCEPT ![c] = "gone"] /\ "gone" \in Phases
    BY <1>4 DEF Enter, Phases
  <2> QED
    BY <1>2, <1>4, <2>5, <2>6, <2>7, OfOne, StepOfOne
<1> QED
  BY <1>3, <1>4 DEF Remove

\* The invariant holds of no device ...
LEMMA ControllerInit == Init => ControllerInv
<1> SUFFICES ASSUME Init PROVE ControllerInv
  OBVIOUS
<1>1. NewDevice \in Devices
  BY ControllersAssumption DEF NewDevice, Devices, NoName
<1>2. TypeOK
  BY <1>1, ControllersAssumption DEF Init, TypeOK, Phases, AddCalls
<1>3. Consistent("absent", "WdfDeviceInit", 0, NewDevice)
  BY DEF Consistent, Sound, AddedUpTo, Fresh, NewDevice, AddCalls, Accounted, Held,
         Empty
<1> QED
  BY <1>2, <1>3 DEF Init, ControllerInv

\* ... and every step keeps it.
LEMMA ControllerNext == ControllerInv /\ [Next]_vars => ControllerInv'
<1>1. ASSUME ControllerInv, Next PROVE ControllerInv'
  BY <1>1, DeviceAddKeeps, DeviceAddStepKeeps, D0EntryFromD3FinalKeeps,
     PlugInStepKeeps, LowPowerKeeps, D0ExitToD3FinalKeeps, RemoveKeeps DEF Next
<1>2. ASSUME ControllerInv, UNCHANGED vars PROVE ControllerInv'
  BY <1>2 DEF vars, ControllerInv, TypeOK, Consistent, Sound, Fresh,
     Complete, AddedUpTo, StartedUpTo, EndpointsUpTo, QueuesOf, Accounted, Held, Empty
<1> QED
  BY <1>1, <1>2

\* Every reachable state satisfies the invariant.
THEOREM ControllerInvariance == Spec => []ControllerInv
<1> QED
  BY ControllerInit, ControllerNext, PTL DEF Spec

\* The contexts and objects of every device are well-typed.
THEOREM TypeCorrect == Spec => []TypeOK
<1>1. ControllerInv => TypeOK
  BY DEF ControllerInv
<1> QED
  BY <1>1, ControllerInvariance, PTL

\* A plugged-in device has everything the URB handlers use without a test, and a
\* working device is plugged in, whatever calls of earlier starts failed.
THEOREM PluggedInComplete == Spec => []PluggedIsComplete
<1>1. ControllerInv => PluggedIsComplete
  BY DEF ControllerInv, PluggedIsComplete, Consistent, Sound, Complete
<1> QED
  BY <1>1, ControllerInvariance, PTL

\* At every call, of whichever function and for whichever endpoint, and after
\* every exit: the temporary allocations that live are those a local pointer of a
\* running handler holds.
THEOREM NothingIsLeaked == Spec => []NothingLeaks
<1>1. ASSUME ControllerInv PROVE NothingLeaks
  <2>1. ASSUME NEW c \in Controllers
        PROVE  /\ dev[c].temporaries =
                     Cardinality({local \in {"configDescSet", "endpointInit"} :
                                    dev[c][local]})
               /\ phase[c] \notin {"starting", "bugcheck"} => dev[c].temporaries = 0
    <3> DEFINE held == {local \in {"configDescSet", "endpointInit"} : dev[c][local]}
    <3>1. Consistent(phase[c], at[c], instance[c], dev[c])
      BY <1>1, OfOne
    <3>2. held = (IF dev[c].configDescSet THEN {"configDescSet"} ELSE {})
                 \cup (IF dev[c].endpointInit THEN {"endpointInit"} ELSE {})
      OBVIOUS
    <3>3. Cardinality(held) = Held(dev[c])
      <4> HIDE DEF held
      <4>1. CASE dev[c].configDescSet /\ dev[c].endpointInit
        <5>1. held = {"configDescSet", "endpointInit"}
          BY <3>2, <4>1
        <5>2. IsFiniteSet({"configDescSet"}) /\ Cardinality({"configDescSet"}) = 1
          BY FS_Singleton
        <5>3. Cardinality({"configDescSet"} \cup {"endpointInit"}) = 1 + 1
          BY <5>2, FS_AddElement
        <5>4. {"configDescSet"} \cup {"endpointInit"} = {"configDescSet", "endpointInit"}
          OBVIOUS
        <5> QED
          BY <4>1, <5>1, <5>3, <5>4 DEF Held
      <4>2. CASE dev[c].configDescSet /\ ~ dev[c].endpointInit
        <5>1. held = {"configDescSet"}
          BY <3>2, <4>2
        <5>2. Cardinality(held) = 1
          BY <5>1, FS_Singleton
        <5> QED
          BY <4>2, <5>2 DEF Held
      <4>3. CASE ~ dev[c].configDescSet /\ dev[c].endpointInit
        <5>1. held = {"endpointInit"}
          BY <3>2, <4>3
        <5>2. Cardinality(held) = 1
          BY <5>1, FS_Singleton
        <5> QED
          BY <4>3, <5>2 DEF Held
      <4>4. CASE ~ dev[c].configDescSet /\ ~ dev[c].endpointInit
        <5>1. held = {}
          BY <3>2, <4>4
        <5> QED
          BY <4>4, <5>1, FS_EmptySet DEF Held
      <4>5. CASE dev[c].configDescSet
        BY <4>1, <4>2, <4>5
      <4>6. CASE ~ dev[c].configDescSet
        BY <4>3, <4>4, <4>6
      <4> QED
        BY <4>5, <4>6
    <3> HIDE DEF held
    <3>4. dev[c].temporaries = Cardinality(held)
      BY <3>1, <3>3 DEF Consistent, Accounted
    <3>5. phase[c] \notin {"starting", "bugcheck"} => dev[c].temporaries = 0
      BY <3>1 DEF Consistent, Empty
    <3> QED
      BY <3>4, <3>5 DEF held
  <2> QED
    BY <2>1 DEF NothingLeaks
<1> QED
  BY <1>1, ControllerInvariance, PTL
-----------------------------------------------------------------------------
(* What the system sees: each step is one of DevicePresence, or none.       *)

\* What is seen of a USB device d whose controller is in phase p.
Seen(p, d) ==
    IF p = "gone" THEN "gone"
    ELSE CASE d.VirtualMbimDevice = "plugged" -> "plugged"
           [] d.VirtualMbimDevice = "deleted" -> "unplugged"
           [] OTHER -> "none"

SeenNames   == [c \in Controllers |-> dev[c].name]
SeenDevices == [c \in Controllers |-> Seen(phase[c], dev[c])]

\* A step of one controller is seen of that controller only, in its name ...
LEMMA SeenNameStep ==
    ASSUME ControllerInv, NEW c \in Controllers, NEW d,
           dev' = [dev EXCEPT ![c] = d]
    PROVE  SeenNames' = [SeenNames EXCEPT ![c] = d.name]
<1>1. \A e \in Controllers : dev'[e] = IF e = c THEN d ELSE dev[e]
  BY DEF ControllerInv, TypeOK
<1>2. \A e \in Controllers : dev'[e].name = IF e = c THEN d.name ELSE dev[e].name
  BY <1>1
<1>3. SeenNames' = [e \in Controllers |-> IF e = c THEN d.name ELSE dev[e].name]
  BY <1>2 DEF SeenNames
<1> QED
  BY <1>3 DEF SeenNames

\* ... and in its device.
LEMMA SeenDeviceStep ==
    ASSUME ControllerInv, NEW c \in Controllers, NEW p, NEW d,
           phase' = [phase EXCEPT ![c] = p],
           dev' = [dev EXCEPT ![c] = d]
    PROVE  SeenDevices' = [SeenDevices EXCEPT ![c] = Seen(p, d)]
<1>1. \A e \in Controllers :
         /\ dev'[e] = IF e = c THEN d ELSE dev[e]
         /\ phase'[e] = IF e = c THEN p ELSE phase[e]
  BY DEF ControllerInv, TypeOK
<1>2. SeenDevices' = [e \in Controllers |-> IF e = c THEN Seen(p, d) ELSE SeenDevices[e]]
  BY <1>1 DEF SeenDevices, Seen
<1>3. [SeenDevices EXCEPT ![c] = Seen(p, d)]
      = [e \in Controllers |-> IF e = c THEN Seen(p, d) ELSE SeenDevices[e]]
  BY DEF SeenDevices
<1> QED
  BY <1>2, <1>3

\* A step that changes neither the name of the controller nor what is seen of
\* its device is not seen at all.
LEMMA UnseenStep ==
    ASSUME ControllerInv, NEW c \in Controllers, NEW p, NEW d,
           phase' = [phase EXCEPT ![c] = p],
           dev' = [dev EXCEPT ![c] = d],
           d.name = dev[c].name, Seen(p, d) = Seen(phase[c], dev[c])
    PROVE  UNCHANGED <<SeenNames, SeenDevices>>
<1>1. SeenNames[c] = d.name /\ SeenDevices[c] = Seen(p, d)
  BY DEF SeenNames, SeenDevices
<1>2. /\ [SeenNames EXCEPT ![c] = d.name] = SeenNames
      /\ [SeenDevices EXCEPT ![c] = Seen(p, d)] = SeenDevices
  BY <1>1 DEF SeenNames, SeenDevices
<1>3. SeenNames' = [SeenNames EXCEPT ![c] = d.name]
  BY SeenNameStep
<1>4. SeenDevices' = [SeenDevices EXCEPT ![c] = Seen(p, d)]
  BY SeenDeviceStep, ZenonT(40)
<1> QED
  BY <1>2, <1>3, <1>4

\* The calls of a handler are not seen, as long as the name and the USB device
\* stay what they are; nor is a failure.
LEMMA UnseenSuccess ==
    ASSUME ControllerInv, NEW c \in Controllers, NEW d, NEW a,
           Succeed(c, d, a),
           d.name = dev[c].name, d.VirtualMbimDevice = dev[c].VirtualMbimDevice
    PROVE  UNCHANGED <<SeenNames, SeenDevices>>
<1>1. phase' = [phase EXCEPT ![c] = phase[c]] /\ dev' = [dev EXCEPT ![c] = d]
  BY DEF Succeed, ControllerInv, TypeOK
<1> QED
  BY <1>1, UnseenStep DEF Seen

\* A failed call changes nothing the system sees, whatever it leaves behind ...
LEMMA UnseenFailure ==
    ASSUME ControllerInv, NEW c \in Controllers, NEW d,
           phase[c] # "gone", FailWith(c, d),
           d.name = dev[c].name, d.VirtualMbimDevice = dev[c].VirtualMbimDevice
    PROVE  UNCHANGED <<SeenNames, SeenDevices>>
<1>1. phase' = [phase EXCEPT ![c] = "failed"] /\ dev' = [dev EXCEPT ![c] = d]
  BY DEF FailWith, Enter
<1>2. Seen("failed", d) = Seen(phase[c], dev[c])
  BY DEF Seen
<1> QED
  BY <1>1, <1>2, UnseenStep

\* ... if it is in DeviceAdd, ...
LEMMA UnseenFail ==
    ASSUME ControllerInv, NEW c \in Controllers, phase[c] # "gone", Fail(c)
    PROVE  UNCHANGED <<SeenNames, SeenDevices>>
BY UnseenFailure DEF Fail

\* ... on the way to an endpoint ...
LEMMA UnseenFailEndpoint ==
    ASSUME ControllerInv, NEW c \in Controllers, NEW e, NEW d \in Devices,
           phase[c] # "gone", FailEndpoint(c, e, d), Accounted(d),
           d.name = dev[c].name, d.VirtualMbimDevice = dev[c].VirtualMbimDevice
    PROVE  UNCHANGED <<SeenNames, SeenDevices>>
<1> DEFINE x == EndpointExit(d, e)
           y == PlugInExit(x)
<1>1. x \in Devices /\ SameObjects(d, x) /\ Accounted(x) /\ ~ x.endpointInit
  BY EndpointExitFrees
<1>2. FailWith(c, y)
  BY DEF FailEndpoint
<1> HIDE DEF x
<1>3. SameObjects(x, y)
  BY <1>1, PlugInExitFrees
<1> HIDE DEF y
<1> QED
  BY <1>1, <1>2, <1>3, UnseenFailure DEF SameObjects

\* ... or elsewhere in a start.
LEMMA UnseenFailPlugIn ==
    ASSUME ControllerInv, NEW c \in Controllers, NEW a \in StartCalls \ {"Endpoint"},
           Calls(c, a), FailPlugIn(c)
    PROVE  UNCHANGED <<SeenNames, SeenDevices>>
<1> DEFINE y == PlugInExit(dev[c])
<1>1. /\ dev[c] \in Devices /\ Accounted(dev[c]) /\ ~ dev[c].endpointInit
      /\ phase[c] = "starting"
  BY Starting DEF StartedUpTo
<1>2. SameObjects(dev[c], y)
  BY <1>1, PlugInExitFrees
<1>3. FailWith(c, y)
  BY DEF FailPlugIn
<1> HIDE DEF y
<1> QED
  BY <1>1, <1>2, <1>3, UnseenFailure DEF SameObjects

\* A running handler belongs to a controller that is not gone.
LEMMA CallsNotGone ==
    ASSUME NEW c \in Controllers, NEW a, Calls(c, a)
    PROVE  phase[c] # "gone"
BY DEF Calls

\* The terms of the refinement mapping are what is seen.
LEMMA PresenceIsSeen ==
    /\ Presence!presence = <<SeenNames, SeenDevices>>
    /\ Presence!Init <=> /\ SeenNames = [c \in Controllers |-> NoName]
                         /\ SeenDevices = [c \in Controllers |-> "none"]
    /\ \A c \in Controllers :
          /\ Presence!Appear(c) <=>
                /\ SeenDevices[c] = "none"
                /\ SeenNames[c] = NoName
                /\ \E n \in (0..MaxInstance) \ {SeenNames[d] : d \in Controllers} :
                      SeenNames' = [SeenNames EXCEPT ![c] = n]
                /\ UNCHANGED SeenDevices
          /\ Presence!PlugIn(c) <=>
                /\ SeenNames[c] # NoName
                /\ SeenDevices[c] = "none"
                /\ SeenDevices' = [SeenDevices EXCEPT ![c] = "plugged"]
                /\ UNCHANGED SeenNames
          /\ Presence!PlugOut(c) <=>
                /\ SeenDevices[c] = "plugged"
                /\ SeenDevices' = [SeenDevices EXCEPT ![c] = "unplugged"]
                /\ UNCHANGED SeenNames
          /\ Presence!Leave(c) <=>
                /\ SeenDevices[c] # "gone"
                /\ SeenNames' = [SeenNames EXCEPT ![c] = NoName]
                /\ SeenDevices' = [SeenDevices EXCEPT ![c] = "gone"]
BY Zenon DEF Presence!presence, Presence!Init, Presence!Appear, Presence!PlugIn,
       Presence!PlugOut, Presence!Leave, SeenNames, SeenDevices, Seen

\* A step of the abstract specification, or one nobody sees.
PresenceStep ==
    \/ UNCHANGED <<SeenNames, SeenDevices>>
    \/ \E c \in Controllers :
          Presence!Appear(c) \/ Presence!PlugIn(c) \/ Presence!PlugOut(c) \/ Presence!Leave(c)

\* Of DeviceAdd, only the call that names the device is seen.
LEMMA WdfDeviceCreateSeen ==
    ASSUME ControllerInv, NEW c \in Controllers, WdfDeviceCreate(c)
    PROVE  PresenceStep
<1> DEFINE i == instance[c]
           d == [dev[c] EXCEPT !.name = i]
<1>1. /\ AddedUpTo("WdfDeviceCreate", i, dev[c])
      /\ phase[c] = "adding" /\ dev[c] \in Devices /\ i \in 0..MaxInstance + 1
  BY Adding, OfOne DEF WdfDeviceCreate, AddCalls
<1>2. ASSUME i <= MaxInstance, i \notin NamesInUse, Succeed(c, d, "SymbolicLink")
      PROVE  PresenceStep
  <2>1. phase' = [phase EXCEPT ![c] = "adding"] /\ dev' = [dev EXCEPT ![c] = d]
    BY <1>1, <1>2 DEF Succeed, ControllerInv, TypeOK
  <2>2. d.name = i /\ d.VirtualMbimDevice = "null"
    BY <1>1 DEF AddedUpTo, Fresh, Devices
  <2> HIDE DEF d, i
  <2>3. /\ SeenNames' = [SeenNames EXCEPT ![c] = i]
        /\ SeenDevices' = [SeenDevices EXCEPT ![c] = "none"]
    <3>1. SeenNames' = [SeenNames EXCEPT ![c] = d.name]
      BY <2>1, SeenNameStep
    <3>2. SeenDevices' = [SeenDevices EXCEPT ![c] = Seen("adding", d)]
      BY <2>1, SeenDeviceStep
    <3>3. Seen("adding", d) = "none"
      BY <2>2 DEF Seen
    <3> QED
      BY <2>2, <3>1, <3>2, <3>3
  <2>4. SeenDevices[c] = "none" /\ SeenNames[c] = NoName
    BY <1>1 DEF SeenDevices, SeenNames, Seen, AddedUpTo, Fresh
  <2>5. [SeenDevices EXCEPT ![c] = "none"] = SeenDevices
    BY <2>4 DEF SeenDevices
  <2>6. i \in (0..MaxInstance) \ {SeenNames[e] : e \in Controllers}
    <3>1. \A e \in Controllers : SeenNames[e] = dev[e].name
      BY DEF SeenNames
    <3>2. i \in 0..MaxInstance
      BY <1>1, <1>2, ControllersAssumption
    <3> HIDE DEF i
    <3> QED
      BY <1>2, <3>1, <3>2 DEF NamesInUse
  <2> HIDE DEF i
  <2>7. Presence!Appear(c)
    BY <2>3, <2>4, <2>5, <2>6, PresenceIsSeen
  <2> QED
    BY <2>7 DEF PresenceStep
<1>3. CASE UNCHANGED <<phase, at, starts, dev>>
  BY <1>3 DEF PresenceStep, SeenNames, SeenDevices, Seen
<1>4. CASE Fail(c)
  BY <1>1, <1>4, UnseenFail DEF PresenceStep
<1> QED
  BY <1>2, <1>3, <1>4 DEF WdfDeviceCreate

\* Of DeviceAdd only the creation of the WDFDEVICE is seen.
LEMMA DeviceAddStepSeen ==
    ASSUME ControllerInv, NEW c \in Controllers, DeviceAddStep(c)
    PROVE  PresenceStep
<1>1. CASE WdfDeviceCreate(c)
  BY <1>1, WdfDeviceCreateSeen
<1>2. phase[c] # "gone" /\ dev[c] \in Devices
  BY OfOne DEF DeviceAddStep, InitializeWdfDeviceInit, WdfDeviceCreate, SymbolicLink,
     RegisterController, AllocateIoContext, AllocateUsbContext, UsbDeviceInitAllocate,
     AddDescriptors, Calls
<1>3. ASSUME NEW d, NEW a, Succeed(c, d, a), d.name = dev[c].name,
             d.VirtualMbimDevice = dev[c].VirtualMbimDevice
      PROVE  PresenceStep
  BY <1>3, UnseenSuccess DEF PresenceStep
<1>4. CASE Fail(c)
  BY <1>2, <1>4, UnseenFail DEF PresenceStep
<1>5. CASE Enter(c, "added") /\ UNCHANGED <<at, starts, instance, dev>>
  <2>1. phase' = [phase EXCEPT ![c] = "added"] /\ dev' = [dev EXCEPT ![c] = dev[c]]
    BY <1>5 DEF Enter, ControllerInv, TypeOK
  <2>2. Seen("added", dev[c]) = Seen(phase[c], dev[c])
    BY <1>2 DEF Seen
  <2> QED
    BY <2>1, <2>2, UnseenStep DEF PresenceStep
<1>6. CASE InitializeWdfDeviceInit(c)
  BY <1>3, <1>4, <1>6 DEF InitializeWdfDeviceInit
<1>7. CASE SymbolicLink(c)
  <2> DEFINE d == [dev[c] EXCEPT !.symLink = instance[c]]
  <2>1. d.name = dev[c].name /\ d.VirtualMbimDevice = dev[c].VirtualMbimDevice
    BY <1>2 DEF Devices
  <2> QED
    BY <1>3, <1>4, <1>7, <2>1 DEF SymbolicLink
<1>8. CASE RegisterController(c)
  BY <1>3, <1>4, <1>8 DEF RegisterController
<1>9. CASE AllocateIoContext(c)
  <2> DEFINE d == [dev[c] EXCEPT !.IoContext = TRUE]
  <2>1. d.name = dev[c].name /\ d.VirtualMbimDevice = dev[c].VirtualMbimDevice
    BY <1>2 DEF Devices
  <2> QED
    BY <1>3, <1>4, <1>9, <2>1 DEF AllocateIoContext
<1>10. CASE AllocateUsbContext(c)
  <2> DEFINE d == [dev[c] EXCEPT !.UsbContext = TRUE]
  <2>1. d.name = dev[c].name /\ d.VirtualMbimDevice = dev[c].VirtualMbimDevice
    BY <1>2 DEF Devices
  <2> QED
    BY <1>3, <1>4, <1>10, <2>1 DEF AllocateUsbContext
<1>11. CASE UsbDeviceInitAllocate(c)
  <2> DEFINE d == [dev[c] EXCEPT !.UdecxUsbDeviceInit = "allocated"]
  <2>1. d.name = dev[c].name /\ d.VirtualMbimDevice = dev[c].VirtualMbimDevice
    BY <1>2 DEF Devices
  <2> QED
    BY <1>3, <1>4, <1>11, <2>1 DEF UsbDeviceInitAllocate
<1>12. CASE AddDescriptors(c)
  BY <1>4, <1>5, <1>12 DEF AddDescriptors
<1> QED
  BY <1>1, <1>6, <1>7, <1>8, <1>9, <1>10, <1>11, <1>12 DEF DeviceAddStep

\* Of D0Entry, only plugging the device in is seen.
LEMMA PlugInSeen ==
    ASSUME ControllerInv, NEW c \in Controllers, PlugIn(c)
    PROVE  PresenceStep
<1> DEFINE e == [dev[c] EXCEPT !.VirtualMbimDevice = "plugged"]
           d == PlugInExit(e)
<1>1. /\ StartedUpTo("PlugIn", dev[c]) /\ Accounted(dev[c])
      /\ phase[c] = "starting" /\ dev[c].name # NoName /\ dev[c] \in Devices
  BY Starting DEF PlugIn, StartCalls
<1>2. ASSUME dev' = [dev EXCEPT ![c] = d], Enter(c, "D0")
      PROVE  PresenceStep
  <2>1. phase' = [phase EXCEPT ![c] = "D0"]
    BY <1>2 DEF Enter
  <2>2. d.name = dev[c].name /\ d.VirtualMbimDevice = "plugged"
    <3>1. /\ e \in Devices /\ e.name = dev[c].name /\ e.VirtualMbimDevice = "plugged"
          /\ e.configDescSet = dev[c].configDescSet /\ ~ e.endpointInit
          /\ e.temporaries = dev[c].temporaries
      BY <1>1 DEF Devices, StartedUpTo
    <3> HIDE DEF e
    <3>2. Accounted(e)
      BY <1>1, <3>1 DEF Accounted, Held, StartedUpTo
    <3>3. SameObjects(e, d)
      BY <3>1, <3>2, PlugInExitFrees
    <3> QED
      BY <3>1, <3>3 DEF SameObjects
  <2> HIDE DEF d
  <2>3. SeenNames' = [SeenNames EXCEPT ![c] = d.name]
    BY <1>2, SeenNameStep
  <2>4. SeenDevices' = [SeenDevices EXCEPT ![c] = Seen("D0", d)]
    BY <1>2, <2>1, SeenDeviceStep
  <2>5. Seen("D0", d) = "plugged" /\ SeenDevices[c] = "none"
    BY <1>1, <2>2 DEF SeenDevices, Seen, StartedUpTo
  <2>6. SeenNames[c] # NoName /\ [SeenNames EXCEPT ![c] = d.name] = SeenNames
    BY <1>1, <2>2 DEF SeenNames
  <2>7. Presence!PlugIn(c)
    BY <2>3, <2>4, <2>5, <2>6, PresenceIsSeen
  <2> QED
    BY <2>7 DEF PresenceStep
<1>3. CASE FailPlugIn(c)
  BY <1>3, UnseenFailPlugIn DEF PresenceStep, PlugIn, StartCalls
<1>4. (dev' = [dev EXCEPT ![c] = d] /\ Enter(c, "D0")) \/ FailPlugIn(c)
  BY DEF PlugIn, ControllerInv, TypeOK
<1> QED
  BY <1>2, <1>3, <1>4

\* Endpoints are not seen.
LEMMA CreateEndpointSeen ==
    ASSUME ControllerInv, NEW c \in Controllers, NEW e, CreateEndpoint(c, e)
    PROVE  PresenceStep
<1>1. phase[c] # "gone" /\ dev[c] \in Devices /\ Accounted(dev[c])
  BY OfOne DEF CreateEndpoint, RetrieveQueue, EndpointInitAllocate,
     UsbEndpointCreate, Calls, Consistent
<1>2. CASE FailEndpoint(c, e, dev[c])
  BY <1>1, <1>2, UnseenFailEndpoint DEF PresenceStep
<1>3. ASSUME NEW d, NEW a, Succeed(c, d, a), d.name = dev[c].name,
             d.VirtualMbimDevice = dev[c].VirtualMbimDevice
      PROVE  PresenceStep
  BY <1>3, UnseenSuccess DEF PresenceStep
<1>4. CASE RetrieveQueue(c, e)
  <2>1. PICK k \in 0..5 : NextEndpoint(c) = EndpointOrder[k + 1]
    BY <1>4, OnTheWay DEF RetrieveQueue
  <2>2. e \in Endpoints
    BY <2>1 DEF CreateEndpoint, Endpoints, EndpointOrder
  <2>3. \A part \in PartsOf(dev[c], e) :
          /\ part \in Devices /\ part.name = dev[c].name /\ Accounted(part)
          /\ part.VirtualMbimDevice = dev[c].VirtualMbimDevice
    BY <1>1, <2>2, PartsOfType
  <2>4. AllObjects(dev[c], e) \in PartsOf(dev[c], e)
    BY DEF PartsOf
  <2>5. CASE Succeed(c, AllObjects(dev[c], e), "EndpointInit")
    BY <1>3, <2>3, <2>4, <2>5
  <2>6. ASSUME NEW part \in PartsOf(dev[c], e), FailEndpoint(c, e, part)
        PROVE  PresenceStep
    BY <1>1, <2>3, <2>6, UnseenFailEndpoint DEF PresenceStep
  <2> QED
    BY <1>4, <2>5, <2>6, QueueFailsWithPart DEF RetrieveQueue
<1>5. CASE EndpointInitAllocate(c, e)
  <2> DEFINE d == [dev[c] EXCEPT !.endpointInit = TRUE,
                                 !.temporaries = dev[c].temporaries + 1]
  <2>1. d.name = dev[c].name /\ d.VirtualMbimDevice = dev[c].VirtualMbimDevice
    BY <1>1 DEF Devices
  <2> QED
    BY <1>2, <1>3, <1>5, <2>1 DEF EndpointInitAllocate
<1>6. CASE UsbEndpointCreate(c, e)
  <2> DEFINE d == UsbEndpointCreated(dev[c], e)
             x == EndpointExit(d, e)
             a == IF e = EndpointOrder[Len(EndpointOrder)] THEN "PlugIn" ELSE "Queue"
  <2>1. /\ d.name = dev[c].name /\ d.VirtualMbimDevice = dev[c].VirtualMbimDevice
        /\ ~ d.endpointInit
    BY <1>1 DEF UsbEndpointCreated, Devices
  <2>2. Succeed(c, x, a) \/ FailEndpoint(c, e, dev[c])
    BY <1>6 DEF UsbEndpointCreate
  <2> HIDE DEF d, a
  <2>3. x = d
    BY <2>1 DEF EndpointExit, FreeEndpointInit, ControlEndpointExit, InterruptEndpointExit,
       BulkInEndpointExit, BulkOutEndpointExit, CreateAndAddEndpointExit
  <2> QED
    BY <1>2, <1>3, <2>1, <2>2, <2>3
<1> QED
  BY <1>4, <1>5, <1>6 DEF CreateEndpoint

\* Of a start only its last call is seen.
LEMMA PlugInStepSeen ==
    ASSUME ControllerInv, NEW c \in Controllers, PlugInStep(c)
    PROVE  PresenceStep
<1>1. ASSUME NEW d, NEW a, Succeed(c, d, a), d.name = dev[c].name,
             d.VirtualMbimDevice = dev[c].VirtualMbimDevice
      PROVE  PresenceStep
  BY <1>1, UnseenSuccess DEF PresenceStep
<1>2. ASSUME NEW a \in StartCalls \ {"Endpoint"}, Calls(c, a), FailPlugIn(c)
      PROVE  PresenceStep
  BY <1>2, UnseenFailPlugIn DEF PresenceStep
<1>3. dev[c] \in Devices
  BY OfOne
<1>4. CASE AllocateConfigDescSet(c)
  <2> DEFINE d == [dev[c] EXCEPT !.configDescSet = TRUE,
                                 !.temporaries = dev[c].temporaries + 1]
  <2>1. d.name = dev[c].name /\ d.VirtualMbimDevice = dev[c].VirtualMbimDevice
    BY <1>3 DEF Devices
  <2> QED
    BY <1>1, <1>2, <1>4, <2>1 DEF AllocateConfigDescSet, StartCalls
<1>5. CASE AddConfigDescriptor(c)
  <2>1. phase[c] # "gone"
    BY <1>5, CallsNotGone DEF AddConfigDescriptor
  <2>2. CASE Enter(c, "bugcheck") /\ UNCHANGED <<at, starts, instance, dev>>
    <3>1. phase' = [phase EXCEPT ![c] = "bugcheck"] /\ dev' = [dev EXCEPT ![c] = dev[c]]
      BY <2>2 DEF Enter, ControllerInv, TypeOK
    <3>2. Seen("bugcheck", dev[c]) = Seen(phase[c], dev[c])
      BY <2>1 DEF Seen
    <3> QED
      BY <3>1, <3>2, UnseenStep DEF PresenceStep
  <2> QED
    BY <1>1, <1>2, <1>5, <2>2 DEF AddConfigDescriptor, StartCalls
<1>6. CASE UsbDeviceCreate(c)
  <2> DEFINE d == [dev[c] EXCEPT !.UdecxUsbDeviceInit = "null",
                                 !.VirtualMbimDevice = "created"]
  <2>1. CASE Succeed(c, d, "Queue")
    <3>1. /\ phase[c] = "starting" /\ Fresh(dev[c])
      BY <1>6, Starting DEF UsbDeviceCreate, StartCalls, StartedUpTo, Sound
    <3>2. phase' = [phase EXCEPT ![c] = phase[c]] /\ dev' = [dev EXCEPT ![c] = d]
      BY <2>1 DEF Succeed, ControllerInv, TypeOK
    <3>3. d.name = dev[c].name /\ d.VirtualMbimDevice = "created"
      BY <1>3 DEF Devices
    <3> HIDE DEF d
    <3>4. Seen(phase[c], d) = "none" /\ Seen(phase[c], dev[c]) = "none"
      BY <3>1, <3>3 DEF Seen, Fresh
    <3> QED
      BY <3>2, <3>3, <3>4, UnseenStep DEF PresenceStep
  <2> QED
    BY <1>2, <1>6, <2>1 DEF UsbDeviceCreate, StartCalls
<1>7. ASSUME NEW e, CreateEndpoint(c, e) PROVE PresenceStep
  BY <1>7, CreateEndpointSeen
<1>8. CASE PlugIn(c)
  BY <1>8, PlugInSeen
<1> QED
  BY <1>4, <1>5, <1>6, <1>7, <1>8
   DEF PlugInStep, UsbCreateControlEndpoint, UsbCreateInterruptEndpoint,
       UsbCreateBulkInEndpoint, UsbCreateBulkOutEndpoint,
       UsbDevice_CreateAndAddEndpoint

\* A stop plugs the device out, or nothing happens to be seen.
LEMMA D0ExitToD3FinalSeen ==
    ASSUME ControllerInv, NEW c \in Controllers, D0ExitToD3Final(c)
    PROVE  PresenceStep
<1> DEFINE d == [dev[c] EXCEPT !.VirtualMbimDevice = "deleted", !.endpoints = {}]
<1>1. /\ dev[c].VirtualMbimDevice = "plugged" /\ dev[c] \in Devices /\ phase[c] = "D0"
      /\ phase' = [phase EXCEPT ![c] = "D3Final"]
  BY OfOne DEF D0ExitToD3Final, Consistent, Enter
<1>2. CASE UNCHANGED dev
  <2>1. dev' = [dev EXCEPT ![c] = dev[c]]
    BY <1>2 DEF ControllerInv, TypeOK
  <2>2. Seen("D3Final", dev[c]) = Seen(phase[c], dev[c])
    BY <1>1 DEF Seen
  <2> QED
    BY <1>1, <2>1, <2>2, UnseenStep DEF PresenceStep
<1>3. CASE dev' = [dev EXCEPT ![c].VirtualMbimDevice = "deleted", ![c].endpoints = {}]
  <2>1. dev' = [dev EXCEPT ![c] = d]
    BY <1>3 DEF ControllerInv, TypeOK
  <2>2. d.name = dev[c].name /\ d.VirtualMbimDevice = "deleted"
    BY <1>1 DEF Devices
  <2> HIDE DEF d
  <2>3. SeenNames' = [SeenNames EXCEPT ![c] = d.name]
    BY <2>1, SeenNameStep
  <2>4. SeenDevices' = [SeenDevices EXCEPT ![c] = Seen("D3Final", d)]
    BY <1>1, <2>1, SeenDeviceStep
  <2>5. Seen("D3Final", d) = "unplugged" /\ SeenDevices[c] = "plugged"
    BY <1>1, <2>2 DEF SeenDevices, Seen
  <2>6. [SeenNames EXCEPT ![c] = d.name] = SeenNames
    BY <2>2 DEF SeenNames
  <2>7. Presence!PlugOut(c)
    BY <2>3, <2>4, <2>5, <2>6, PresenceIsSeen
  <2> QED
    BY <2>7 DEF PresenceStep
<1> QED
  BY <1>2, <1>3 DEF D0ExitToD3Final

\* A removal that gets through is the end; a crash of the system is not seen.
LEMMA RemoveSeen ==
    ASSUME ControllerInv, NEW c \in Controllers, Remove(c)
    PROVE  PresenceStep
<1> DEFINE init == IF dev[c].UsbContext /\ dev[c].UdecxUsbDeviceInit # "null"
                   THEN "freed" ELSE dev[c].UdecxUsbDeviceInit
           d == [NewDevice EXCEPT !.UdecxUsbDeviceInit = init,
                                  !.temporaries = dev[c].temporaries]
<1>1. phase[c] # "gone"
  BY DEF Remove
<1>2. CASE Enter(c, "bugcheck") /\ UNCHANGED dev
  <2>1. phase' = [phase EXCEPT ![c] = "bugcheck"] /\ dev' = [dev EXCEPT ![c] = dev[c]]
    BY <1>2 DEF Enter, ControllerInv, TypeOK
  <2>2. Seen("bugcheck", dev[c]) = Seen(phase[c], dev[c])
    BY <1>1 DEF Seen
  <2> QED
    BY <2>1, <2>2, UnseenStep DEF PresenceStep
<1>3. CASE Enter(c, "gone") /\ dev' = [dev EXCEPT ![c] = d]
  <2>1. d.name = NoName
    <3> HIDE DEF init
    <3> QED
      BY DEF NewDevice
  <2> HIDE DEF d
  <2>2. phase' = [phase EXCEPT ![c] = "gone"]
    BY <1>3 DEF Enter
  <2>3. SeenNames' = [SeenNames EXCEPT ![c] = d.name]
    BY <1>3, SeenNameStep
  <2>4. SeenDevices' = [SeenDevices EXCEPT ![c] = Seen("gone", d)]
    BY <1>3, <2>2, SeenDeviceStep
  <2>5. Seen("gone", d) = "gone" /\ SeenDevices[c] # "gone"
    BY <1>1 DEF SeenDevices, Seen
  <2>6. Presence!Leave(c)
    BY <2>1, <2>3, <2>4, <2>5, PresenceIsSeen
  <2> QED
    BY <2>6 DEF PresenceStep
<1> QED
  BY <1>2, <1>3 DEF Remove

\* The rest of what happens to a device is not seen: the start of a handler and
\* the transitions between working and low power.
LEMMA OtherStepsSeen ==
    ASSUME ControllerInv, NEW c \in Controllers,
           DeviceAdd(c) \/ LowPower(c) \/ D0EntryFromD3Final(c)
    PROVE  PresenceStep
<1>1. dev[c] \in Devices
  BY OfOne
<1>2. CASE DeviceAdd(c)
  <2>1. phase' = [phase EXCEPT ![c] = "adding"] /\ dev' = [dev EXCEPT ![c] = dev[c]]
    BY <1>2 DEF DeviceAdd, Enter, ControllerInv, TypeOK
  <2>2. Seen("adding", dev[c]) = Seen(phase[c], dev[c])
    BY <1>2 DEF DeviceAdd, Seen
  <2> QED
    BY <2>1, <2>2, UnseenStep DEF PresenceStep
<1>3. CASE LowPower(c)
  <2>1. PICK p \in {"D0", "Dx"} : phase' = [phase EXCEPT ![c] = p]
    BY <1>3 DEF LowPower, Enter
  <2>2. dev' = [dev EXCEPT ![c] = dev[c]]
    BY <1>3 DEF LowPower, ControllerInv, TypeOK
  <2>3. Seen(p, dev[c]) = Seen(phase[c], dev[c])
    BY <1>3, <2>1 DEF LowPower, Seen
  <2> QED
    BY <2>1, <2>2, <2>3, UnseenStep DEF PresenceStep
<1>4. CASE D0EntryFromD3Final(c)
  <2> DEFINE d == [dev[c] EXCEPT !.AllowOnlyResetInterrupts = TRUE]
  <2>1. phase' = [phase EXCEPT ![c] = "starting"] /\ dev' = [dev EXCEPT ![c] = d]
    BY <1>4 DEF D0EntryFromD3Final, Enter, ControllerInv, TypeOK
  <2>2. d.name = dev[c].name /\ d.VirtualMbimDevice = dev[c].VirtualMbimDevice
    BY <1>1 DEF Devices
  <2> HIDE DEF d
  <2>3. Seen("starting", d) = Seen(phase[c], dev[c])
    BY <1>4, <2>2 DEF D0EntryFromD3Final, Seen
  <2> QED
    BY <2>1, <2>2, <2>3, UnseenStep DEF PresenceStep
<1> QED
  BY <1>2, <1>3, <1>4

\* Initial states map to initial states ...
LEMMA PresenceInit == Init => Presence!Init
<1> SUFFICES ASSUME Init PROVE Presence!Init
  OBVIOUS
<1>1. \A c \in Controllers : dev[c].name = NoName /\ Seen(phase[c], dev[c]) = "none"
  BY DEF Init, NewDevice, Seen
<1>2. /\ SeenNames = [c \in Controllers |-> NoName]
      /\ SeenDevices = [c \in Controllers |-> "none"]
  BY <1>1 DEF SeenNames, SeenDevices
<1> QED
  BY <1>2, PresenceIsSeen

\* ... and every step to a step or a stutter.
LEMMA PresenceNext ==
    ControllerInv /\ [Next]_vars => [Presence!Next]_(Presence!presence)
<1>1. ASSUME ControllerInv, Next PROVE PresenceStep
  BY <1>1, OtherStepsSeen, DeviceAddStepSeen, PlugInStepSeen, D0ExitToD3FinalSeen,
     RemoveSeen DEF Next
<1>2. ASSUME UNCHANGED vars PROVE PresenceStep
  BY <1>2 DEF vars, PresenceStep, SeenNames, SeenDevices, Seen
<1>3. ASSUME PresenceStep PROVE [Presence!Next]_(Presence!presence)
  <2>1. CASE UNCHANGED <<SeenNames, SeenDevices>>
    BY <2>1, Zenon DEF Presence!presence, SeenNames, SeenDevices, Seen
  <2>2. CASE Presence!Next
    BY <2>2
  <2> QED
    BY <1>3, <2>1, <2>2 DEF PresenceStep, Presence!Next
<1> QED
  BY <1>1, <1>2, <1>3

\* However its calls fail and its handlers interleave, the system sees of the
\* driver only what DevicePresence promises.
THEOREM PresenceIsImplemented == Spec => ImplementsPresence
<1> QED
  BY PresenceInit, PresenceNext, ControllerInvariance, PTL
     DEF Spec, ImplementsPresence, Presence!Spec
=============================================================================
