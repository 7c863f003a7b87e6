--------------------------- MODULE UdeController ---------------------------
(***************************************************************************)
(* The life of the emulated host controllers and of the USB device each     *)
(* carries: controller.cpp (DeviceAdd, D0Entry, D0Exit, cleanup), the parts *)
(* of usbdevice.cpp, io.cpp and misc.cpp they call, and the framework that  *)
(* calls them.  Every call that can fail may fail; the handlers stop at the *)
(* first failure and the framework then removes the device.                 *)
(***************************************************************************)
EXTENDS Naturals, Sequences, FiniteSets

CONSTANTS Controllers,  \* the devices PnP adds, concurrently
          MaxInstance,  \* the instance numbers tried are 0..MaxInstance
          MaxStarts     \* bound: starts of one device

ASSUME ControllersAssumption == MaxInstance \in Nat /\ MaxStarts \in Nat \ {0}

\* Usb_ReadDescriptorsAndPlugIn creates the endpoints in this order; each has
\* a framework queue of its own, the first four cached in IO_CONTEXT.
EndpointOrder == <<"Control", "Interrupt", "BulkIn", "BulkOut",
                   "MS0BulkIn", "MS0BulkOut">>
Endpoints     == {EndpointOrder[i] : i \in DOMAIN EndpointOrder}
CachedQueues  == {"Control", "Interrupt", "BulkIn", "BulkOut"}

NoName == MaxInstance + 1

VARIABLES phase,      \* what the framework is doing with the device
          at,         \* the next call of the handler that runs
          starts,     \* how often the device was started
          instance,   \* the instanceNumber of the name loop
          dev         \* the objects and contexts of the device

vars == <<phase, at, starts, instance, dev>>

\* "added": DeviceAdd succeeded; "D0", "Dx": working, in low power;
\* "D3Final": stopped; "failed": to be deleted; "bugcheck": the system is down.
Phases == {"absent", "adding", "added", "starting", "D0", "Dx", "D3Final",
           "failed", "gone", "bugcheck"}

AddCalls   == {"WdfDeviceInit", "WdfDeviceCreate", "SymbolicLink", "Interface",
               "IoContext", "UsbContext", "UsbDeviceInit", "Descriptors"}
StartCalls == {"ConfigDescSet", "ConfigDescriptor", "UsbDevice",
               "Queue", "EndpointInit", "Endpoint", "PlugIn"}

Devices == [name       : 0..NoName,   \* of the WDFDEVICE; NoName before it exists
            symLink    : 0..NoName,
            IoContext  : BOOLEAN,
            UsbContext : BOOLEAN,
            UdecxUsbDeviceInit : {"null", "allocated", "freed"},
            VirtualMbimDevice  : {"null", "created", "plugged", "deleted"},
            queues     : SUBSET CachedQueues,
            readyNotify    : BOOLEAN,
            InProgressLock : BOOLEAN,
            lists          : BOOLEAN,
            endpoints      : SUBSET Endpoints,
            configDescSet  : BOOLEAN,  \* pComputedConfigDescSet is not NULL
            endpointInit   : BOOLEAN,  \* the local endpointInit is not NULL
            temporaries    : 0..2,     \* temporary allocations not yet freed
            AllowOnlyResetInterrupts : BOOLEAN]

NewDevice == [name |-> NoName, symLink |-> NoName,
              IoContext |-> FALSE, UsbContext |-> FALSE,
              UdecxUsbDeviceInit |-> "null", VirtualMbimDevice |-> "null",
              queues |-> {}, readyNotify |-> FALSE, InProgressLock |-> FALSE,
              lists |-> FALSE, endpoints |-> {}, configDescSet |-> FALSE,
              endpointInit |-> FALSE, temporaries |-> 0,
              AllowOnlyResetInterrupts |-> FALSE]

Init ==
    /\ phase = [c \in Controllers |-> "absent"]
    /\ at = [c \in Controllers |-> "WdfDeviceInit"]
    /\ starts = [c \in Controllers |-> 0]
    /\ instance = [c \in Controllers |-> 0]
    /\ dev = [c \in Controllers |-> NewDevice]

Running == \A c \in Controllers : phase[c] # "bugcheck"

Enter(c, p) == phase' = [phase EXCEPT ![c] = p]

\* c's handler is about to make the call named label.
Calls(c, label) ==
    /\ Running
    /\ phase[c] \in {"adding", "starting"}
    /\ at[c] = label

\* The call succeeds: dev[c] becomes d and the handler goes on.
Succeed(c, d, next) ==
    /\ dev' = [dev EXCEPT ![c] = d]
    /\ at' = [at EXCEPT ![c] = next]
    /\ UNCHANGED <<phase, starts, instance>>

\* The handler returns a failure and leaves d behind.
FailWith(c, d) ==
    /\ dev' = [dev EXCEPT ![c] = d]
    /\ Enter(c, "failed")
    /\ UNCHANGED <<at, starts, instance>>

\* A call of DeviceAdd fails.
Fail(c) == FailWith(c, dev[c])
-----------------------------------------------------------------------------
(* ControllerWdfEvtDeviceAdd.                                               *)

DeviceAdd(c) ==
    /\ Running
    /\ phase[c] = "absent"
    /\ Enter(c, "adding")
    /\ UNCHANGED <<at, starts, instance, dev>>

\* The security descriptor and UdecxInitializeWdfDeviceInit.
InitializeWdfDeviceInit(c) ==
    /\ Calls(c, "WdfDeviceInit")
    /\ \/ Succeed(c, dev[c], "WdfDeviceCreate")
       \/ Fail(c)

NamesInUse == {dev[c].name : c \in Controllers}

\* One round of the loop of ControllerCreateWdfDeviceWithNameAndSymLink: the
\* next instance number is tried when the name collides.
WdfDeviceCreate(c) ==
    /\ Calls(c, "WdfDeviceCreate")
    /\ \/ /\ instance[c] <= MaxInstance
          /\ instance[c] \notin NamesInUse
          /\ Succeed(c, [dev[c] EXCEPT !.name = instance[c]], "SymbolicLink")
       \/ /\ instance[c] <= MaxInstance
          /\ instance[c] \in NamesInUse
          /\ instance' = [instance EXCEPT ![c] = @ + 1]
          /\ UNCHANGED <<phase, at, starts, dev>>
       \/ Fail(c)

SymbolicLink(c) ==
    /\ Calls(c, "SymbolicLink")
    /\ \/ Succeed(c, [dev[c] EXCEPT !.symLink = instance[c]], "Interface")
       \/ Fail(c)

\* The device interface, the USB device emulation and the default queue.
RegisterController(c) ==
    /\ Calls(c, "Interface")
    /\ \/ Succeed(c, dev[c], "IoContext")
       \/ Fail(c)

AllocateIoContext(c) ==
    /\ Calls(c, "IoContext")
    /\ \/ Succeed(c, [dev[c] EXCEPT !.IoContext = TRUE], "UsbContext")
       \/ Fail(c)

AllocateUsbContext(c) ==
    /\ Calls(c, "UsbContext")
    /\ \/ Succeed(c, [dev[c] EXCEPT !.UsbContext = TRUE], "UsbDeviceInit")
       \/ Fail(c)

\* Usb_Initialize: first the UDECXUSBDEVICE_INIT, ...
UsbDeviceInitAllocate(c) ==
    /\ Calls(c, "UsbDeviceInit")
    /\ \/ Succeed(c, [dev[c] EXCEPT !.UdecxUsbDeviceInit = "allocated"], "Descriptors")
       \/ Fail(c)

\* ... then the device, BOS and string descriptors, and DeviceAdd is done.
AddDescriptors(c) ==
    /\ Calls(c, "Descriptors")
    /\ \/ Enter(c, "added") /\ UNCHANGED <<at, starts, instance, dev>>
       \/ Fail(c)
-----------------------------------------------------------------------------
(* ControllerWdfEvtDeviceD0Entry and Usb_ReadDescriptorsAndPlugIn.  What it, *)
(* and each function it calls to create an endpoint, allocates for a while   *)
(* is freed by a test of the local pointer at the function's own exit.       *)

\* The exit of Usb_ReadDescriptorsAndPlugIn, taken on success and on failure.
PlugInExit(d) ==
    IF d.configDescSet
    THEN [d EXCEPT !.configDescSet = FALSE, !.temporaries = @ - 1]
    ELSE d

FreeEndpointInit(d) ==
    IF d.endpointInit
    THEN [d EXCEPT !.endpointInit = FALSE, !.temporaries = @ - 1]
    ELSE d

\* The exits of the five functions that create the endpoints.
ControlEndpointExit(d)   == FreeEndpointInit(d)
InterruptEndpointExit(d) == FreeEndpointInit(d)
MutantBulkInEndpointExit(d) == [d EXCEPT !.endpointInit = FALSE]
BulkInEndpointExit(d)    == FreeEndpointInit(d)
BulkOutEndpointExit(d)   == FreeEndpointInit(d)
CreateAndAddEndpointExit(d) == FreeEndpointInit(d)

EndpointExit(d, e) ==
    CASE e = "Control"   -> ControlEndpointExit(d)
      [] e = "Interrupt" -> InterruptEndpointExit(d)
      [] e = "BulkIn"    -> BulkInEndpointExit(d)
      [] e = "BulkOut"   -> BulkOutEndpointExit(d)
      [] OTHER           -> CreateAndAddEndpointExit(d)

\* A call of Usb_ReadDescriptorsAndPlugIn fails, ...
FailPlugIn(c) == FailWith(c, PlugInExit(dev[c]))

\* ... or one on the way to endpoint e, which leaves d to the two exits.
FailEndpoint(c, e, d) == FailWith(c, PlugInExit(EndpointExit(d, e)))

\* The device is started, or restarted after a stop: PreviousState is D3Final.
D0EntryFromD3Final(c) ==
    /\ Running
    /\ phase[c] \in {"added", "D3Final"}
    /\ starts[c] < MaxStarts
    /\ Enter(c, "starting")
    /\ starts' = [starts EXCEPT ![c] = @ + 1]
    /\ at' = [at EXCEPT ![c] = "ConfigDescSet"]
    /\ dev' = [dev EXCEPT ![c].AllowOnlyResetInterrupts = TRUE]
    /\ UNCHANGED instance

AllocateConfigDescSet(c) ==
    /\ Calls(c, "ConfigDescSet")
    /\ \/ Succeed(c, [dev[c] EXCEPT !.configDescSet = TRUE, !.temporaries = @ + 1],
                   "ConfigDescriptor")
       \/ FailPlugIn(c)

\* UdecxUsbDeviceInitAddDescriptor; the device init is gone once a device was
\* created from it, and what the call does with a null pointer is not known.
AddConfigDescriptor(c) ==
    /\ Calls(c, "ConfigDescriptor")
    /\ \/ /\ dev[c].UdecxUsbDeviceInit = "allocated"
          /\ Succeed(c, dev[c], "UsbDevice")
       \/ FailPlugIn(c)
       \/ /\ dev[c].UdecxUsbDeviceInit # "allocated"
          /\ Enter(c, "bugcheck")
          /\ UNCHANGED <<at, starts, instance, dev>>

\* UdecxUsbDeviceCreate consumes the device init.
MutantUsbDeviceCreate(c) ==
    /\ Calls(c, "UsbDevice")
    /\ \/ Succeed(c, [dev[c] EXCEPT !.VirtualMbimDevice = "created"], "Queue")
       \/ FailPlugIn(c)

UsbDeviceCreate(c) ==
    /\ Calls(c, "UsbDevice")
    /\ \/ Succeed(c, [dev[c] EXCEPT !.UdecxUsbDeviceInit = "null",
                                    !.VirtualMbimDevice = "created"], "Queue")
       \/ FailPlugIn(c)

NextEndpoint(c) == EndpointOrder[Cardinality(dev[c].endpoints) + 1]

\* d after Io_Retrieve<e>Queue: the queue is created unless it is cached.
MutantWithQueue(d, e) == [d EXCEPT !.queues = @ \cup {e}]
WithQueue(d, e) == [d EXCEPT !.queues = @ \cup ({e} \cap CachedQueues)]

\* d when the interrupt queue has its ready callback, which only the call that
\* creates the queue registers, ...
WithReadyQueue(d) ==
    [WithQueue(d, "Interrupt") EXCEPT !.readyNotify = @ \/ "Interrupt" \notin d.queues]

\* ... and after Io_RetrieveInterruptQueue, which then creates the lock and
\* initializes both list heads unless they are there.
MutantWithInterruptQueue(d) == [WithReadyQueue(d) EXCEPT !.InProgressLock = TRUE]
WithInterruptQueue(d) ==
    [WithReadyQueue(d) EXCEPT !.InProgressLock = TRUE, !.lists = TRUE]

AllObjects(d, e) == IF e = "Interrupt" THEN WithInterruptQueue(d) ELSE WithQueue(d, e)

\* The calls of Io_Retrieve<e>Queue that can fail: WdfIoQueueCreate, and for the
\* interrupt queue WdfIoQueueReadyNotify and WdfSpinLockCreate.
QueueFails(c, e) ==
    \/ /\ e \notin dev[c].queues
       /\ FailEndpoint(c, e, dev[c])
    \/ /\ e = "Interrupt" /\ e \notin dev[c].queues
       /\ FailEndpoint(c, e, WithQueue(dev[c], e))
    \/ /\ e = "Interrupt" /\ ~ dev[c].InProgressLock
       /\ FailEndpoint(c, e, WithReadyQueue(dev[c]))

\* The three calls that create endpoint e: its queue, ...
RetrieveQueue(c, e) ==
    /\ Calls(c, "Queue")
    /\ \/ Succeed(c, AllObjects(dev[c], e), "EndpointInit")
       \/ QueueFails(c, e)

\* ... UdecxUsbSimpleEndpointInitAllocate, ...
EndpointInitAllocate(c, e) ==
    /\ Calls(c, "EndpointInit")
    /\ \/ Succeed(c, [dev[c] EXCEPT !.endpointInit = TRUE, !.temporaries = @ + 1],
                   "Endpoint")
       \/ FailEndpoint(c, e, dev[c])

\* ... and UdecxUsbEndpointCreate, which on success takes the endpoint init and
\* sets the pointer to NULL.
UsbEndpointCreated(d, e) ==
    [d EXCEPT !.endpoints = @ \cup {e}, !.endpointInit = FALSE, !.temporaries = @ - 1]

UsbEndpointCreate(c, e) ==
    /\ Calls(c, "Endpoint")
    /\ \/ Succeed(c, EndpointExit(UsbEndpointCreated(dev[c], e), e),
                   IF e = EndpointOrder[Len(EndpointOrder)] THEN "PlugIn" ELSE "Queue")
       \/ FailEndpoint(c, e, dev[c])

CreateEndpoint(c, e) ==
    /\ at[c] \in {"Queue", "EndpointInit", "Endpoint"}
    /\ e = NextEndpoint(c)
    /\ \/ RetrieveQueue(c, e)
       \/ EndpointInitAllocate(c, e)
       \/ UsbEndpointCreate(c, e)

UsbCreateControlEndpoint(c)   == CreateEndpoint(c, "Control")
UsbCreateInterruptEndpoint(c) == CreateEndpoint(c, "Interrupt")
UsbCreateBulkInEndpoint(c)    == CreateEndpoint(c, "BulkIn")
UsbCreateBulkOutEndpoint(c)   == CreateEndpoint(c, "BulkOut")
UsbDevice_CreateAndAddEndpoint(c) ==
    \E e \in Endpoints \ CachedQueues : CreateEndpoint(c, e)

\* UdecxUsbDevicePlugIn: from here on URBs reach the queues.
PlugIn(c) ==
    /\ Calls(c, "PlugIn")
    /\ \/ /\ dev' = [dev EXCEPT ![c] =
                       PlugInExit([@ EXCEPT !.VirtualMbimDevice = "plugged"])]
          /\ Enter(c, "D0")
          /\ UNCHANGED <<at, starts, instance>>
       \/ FailPlugIn(c)
-----------------------------------------------------------------------------
(* Power transitions of a started device, and its end.                      *)

\* D0Exit to, and D0Entry from, a state other than D3Final do nothing.
LowPower(c) ==
    /\ Running
    /\ \/ phase[c] = "D0" /\ Enter(c, "Dx")
       \/ phase[c] = "Dx" /\ Enter(c, "D0")
    /\ UNCHANGED <<at, starts, instance, dev>>

\* D0Exit to D3Final: Usb_Disconnect plugs the device out and deletes it; its
\* failure is ignored.  VirtualMbimDevice keeps the handle either way.
D0ExitToD3Final(c) ==
    /\ Running
    /\ phase[c] = "D0"
    /\ Enter(c, "D3Final")
    /\ \/ dev' = [dev EXCEPT ![c].VirtualMbimDevice = "deleted", ![c].endpoints = {}]
       \/ UNCHANGED dev
    /\ UNCHANGED <<at, starts, instance>>

\* The device is removed: after a failure of DeviceAdd or D0Entry, before it
\* was started, or after it was stopped.  Without a WDFDEVICE there is nothing
\* to clean up.  ControllerWdfEvtCleanupCallback takes the lock first, whether
\* or not there is one; then Usb_Destroy frees the device init.
Remove(c) ==
    /\ Running
    /\ phase[c] \in {"failed", "added", "D3Final"}
    /\ UNCHANGED <<at, starts, instance>>
    /\ IF dev[c].name # NoName /\ ~ dev[c].InProgressLock
       THEN Enter(c, "bugcheck") /\ UNCHANGED dev
       ELSE /\ Enter(c, "gone")
            /\ dev' = [dev EXCEPT ![c] = [NewDevice EXCEPT
                         !.UdecxUsbDeviceInit =
                             IF dev[c].UsbContext /\ dev[c].UdecxUsbDeviceInit # "null"
                             THEN "freed" ELSE dev[c].UdecxUsbDeviceInit,
                         !.temporaries = dev[c].temporaries]]

DeviceAddStep(c) ==
    \/ InitializeWdfDeviceInit(c)
    \/ WdfDeviceCreate(c)
    \/ SymbolicLink(c)
    \/ RegisterController(c)
    \/ AllocateIoContext(c)
    \/ AllocateUsbContext(c)
    \/ UsbDeviceInitAllocate(c)
    \/ AddDescriptors(c)

PlugInStep(c) ==
    \/ AllocateConfigDescSet(c)
    \/ AddConfigDescriptor(c)
    \/ UsbDeviceCreate(c)
    \/ UsbCreateControlEndpoint(c)
    \/ UsbCreateInterruptEndpoint(c)
    \/ UsbCreateBulkInEndpoint(c)
    \/ UsbCreateBulkOutEndpoint(c)
    \/ UsbDevice_CreateAndAddEndpoint(c)
    \/ PlugIn(c)

Next ==
    \E c \in Controllers :
        \/ DeviceAdd(c)
        \/ DeviceAddStep(c)
        \/ D0EntryFromD3Final(c)
        \/ PlugInStep(c)
        \/ LowPower(c)
        \/ D0ExitToD3Final(c)
        \/ Remove(c)

Spec == Init /\ [][Next]_vars
-----------------------------------------------------------------------------
(* Safety.                                                                  *)

\* The contexts and objects of each device are well-typed.
TypeOK ==
    /\ phase \in [Controllers -> Phases]
    /\ at \in [Controllers -> AddCalls \cup StartCalls]
    /\ starts \in [Controllers -> 0..MaxStarts]
    /\ instance \in [Controllers -> 0..MaxInstance + 1]
    /\ dev \in [Controllers -> Devices]

\* Once URBs can reach the queues, everything the URB handlers use is there,
\* without a test of their own: both contexts, the lock, the list heads, the
\* ready callback, and all endpoints with their queues.  A working device is
\* plugged in, so that D0Exit has something to plug out.
PluggedIsComplete ==
    \A c \in Controllers :
        /\ phase[c] \in {"D0", "Dx"} => dev[c].VirtualMbimDevice = "plugged"
        /\ dev[c].VirtualMbimDevice = "plugged" =>
              /\ dev[c].IoContext /\ dev[c].UsbContext
              /\ dev[c].InProgressLock /\ dev[c].lists /\ dev[c].readyNotify
              /\ dev[c].endpoints = Endpoints
              /\ dev[c].queues = CachedQueues

\* Whichever call of a start fails, and at whichever endpoint: a temporary
\* allocation is always one that a local pointer still holds, so that the exit
\* of its function can free it, and none outlives the handler that made it.
NothingLeaks ==
    \A c \in Controllers :
        /\ dev[c].temporaries = Cardinality({local \in {"configDescSet", "endpointInit"} :
                                                dev[c][local]})
        /\ phase[c] \notin {"starting", "bugcheck"} => dev[c].temporaries = 0

\* The system sees each controller under a name of its own from its creation to
\* its end, with a USB device that is plugged in at most once and never again
\* after it was plugged out, although the handle of a device that was plugged
\* out, or was not for a failure, stays in VirtualMbimDevice and a second start
\* runs the same code over it.
Presence == INSTANCE DevicePresence WITH
    Names  <- 0..MaxInstance,
    name   <- [c \in Controllers |-> dev[c].name],
    device <- [c \in Controllers |->
                  IF phase[c] = "gone" THEN "gone"
                  ELSE CASE dev[c].VirtualMbimDevice = "plugged" -> "plugged"
                         [] dev[c].VirtualMbimDevice = "deleted" -> "unplugged"
                         [] OTHER -> "none"]

ImplementsPresence == Presence!Spec

\* What the comment at the end of Usb_Initialize says: after a failure there,
\* or later but before the device is created, the UDECXUSBDEVICE_INIT is freed
\* by Usb_Destroy, which the cleanup of the failed device calls.
DeviceInitFreedByDestroy ==
    [][\A c \in Controllers :
          phase[c] = "failed" /\ phase'[c] # "failed"
          => dev'[c].UdecxUsbDeviceInit # "allocated"]_vars

\* The assertion of ControllerWdfEvtDeviceD0Entry.
NotAlreadyAllowingResetInterrupts ==
    [][\A c \in Controllers :
          starts'[c] # starts[c] => ~ dev[c].AllowOnlyResetInterrupts]_vars
=============================================================================
