# Verification of the UDE MBIM client sample

The repository is one kernel driver, `src/UDEMbimClientSample`: a USB device
emulation (UDE) client that makes the system believe that a USB host controller
with a mobile broadband (MBIM) device is plugged in. This directory holds TLA+
models of it, the TLC configurations that check them and the theorems that TLAPS
proves about them.

## The system

| Component | Code | State | Operations |
| --- | --- | --- | --- |
| MBIM control requests | `IoEvtControlUrb` (io.cpp), handlers in WwanVirtualAdapter.cpp | none | which handler serves a control URB, its tests and its status |
| Encapsulated-command channel | WwanVirtualAdapter.cpp 132-585, io.cpp 221-397 | `EncapsulatedCommandResponse`, `AvailableInterrupt`, `InProgressLock` of `IO_CONTEXT`; the manual interrupt queue; pool memory | OPEN and COMMAND queue a response and a RESPONSE_AVAILABLE notification; GET_ENCAPSULATE_RESPONSE fetches; `MbbTryDrainInterrupt` matches notifications with the host's interrupt URBs |
| NTB settings | `SetNtbInputSize`, `SetNtbFormat` | two fields of `USB_CONTEXT` | written by two control requests, read by none |
| Controller and device lifecycle | controller.cpp, usbdevice.cpp, misc.cpp, queue creation in io.cpp | `WDFDEVICE_CONTEXT`, `IO_CONTEXT`, `USB_CONTEXT`, the framework's objects | DeviceAdd, D0Entry with plug-in, D0Exit with plug-out, cleanup |
| Bulk endpoints | io.cpp 139-219, usbdevice.cpp 542-668 | two manual queues | created; no code retrieves from them |
| Callbacks without state | usbdevice.cpp 670-819, controller.cpp 351-463, 485-560 | none | endpoint reset, link power, IOCTLs, capability query |
| Driver entry and cleanup | driver.cpp | WPP tracing; a global controller list nobody uses | `DriverEntry`, `DriverCleanup` |
| Descriptors | udembimdescriptors.h, usbdevice.h, pch.h | constants of three builds | copied to UDECX, read by the host, which selects settings |

How they interact. The host's class driver (wmbclass) sends control URBs; UDECX
forwards them to a queue that dispatches *sequentially*, so one context runs the
handlers. Interrupt URBs enter a *manual* queue; when it goes from empty to not
empty the framework calls `IoEvtInterruptUrbQueueReady`, on any processor,
concurrently with the control handlers and with another such call. Both sides
run `MbbTryDrainInterrupt`. The lists are shared under the spin lock
`InProgressLock`, which the code releases by hand on nine paths; URBs are
completed and memory is freed outside it. The lifecycle callbacks of one device
are serialized by the framework, those of two devices are not. Every framework
call and allocation may fail. To take a device out of D0 the framework stops its
queues and waits for the requests in the driver's hands; a ready callback that
holds none may run on, until the deletion of the objects waits for it.

What is hard: the match of notifications and interrupt URBs (a lost wakeup on
either side leaves the host waiting for good), two drains at once, entries put
back at the head of a list, the rollback when the second of two enqueues fails,
statuses dropped between five layers of calls, queues that stop for a power
transition in the middle of a drain, cleanup after a partial construction or beside a callback that is
still running, and some fifty descriptors typed by hand next to the endpoints
that code creates for them.
`PROJECT.json` lists each hazard at its line.

What makes each component correct:

- *Control requests*: each URB completes with the status of what happened and no
  more bytes than it has. (One without a setup packet completes twice, at io.cpp:296
  and at the exit; the model does the same, and no property is about it, since
  nothing in the repository says what should happen.)
- *Channel*: every accepted response is fetched once, in order; it has exactly
  one notification; a host that fetches because it was notified finds a
  response; a notification does not wait while an interrupt URB waits; nothing
  leaks; every control URB completes.
- *Lifecycle*: a device is plugged in only when everything its URB handlers use
  exists, and at most once; whichever call fails, the exits free what their
  functions allocated for a while.
- *Device*: no handler runs without its objects; the cleanup walks no list beside
  a handler; a removed device leaves no memory; one whose queues stop gets out of D0.
- *Driver*: tracing lasts as long as anything may log and no longer.
- *Descriptors*: lengths and counts agree with what follows them; every pipe the
  host can open has an endpoint and an address of its own; what the host takes for
  the MBIM function is where the driver serves it.

## The modules

| Module | Models | Notes |
| --- | --- | --- |
| `MbimControl` | control requests | pure operators, no state |
| `ResponseChannel` | what the channel promises | abstract: accept, announce, fetch |
| `WwanVirtualAdapter` | the channel and its queues | EXTENDS `MbimControl`, implements `ResponseChannel` |
| `WwanVirtualAdapterProofs` | theorems: types, lock, removals, one handler for each control URB | EXTENDS `WwanVirtualAdapter` |
| `ResponseChannelProofs` | theorems: order, notification, refinement | EXTENDS `WwanVirtualAdapterProofs` |
| `PoolProofs` | theorem: pool memory | EXTENDS `ResponseChannelProofs` |
| `ChannelStatusProofs` | theorems: statuses, byte counts, served and stranded notifications | EXTENDS `ResponseChannelProofs` |
| `DevicePresence` | what the system sees of the controllers | abstract: appear, plug in, plug out, leave |
| `UdeController` | controller and device lifecycle | implements `DevicePresence` |
| `UdeControllerProofs` | theorems: completeness, temporary allocations, refinement | EXTENDS `UdeController` |
| `UdeDriver` | driver entry and cleanup around the devices | EXTENDS `UdeController` |
| `UdeDriverProofs` | theorems: tracing, the devices' promises within the driver | EXTENDS `UdeDriver`, `UdeControllerProofs` |
| `UdeDevice` | one device with its channel, from addition to removal | EXTENDS `WwanVirtualAdapter`, INSTANCE of `UdeController`; implements `ResponseChannel` until its cleanup frees the lists |
| `UdeDeviceProofs` | theorems: objects, cleanup, memory, the lifecycle it follows, the channel's promises inside the device | EXTENDS `UdeDevice`, `PoolProofs`, `ChannelStatusProofs`, INSTANCE of `UdeControllerProofs` |
| `UsbDescriptors` | the descriptor tables and the endpoints created, per build | pure operators, no state |
| `UsbEnumeration` | a host that enumerates the device and selects settings | EXTENDS `UsbDescriptors` |
| `UsbEnumerationProofs` | theorems: lengths and counts, pipes, associations, the way to the channel | EXTENDS `UsbEnumeration` |
| `MCWwanVirtualAdapter`, `MCUdeDevice` | instances for TLC | request sets and symmetry |

### WwanVirtualAdapter

One step is a stretch of code between two points at which another thread or the
framework can be observed: an acquire, the body of a critical section up to the
next framework call or failure, the code after the release. `pc` says where each
thread is. `Control` is the context of the control queue; `ReadyThreads` are the
contexts that run ready callbacks.

| State | Code |
| --- | --- |
| `EncapsulatedCommandResponse`, `AvailableInterrupt` | the lists of `IO_CONTEXT`; a notification is named by the kind of response it was queued for |
| `InProgressLock` | the thread that holds the spin lock |
| `pool` | allocations made by this code and not freed |
| `InterruptUrbQueue`, `readyNotify`, `powered` | the manual queue (each URB by its transfer buffer: none, short, fits), a ready callback that is due, the queue's power state |
| `request`, `status`, `bytes`, `answered`, `bufferContent` | locals of `IoEvtControlUrb` and its callees |
| `interruptUrb` | the URB a drain has retrieved |
| `accepted`, `fetched`, `delivered` | history: what the host was promised and has received |

| Code | Actions |
| --- | --- |
| `IoEvtControlUrb`, up to a handler's first wait | `RetrieveSetupFails`, `Unrecognized`, `GetNtbParameters`, `SetNtbInputSize`, `SetNtbFormat`, `ResetAdapter`, `RejectFetch`, `SendWithoutResponse`, `GetEncapsulatedCommand`, `MbbOpen`, `MbbCommand` |
| `MbbOpen`, `MbbIndicateCommandDone`, `MbbEnqueBuffer`, `MbbEnqueAvailableInterrupt` | `AcquireToEnqueue`, `EnqueueResponse`, `EnqueueAvailableInterrupt` |
| `GetEncapsulatedCommand` | `AcquireToGet`, `CheckResponse`, `RemoveResponse`, `CopyResponse` |
| `MbbTryDrainInterrupt` | `AcquireToDrain`, `CheckInterrupt`, `RetrieveNextRequest`, `RemoveInterrupt`, `DeliverInterrupt`, `GiveBackUrb` |
| exit of `IoEvtControlUrb` | `CompleteControlUrb` |
| framework and host (external) | `IoEvtInterruptUrbQueueReady`, `PostInterruptUrb`, `CancelInterruptUrb`, `PowerDown`, `PowerUp` |

The code reads a message's fields whatever the URB's length is, once the header
fits; so the length of an URB and the fields of its message are independent in
`ControlUrbs`.

### UdeController

One action per framework call that can fail, in the order of the code. `phase`
is what the framework does with the device, `at` the next call of the handler
that runs, `dev` the objects and contexts of the device. A failure of DeviceAdd
or of D0Entry leads to `Remove`, which runs the cleanup callback. A call on a null
lock or on a null device init leads to the phase "bugcheck": what the
framework does with it is not known to the code, and nothing runs after it. The
configuration is the one `pch.h` selects (`USB30_COMPOSITE`): six endpoints. Each is
created by three calls, for its queue, its endpoint init and the endpoint.

`Io_RetrieveInterruptQueue` registers the ready callback only in the call that creates
the queue (`WithReadyQueue`), then creates the lock and initializes the lists if they
are missing (`WithInterruptQueue`); a failure leaves what was made before behind
(`QueueFails`). That a queue stays cached without its callback when the registration
fails does no harm as long as a failed D0Entry ends the device; `PluggedIsComplete`
would show a device that works without the callback.

The copy of the configuration table and the endpoint init are allocated for a while.
Each function frees its own at its exit, by a test of a local pointer: `PlugInExit`,
and the five `...EndpointExit`, one for each function that creates endpoints. A call that
fails runs the exits of the functions it is in (`FailPlugIn`, `FailEndpoint`), and so does
success. `configDescSet` and `endpointInit` say whether the local pointers are NULL,
`temporaries` counts what is allocated, so that an exit that forgets to free makes the
two differ; this is what `NothingLeaks` compares.

`DevicePresence` is the lifecycle without its calls: a controller has a name of its
own from its creation to its end, and its USB device is plugged in at most once.
The refinement mapping reads the name and `VirtualMbimDevice`. It is not
obvious that the code keeps it: `Usb_Disconnect` leaves the handle in place and
ignores failures, and a second start runs `Usb_ReadDescriptorsAndPlugIn` over
it. What stops that from plugging in a second device is that
`UdecxUsbDeviceCreate` consumed the device init. That it does so, and that
`UdecxUsbDeviceInitAddDescriptor` does not succeed without one, is an assumption
about UDECX.

### UdeDriver

`driver` is how far `DriverEntry` is, `tracing` whether WPP is registered. After a
failed `WdfDriverCreate` the code goes on with an uninitialised handle; where its
writes go is a choice between no harm and a bugcheck. The devices of
`UdeController` run while the driver is loaded; the framework unloads it when the
last of them is gone.

### UdeDevice

The state is that of the channel, that of one controller, and `cleanup`, the
progress of `ControllerWdfEvtCleanupCallback`.

| Code or framework | Action |
| --- | --- |
| DeviceAdd, D0Entry from D3Final, plug-in | `Lifecycle` |
| URBs of a device that is plugged in | `HostStep` |
| a handler or a drain runs on | `ThreadStep` |
| the queues stop; D0Exit once no request is in the driver's hands; D0Entry | `StopQueues`, `ExitToLowPower`, `ResumeFromLowPower` |
| D0Exit to D3Final, `Usb_Disconnect` | `ExitToD3Final` |
| cleanup without a lock or without a WDFDEVICE | `RemoveWithoutLists` |
| acquire, `MbbCleanupBufferQueue` for each list, `Usb_Destroy` | `BeginCleanup`, `CleanupNotifications`, `CleanupResponses`, `Destroy` |

What is assumed of the framework: a power-managed queue that is stopped delivers
nothing; D0Exit and the cleanup callback wait for requests the driver has not
completed, not for a ready callback that holds none, which may therefore be
waiting for the lock while the cleanup holds it; the lock and the lists, being
part of the device object and its children, are deleted after the last
callback has returned. URBs that still wait are purged when the device is
unplugged or removed.

`NothingFreed` says that the cleanup callback has not freed a list yet. As long as
it holds, the device has to keep what it accepted (`ResponsesKept`) and may only take
the steps of `ResponseChannel` (`ImplementsChannelUntilFreed`), through any stop, start
and failure; from then on the host gets nothing more.

### UsbDescriptors and UsbEnumeration

A descriptor is a record of the fields another descriptor or the driver refers to:
type, length, numbers, counts, addresses, transfer type, packet size. Three builds
can be compiled: `USB30_COMPOSITE`, which `pch.h` selects, `USB20_COMPOSITE` and
`USB20_MOUSE`. `UsbValidateConstants` is the set of asserts of the same name.
`WellFormed` is external: what a host checks of a configuration. After that the
functions' class drivers, independently, select and close settings in any order.

`AssociationsMatchInterfaces` is about the composite builds. The mouse's association
(usbdevice.h:166) counts two interfaces where the table has one, so the property is
false of that build. What a host makes of such an association cannot be told from the
repository, and nothing in it says that the mouse's is right; so the property is stated
of the composite builds only.

### Properties

Each is stated in words above its definition. For the channel: `LockDiscipline`,
`NoRemoveFromEmptyList`, `ResponsesInOrder`, `EachResponseNotifiedOnce`,
`NotifiedFetchFindsResponse`, `CommandNotStranded`, `PoolAccounted`,
`OpenStatusIsTruthful`, `FetchStatusIsTruthful`, `BytesWithinBuffer`,
`ImplementsChannel`, and the liveness properties
`CommandIsAnnounced`, `ControlUrbCompletes` and `CommandIsFetched`. For the lifecycle:
`PluggedIsComplete`, `NothingLeaks`, `ImplementsPresence`; for the
driver `TracingSpansTheDriver`; for the device `NothingLeftBehind`,
`HandlersHaveTheirObjects`, `CleanupAlone`, `ResponsesKept`,
`ImplementsChannelUntilFreed` and the liveness property `StopCompletes`; for the descriptors `ConfigurationAccepted`, `PipesServed`,
`PipesDistinct`, `AssociationsMatchInterfaces`, `MbimLeadsToChannel`.

## The runs

| Run | Question | Result |
| --- | --- | --- |
| `channel` | safety of the channel and refinement of `ResponseChannel`, with two ready callbacks | holds |
| `control` | every control request, at every state of the lists | holds |
| `live` | every command is announced, and fetched by a host that fetches when notified; every control URB completes | holds |
| `open_stranded` | is every OPEN announced? | violated: `MbbOpen` does not drain |
| `caps_set` | is DEVICE_CAPS query only, as its log says? | violated: the status is dropped |
| `lifecycle` | two devices, every failure, within the driver's life; refinement of `DevicePresence` | holds |
| `device` | the channel inside the lifecycle: objects, cleanup, memory, that responses are kept and `ResponseChannel` is implemented until they are freed, and that a stop completes | holds |
| `driver_entry` | does a failed entry only clean up, as its comment says? | violated: it goes on with an uninitialised handle |
| `enumeration` | tables, endpoints and channel fit, under every choice of settings, in each build | holds |
| `hid` | is the HID descriptor filled in at run time, as its comment says? | violated: the table is copied as it is |
| `cleanup` | is the device init freed by `Usb_Destroy` after a failure, as its comment says? | violated: the cleanup needs a lock that does not exist |
| `restart` | does the assertion of D0Entry hold? | violated on a second start |

Bounds, and why they suffice:

- `ReadyThreads`: two in `channel`, so that two drains interleave with each other
  and with Control; they are interchangeable, hence the symmetry. One in the
  liveness runs (TLC cannot combine liveness and symmetry) and where drains are
  not the question.
- `MaxResponses = 2`: two responses are enough to be reordered, and to have one
  fetched while another is queued; the two kinds have different lengths, so a
  16-byte fetch separates them.
- `MaxInterruptUrbs = 2`: one URB in a drain's hands while another waits; with one
  the queue is full and empty alternately.
- `MaxPowerDowns = 1`: the queues stop once, at any point.
- `Requests`: in `channel` the requests of a session; in `control` one URB on each
  side of every test.
- `Controllers` two, `MaxInstance = 1`: a collision of names, and a second round of the loop;
  `MaxStarts = 2`: a restart.
- `device`: one ready callback, so that it outlives a stop and meets the cleanup;
  `MaxPowerDowns = 2`, so that a low-power round precedes the removal or a
  restart; two responses and their notifications on the lists at the end;
  URBs that do and do not hold a notification. Cancellation is left to `channel`.
- `Builds`: all three; the tables are finite and every choice of settings is taken.

`lifecycle`, `device` and the runs on parts of them say `CHECK_DEADLOCK FALSE`: a
removed device is gone for good, and so is the system after a bugcheck. So does
`enumeration`: a configuration may be refused. The channel never stops.

Fairness (`FairSpec`): weak for each step of a handler and of each drain, since
threads run on; strong for the three acquires, since a spin lock that is free
again and again is got by the thread that spins; weak for the ready callback the
framework owes, for the restart of stopped queues, and for a host that keeps an
interrupt URB posted, which USB class drivers do. Nothing is assumed about the
order of requests, about how soon an URB is posted, or about fetches, except in
`CommandIsFetched`: it is stated for a host that, when it has been notified of more
responses than it fetched, again and again sends a fetch that is long enough. The
liveness runs post URBs that hold a notification: with a host that only posts
shorter ones the drain loop need not end.

`FairDeviceSpec` has the same for the threads. Of the framework it assumes that it
goes on with what it has begun: the calls of DeviceAdd and D0Entry, D0Exit once
its condition holds, a cleanup that has started; and that it removes a device whose
DeviceAdd or D0Entry failed. It is not assumed that it stops queues, removes a device
that was added or stopped, or restarts one. The host may repost URBs that are too
short: `StopCompletes` shows that the stop of the queue ends the drain loop that
those would keep running, so that the device leaves D0, and that a device that failed,
or whose cleanup began, goes away although a ready callback may hold the lock.

What the abstractions leave out: the bytes of messages, NTB parameters and
notifications; `MbbRemoveBufferFromQueue`, which nothing calls; more than one
failure cause of an enqueue, since each frees what was allocated before. A
control URB is not cancelled, since the code does not mark it cancelable.

## What is proved

For any set of requests, any finite number of ready callbacks, any controllers, any
builds and any bounds, TLAPS checks:

| Theorem | States | Module |
| --- | --- | --- |
| `TypeCorrect` | `Spec => []TypeOK` | `WwanVirtualAdapterProofs` |
| `LockIsDisciplined` | `Spec => []LockDiscipline` | `WwanVirtualAdapterProofs` |
| `NoRemoveFromEmpty` | `Spec => []NoRemoveFromEmptyList` | `WwanVirtualAdapterProofs` |
| `OneHandlerPerUrb` | each control URB has exactly one handler | `WwanVirtualAdapterProofs` |
| `FetchedInOrder` | `Spec => []ResponsesInOrder` | `ResponseChannelProofs` |
| `NotifiedOnce` | `Spec => []EachResponseNotifiedOnce` | `ResponseChannelProofs` |
| `DriverImplementsChannel` | `Spec => ImplementsChannel` | `ResponseChannelProofs` |
| `PoolIsAccounted` | `Spec => []PoolAccounted` | `PoolProofs` |
| `NeverMoreBytesThanBuffer` | `Spec => []BytesWithinBuffer` | `ChannelStatusProofs` |
| `FetchSucceedsWithResponse` | `Spec => []FetchStatusIsTruthful` | `ChannelStatusProofs` |
| `OpenReportsWhatItDid` | `Spec => OpenStatusIsTruthful` | `ChannelStatusProofs` |
| `NotifiedHostIsServed` | `Spec => NotifiedFetchFindsResponse` | `ChannelStatusProofs` |
| `NoCommandIsStranded` | `Spec => []CommandNotStranded` | `ChannelStatusProofs` |
| `ControllerInvariance`, `TypeCorrect` | `Spec => []ControllerInv`, `Spec => []TypeOK` | `UdeControllerProofs` |
| `PluggedInComplete` | `Spec => []PluggedIsComplete` | `UdeControllerProofs` |
| `NothingIsLeaked` | `Spec => []NothingLeaks` | `UdeControllerProofs` |
| `PresenceIsImplemented` | `Spec => ImplementsPresence` | `UdeControllerProofs` |
| `DriverImplementsDevices` | `DriverSpec => Spec` | `UdeDriverProofs` |
| `DriverTypeCorrect`, `TracingSpans` | `DriverSpec => []DriverTypeOK`, `[]TracingSpansTheDriver` | `UdeDriverProofs` |
| `DriverDevicesKeepTheirPromises` | `DriverSpec` implies the three properties of the devices | `UdeDriverProofs` |
| `DeviceInvariance`, `DeviceTypeCorrect` | `DeviceSpec => []DeviceInv`, `[]DeviceTypeOK` | `UdeDeviceProofs` |
| `NothingStaysBehind` | `DeviceSpec => []NothingLeftBehind` | `UdeDeviceProofs` |
| `HandlersAreSafe` | `DeviceSpec => []HandlersHaveTheirObjects` | `UdeDeviceProofs` |
| `CleanupHasListsAlone` | `DeviceSpec => []CleanupAlone` | `UdeDeviceProofs` |
| `DeviceFollowsLifecycle` | `DeviceSpec => Lifetime!Spec` | `UdeDeviceProofs` |
| `DeviceKeepsItsPromises` | `DeviceSpec` implies the lifecycle's properties | `UdeDeviceProofs` |
| `DeviceKeepsLockDiscipline` | `DeviceSpec => [](LockDiscipline /\ NoRemoveFromEmptyList)` | `UdeDeviceProofs` |
| `DevicePoolIsAccounted` | `DeviceSpec => []PoolAccounted` | `UdeDeviceProofs` |
| `DeviceAnswersTruthfully` | `DeviceSpec => [](BytesWithinBuffer /\ FetchStatusIsTruthful)` | `UdeDeviceProofs` |
| `DeviceStepsTellTheTruth` | `DeviceSpec => OpenStatusIsTruthful /\ NotifiedFetchFindsResponse` | `UdeDeviceProofs` |
| `DeviceStrandsNoCommand` | `DeviceSpec => []CommandNotStranded` | `UdeDeviceProofs` |
| `DeviceKeepsResponses` | `DeviceSpec => []ResponsesKept` | `UdeDeviceProofs` |
| `DeviceImplementsChannel` | `DeviceSpec => ImplementsChannelUntilFreed` | `UdeDeviceProofs` |
| `EveryPipeIsServed` | `Spec => []PipesServed` | `UsbEnumerationProofs` |
| `NoTwoPipesCollide` | `Spec => []PipesDistinct` | `UsbEnumerationProofs` |
| `AssociationsMatch` | `Spec => []AssociationsMatchInterfaces` | `UsbEnumerationProofs` |
| `MbimIsServed` | `Spec => []MbimLeadsToChannel` | `UsbEnumerationProofs` |
| `SizeIsLastEnd` | `SizeofSet` of any table is where its last descriptor ends | `UsbEnumerationProofs` |
| `ConfigurationIsAccepted` | `Spec => []ConfigurationAccepted` | `UsbEnumerationProofs` |

Assumed are `ThreadsAssumption` (Control is not a ready callback, the name of the
free lock is no thread, there are finitely many callbacks), `RequestsAssumption`
(requests and buffers are of their types), `BoundsAssumption` (the bounds are
numbers), `ControllersAssumption` (the same of the lifecycle),
`DeviceAssumption` (the cleanup callback is no thread of the channel, and the
lifecycle's bounds are numbers) and `BuildsAssumption` (only builds that can be
compiled). TLC evaluates each of them in the runs of its module.

### The channel

The argument has layers.

1. `IInv` is `TypeOK`, `LockDiscipline` and two strengthenings.
   `RequestInService`: Control is in a handler only with a real request, in an
   enqueue only with a request that leads to a response, and holds a response
   only between taking and completing; without it the types of what is queued
   and copied are lost. `ListsAsChecked`: a list found non-empty is still so when
   its head is removed, a step or two later; it is inductive only together with
   the lock discipline, since it is the lock that keeps other threads from
   removing meanwhile. `DispatchProperties` sums up the eleven actions of
   `IoEvtControlUrb`; `StepInvariant` has one step for each other action.
2. `ChannelInv` adds that the created entry is the last of its list while its
   notification is being queued (so that removing the last entry undoes exactly
   the first enqueue) and that Control holds at most one response. Then every
   step does one of four things to the abstract state (`ChannelStep`): nothing,
   accept, announce, hand over. Order, the count of notifications and the
   refinement each follow from these four cases. The notifications in flight are
   counted by the cardinality of the set of delivering threads, hence the
   assumption that there are finitely many.
3. `PoolInv` adds the account of the pool; `Balance` reduces each action to what it
   adds to the entries and to what Control holds.
4. `StatusInv` is about the exit of a handler: `NoFailureBeforeExit` (no handler sets a
   failure it goes on with), `HandlerKnowsRequest` (only the fetch handler serves
   fetches, and a response it copies fits the buffer) and `ExitIsTruthful` (bytes and
   status say what happened). The two properties of completed URBs are read off it;
   `OpenStatusIsTruthful` needs only `IInv`.
5. `NotifiedFetchFindsResponse` is about a step, and follows from `HistoryAgrees`:
   accepted is fetched and pending, and each accepted response is owed or
   delivered. A fetch that finds the list empty therefore finds everything
   accepted fetched.
6. `CommandNotStranded` is inductive with `IInv` in the form `CommandWaits =>
   DrainIsBound`. Each way to make `CommandWaits` true leaves someone bound to
   drain: an URB that enters an empty queue makes a ready callback due, a command
   that queues its notification goes on to drain, a queue that starts makes the
   callback due if it is not empty. Each way out of the drain is taken
   when the list or the queue was found empty or the queue stopped, under the
   same step. An entry that is put back keeps its thread in the drain.

Each of these is a lemma about one step (`HistoryStep`, `StatusStep`, `FetchStep`,
`OpenStep`, `StrandedStep`, `ChannelRefines`), so that it can be used where the channel
is a part of something larger.

`OneHandlerPerUrb` is about the dispatch: `Takes` is what the nested switches of
`IoEvtControlUrb` ask of an URB before they give it to a handler. Of the eleven
handlers each URB, well-formed or not, meets the conditions of one and no other.

### The lifecycle and the driver

`ControllerInv` says for each controller what its phase, the next call of its handler
and its objects have to do with each other (`Consistent`): `AddedUpTo` and
`StartedUpTo` say what the handler has made before each call, by the number of
endpoints that are complete. The two facts that make it inductive are about
devices at rest. `Sound`: a device init that is still allocated has never had a
USB device created from it, so a second start, which finds none, cannot get as
far as to plug in; and what is plugged in is complete. Without it the
invariant is lost when a device is stopped and started again. `Accounted`: the
temporary allocations are as many as the local pointers that are not NULL. From it
follows what the exits do (`EndpointExitFrees`, `PlugInExitFrees`): after the exit of
the function that makes the endpoint and of `Usb_ReadDescriptorsAndPlugIn` nothing is
left, and nothing is freed twice; the objects stay as they were (`SameObjects`).

The refinement of `DevicePresence` takes one step at a time: of DeviceAdd only
`WdfDeviceCreate` is seen, of a start only `PlugIn`, of a stop `PlugOut`, and
`Remove` is `Leave` however far the device got; `UnseenFailure` covers every failed
call. That `PlugIn` finds the abstract device in "none" is `StartedUpTo`.

`DriverInv` ties the driver's state to tracing and to the absence of devices.
The driver's steps are steps of the devices or leave them alone, so `DriverSpec`
implies `Spec` and all that was proved of it.

### The device with its channel

`DeviceInv` is `ControllerInv` for the one device, the channel's invariants as far as they
hold while the cleanup callback has the lock, `PhaseTells` and `CleanupTells`.
`PhaseTells` is the heart: outside D0 either no URB has ever reached the channel,
or the queues are stopped, no URB is in the driver's hands and the contexts,
lock and lists are there for a ready callback that still runs. That is why
handlers find their objects, and why a cleanup that meets such a callback
only meets it outside the critical section: the lock is the cleanup's.
`CleanupTells` says which list is already empty, so that after both nothing is
left of the pool. The steps of the lifecycle are those that
`UdeControllerProofs` speaks of (`SameStep`) and those of the handlers those of
`PoolProofs`; neither is proved again. `DeviceFollowsLifecycle` is the same
fact for whole behaviours: waiting for its channel lets the device do
nothing that the lifecycle by itself does not.

The channel's promises carry over by a case distinction (`DeviceStepOnChannel`). For the
channel each step of the device is one of two. It is a step of `Next` or none, taken
while the channel's own invariant holds (`Channels`): the handlers, the host, the
power of the queues, and the lifecycle's calls, which do not touch the channel. Or it
meets no control URB and no delivery (`Quiet`): URBs that arrive or are purged when the
queues are stopped, D0Exit to D3Final, the steps of the cleanup, and a ready callback
that runs on beside it with nothing to send.
`ChannelsKeeps` applies the lemmas of the channel to the first, `QuietKeeps` looks at the
second. What they keep is `HostPart`: `StatusInv`, `DrainIsBound` whenever a command
waits, and `HistoryAgrees` until something is freed. The last cannot be asked for
longer: the cleanup frees accepted responses that the host never fetched. The
properties of the URBs hold without that restriction, since no control URB is in
service by then.

### The descriptors

A table is a concatenation of parts. Of each part is proved, from its
descriptors, which addresses its endpoints have, that they differ, which interfaces
it has, what its associations count (`Part`), and that an MBIM descriptor in it
leads to the channel (`Leads`); `Concatenation` and `LeadsComposes` compose them, the
latter because each part begins with an interface or association, where
what belongs to the interface before it ends. `GoodTable` then holds of every
build, and the properties follow whatever the settings are.

`ConfigurationAccepted` asks for lengths and counts. `SizeofSet` is a fold: a recursive
function over the sets of positions, which takes the positions in an order of its
choice. `SizeIsLastEnd` gives its value for any table of any length. It compares the
fold with a function that counts the bytes a set of positions covers: the two satisfy
the same equation (`Sums`), and two solutions agree (`SumsAgree`), since a set on which
they differ with the least number of elements would have a smaller one. The counts are
composed part by part (`Counts`, `CountsCompose`): the bytes of each part, the numbers of
its interfaces, and for each interface the endpoints that belong to it. These stay the
same in the whole table, because the next part begins with an interface or association.

### Only model-checked

- The liveness properties: `CommandIsAnnounced`, `ControlUrbCompletes`,
  `CommandIsFetched`, `StopCompletes`. Liveness under fairness and ENABLED are out of
  the prover's reach.

Every other property that a passing run checks is a theorem. What the violated
properties show are counterexamples; there is nothing to prove about them.

No definition of the project is a RECURSIVE operator.

## What is not modelled

- Callbacks without state: endpoint reset (which never completes its request),
  endpoints-configure, link power, function suspend, the IOCTL handler, the
  capability query, the interrupt callbacks, PrepareHardware. Each is empty or one
  decision; there is nothing to interleave it with.
- A bulk data path: the code has none. URBs on the bulk endpoints wait in manual
  queues until the device goes away.
- The branches of udembimdescriptors.h for `USB20_MBIM` and `USB30_MBIM` alone, which
  `pch.h` makes unreachable by defining the composite macro with them; tables in
  comments; class codes, versions, power, string contents.
- The mouse build's lifecycle. It creates one interrupt endpoint with a queue of its
  own and no `InProgressLock`, so its removal would take the null lock that
  `cleanup` reports for partial constructions. `UsbDescriptors` has its tables.
- Tracing macros, build and installation files: no behaviour.

## Plan

Done: the control decisions, the channel with its safety, refinement and liveness,
the lifecycle and its abstraction, the driver, the device as a composition, the
descriptors; the proof of every safety property and refinement that a passing run
checks; and the proof that the channel's promises hold inside its device.

A change of the code is followed through the layers in the same order. A new handler
is an action of `IoEvtControlUrb` and a case of `DispatchProperties`, `ChannelStep`,
`Balance` and `StatusStep`, and of `Takes` and `Served`. A new descriptor is a
part with its `Part`, `Counts` and, before an interface, `LeadingPart`. A driver that
serves its bulk endpoints would get a module beside `WwanVirtualAdapter`, with its own
queues in `UdeDevice`.
