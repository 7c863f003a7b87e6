--------------------------- MODULE UdeDriverProofs ---------------------------
(***************************************************************************)
(* The driver image around any number of devices: tracing outlives them,    *)
(* and what is proved of the devices by themselves holds of them here.      *)
(***************************************************************************)
EXTENDS UdeDriver, UdeControllerProofs

\* Devices are there only while the driver is loaded, and tracing follows the
\* state that DriverEntry and DriverCleanup have brought the driver to.
DriverInv ==
    /\ driver \in DriverStates
    /\ tracing \in BOOLEAN
    /\ driver # "loaded" => NoDeviceLeft
    /\ driver \in {"entry", "created", "loaded"} => tracing
    /\ driver \in {"unloaded", "not_created"} => ~ tracing
-----------------------------------------------------------------------------
\* What the driver does around its devices leaves them alone, and its own steps
\* of theirs are theirs.
LEMMA DriverStepIsDeviceStep == [DriverNext]_driverVars => [Next]_vars
BY DEF DriverNext, driverVars, WppInitTracing, WdfDriverCreate,
       InitializeControllerList, DeviceStep, DriverCleanup

\* So whatever holds of the devices by themselves holds of those of the driver.
THEOREM DriverImplementsDevices == DriverSpec => Spec
<1>1. DriverInit => Init
  BY DEF DriverInit
<1> QED
  BY <1>1, DriverStepIsDeviceStep, PTL DEF DriverSpec, Spec

\* No device is there before the entry ...
LEMMA DriverInitInv == DriverInit => DriverInv
BY DEF DriverInit, DriverInv, DriverStates, Init, NoDeviceLeft

\* ... and the driver is unloaded only when none is left.
LEMMA DriverNextInv == DriverInv /\ [DriverNext]_driverVars => DriverInv'
<1> SUFFICES ASSUME DriverInv, [DriverNext]_driverVars PROVE DriverInv'
  OBVIOUS
<1>1. ASSUME UNCHANGED vars PROVE NoDeviceLeft' = NoDeviceLeft
  BY <1>1 DEF vars, NoDeviceLeft
<1>2. CASE WppInitTracing
  BY <1>1, <1>2 DEF WppInitTracing, DriverInv, DriverStates
<1>3. CASE WdfDriverCreate
  BY <1>1, <1>3 DEF WdfDriverCreate, DriverInv, DriverStates
<1>4. CASE InitializeControllerList
  BY <1>1, <1>4 DEF InitializeControllerList, DriverInv, DriverStates
<1>5. CASE DeviceStep
  BY <1>5 DEF DeviceStep, DriverInv, DriverStates
<1>6. CASE DriverCleanup
  BY <1>1, <1>6 DEF DriverCleanup, DriverInv, DriverStates
<1>7. CASE UNCHANGED driverVars
  BY <1>1, <1>7 DEF driverVars, DriverInv, DriverStates
<1> QED
  BY <1>2, <1>3, <1>4, <1>5, <1>6, <1>7 DEF DriverNext

\* So the driver's invariant holds throughout.
LEMMA DriverInvariance == DriverSpec => []DriverInv
<1> QED
  BY DriverInitInv, DriverNextInv, PTL DEF DriverSpec

\* The driver's state is well-typed, and so is that of its devices.
THEOREM DriverTypeCorrect == DriverSpec => []DriverTypeOK
<1>1. DriverInv /\ TypeOK => DriverTypeOK
  BY DEF DriverInv, DriverTypeOK
<1> QED
  BY <1>1, DriverInvariance, DriverImplementsDevices, TypeCorrect, PTL

\* Any function of a device finds tracing registered, and no image is left, by a
\* failed entry or by its unloading, with tracing still on.
THEOREM TracingSpans == DriverSpec => []TracingSpansTheDriver
<1>1. DriverInv => TracingSpansTheDriver
  BY DEF DriverInv, TracingSpansTheDriver
<1> QED
  BY <1>1, DriverInvariance, PTL

\* What the driver's devices promise, among themselves and to the system, they
\* promise across any number of loads of the image.
THEOREM DriverDevicesKeepTheirPromises ==
    DriverSpec => /\ [](PluggedIsComplete /\ NothingLeaks)
                  /\ ImplementsPresence
<1> QED
  BY DriverImplementsDevices, PluggedInComplete, NothingIsLeaked, PresenceIsImplemented,
     PTL
=============================================================================
