----------------------------- MODULE UdeDriver -----------------------------
(***************************************************************************)
(* The driver image around its devices: DriverEntry and DriverCleanup       *)
(* (driver.cpp).  WPP tracing is registered first and has to be gone when   *)
(* the image is; every function of the driver in between logs.              *)
(***************************************************************************)
EXTENDS UdeController

VARIABLES driver,  \* how far DriverEntry is, or the image's state
          tracing  \* WPP is registered

driverVars == <<vars, driver, tracing>>

\* "entry": tracing is on; "created", "not_created": after WdfDriverCreate;
\* "loaded": DriverEntry returned a success.
DriverStates == {"unloaded", "entry", "created", "not_created", "loaded", "bugcheck"}

DriverInit == Init /\ driver = "unloaded" /\ tracing = FALSE

WppInitTracing ==
    /\ driver = "unloaded"
    /\ driver' = "entry"
    /\ tracing' = TRUE
    /\ UNCHANGED vars

\* The failure branch ends with WPP_CLEANUP, but does not return.
MutantWdfDriverCreate ==
    /\ driver = "entry"
    /\ driver' \in {"created", "not_created"}
    /\ UNCHANGED <<tracing, vars>>

WdfDriverCreate ==
    /\ driver = "entry"
    /\ \/ driver' = "created" /\ UNCHANGED tracing
       \/ driver' = "not_created" /\ tracing' = FALSE
    /\ UNCHANGED vars

\* WdfDriverGetUdecxMbimContext and the writes to what it returns.  After a
\* failure wdfDriver is uninitialised: the writes may go anywhere.
InitializeControllerList ==
    /\ \/ driver = "created" /\ driver' = "loaded"
       \/ driver = "not_created" /\ driver' \in {"unloaded", "bugcheck"}
    /\ UNCHANGED <<tracing, vars>>

\* PnP adds devices to a loaded driver only.
DeviceStep ==
    /\ driver = "loaded"
    /\ Next
    /\ UNCHANGED <<driver, tracing>>

\* WDF deletes the WDFDRIVER when its last device is gone.
NoDeviceLeft == \A c \in Controllers : phase[c] \in {"absent", "gone"}

DriverCleanup ==
    /\ driver = "loaded"
    /\ NoDeviceLeft
    /\ driver' = "unloaded"
    /\ tracing' = FALSE
    /\ UNCHANGED vars

DriverNext ==
    \/ WppInitTracing
    \/ WdfDriverCreate
    \/ InitializeControllerList
    \/ DeviceStep
    \/ DriverCleanup

DriverSpec == DriverInit /\ [][DriverNext]_driverVars
-----------------------------------------------------------------------------
\* The driver's state is one of DriverStates, and that of its devices is theirs.
DriverTypeOK ==
    /\ TypeOK
    /\ driver \in DriverStates
    /\ tracing \in BOOLEAN

\* Tracing is registered while any function of a device may log, and no image
\* is left, by a failed entry or by its unloading, with tracing still on.
TracingSpansTheDriver ==
    /\ ~ NoDeviceLeft => tracing
    /\ driver \in {"unloaded", "not_created"} => ~ tracing

\* What the comment in DriverEntry says of a failed WdfDriverCreate: there is no
\* WDFDRIVER, and what is left to do is to clean up what was created before.
FailedEntryOnlyCleansUp ==
    [][driver = "not_created" => driver' \in {"not_created", "unloaded"}]_driverVars
=============================================================================
