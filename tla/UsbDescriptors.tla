--------------------------- MODULE UsbDescriptors ---------------------------
(***************************************************************************)
(* The descriptors of the emulated device and the endpoints the driver      *)
(* creates for it, in each of the builds that pch.h and the descriptor       *)
(* files provide: USB30_COMPOSITE (the one selected), USB20_COMPOSITE and    *)
(* USB20_MOUSE.  Of each descriptor the fields another one refers to.       *)
(***************************************************************************)
EXTENDS Naturals, Sequences, SequencesExt

AllBuilds == {"USB30_COMPOSITE", "USB20_COMPOSITE", "USB20_MOUSE"}

InterruptEndpointAddress == \h88
MouseInterruptEndpointAddress == \h81
BulkInEndpointAddress == \h89
BulkOutEndpointAddress == \h09
CommunicationInterfaceIndex == 0
DataInterfaceIndex == 1

\* g_MSInterfaceIndex<i> and the endpoints g_MSEndpointAddress<i>_...
MutantMSInterfaceIndex(i) == IF i = 3 THEN 14 ELSE 10 + i
MSInterfaceIndex(i) == 10 + i
MSInterrupt(i) == <<0, \h83, \h85, \h87>>[i + 1]
MSBulkIn(i)    == <<\h81, \h82, \h84, \h86>>[i + 1]
MSBulkOut(i)   == <<\h01, \h02, \h04, \h06>>[i + 1]

Configuration(total, interfaces) ==
    [type |-> "configuration", bLength |-> 9,
     wTotalLength |-> total, bNumInterfaces |-> interfaces]
Association(first, count) ==
    [type |-> "association", bLength |-> 8, first |-> first, count |-> count]
Interface(number, alternate, endpoints) ==
    [type |-> "interface", bLength |-> 9, number |-> number,
     alternate |-> alternate, bNumEndpoints |-> endpoints]
Endpoint(address, transfer, packet) ==
    [type |-> "endpoint", bLength |-> 7, address |-> address,
     transfer |-> transfer, wMaxPacketSize |-> packet]
Companion == [type |-> "companion", bLength |-> 6]
Functional(length) == [type |-> "functional", bLength |-> length]
Union(control, data) ==
    [type |-> "union", bLength |-> 5, control |-> control, data |-> data]
MbimFunctional == [type |-> "mbim", bLength |-> 12]
\* The seven bytes after its type are zero in the table.
Hid == [type |-> "hid", bLength |-> 9, filledIn |-> FALSE]

Usb30Mbim ==
    <<Association(CommunicationInterfaceIndex, 2),
      Interface(CommunicationInterfaceIndex, 0, 1),
      Functional(5), Union(0, 1), MbimFunctional, Functional(8),
      Endpoint(InterruptEndpointAddress, "interrupt", 1024), Companion,
      Interface(DataInterfaceIndex, 0, 0), Functional(5),
      Interface(DataInterfaceIndex, 1, 2), Functional(5),
      Endpoint(BulkInEndpointAddress, "bulk", 1024), Companion,
      Endpoint(BulkOutEndpointAddress, "bulk", 1024), Companion>>

\* Without the companion, as in a USB 2.0 table.
MutantUsb30Hid ==
    <<Association(MSInterfaceIndex(0), 1), Interface(MSInterfaceIndex(0), 0, 1), Hid,
      Endpoint(MSBulkIn(0), "interrupt", 4)>>
Usb30Hid ==
    <<Association(MSInterfaceIndex(0), 1), Interface(MSInterfaceIndex(0), 0, 1), Hid,
      Endpoint(MSBulkIn(0), "interrupt", 4), Companion>>

\* With the control interface after the data interface.
MutantUsb20Mbim ==
    <<Association(CommunicationInterfaceIndex, 2),
      Interface(DataInterfaceIndex, 0, 1),
      Functional(5), Union(1, 0), MbimFunctional, Functional(8),
      Endpoint(InterruptEndpointAddress, "interrupt", 8),
      Interface(CommunicationInterfaceIndex, 0, 0), Functional(5),
      Interface(CommunicationInterfaceIndex, 1, 2), Functional(5),
      Endpoint(BulkInEndpointAddress, "bulk", 512),
      Endpoint(BulkOutEndpointAddress, "bulk", 512)>>
Usb20Mbim ==
    <<Association(CommunicationInterfaceIndex, 2),
      Interface(CommunicationInterfaceIndex, 0, 1),
      Functional(5), Union(0, 1), MbimFunctional, Functional(8),
      Endpoint(InterruptEndpointAddress, "interrupt", 8),
      Interface(DataInterfaceIndex, 0, 0), Functional(5),
      Interface(DataInterfaceIndex, 1, 2), Functional(5),
      Endpoint(BulkInEndpointAddress, "bulk", 512),
      Endpoint(BulkOutEndpointAddress, "bulk", 512)>>

\* The vendor function of four interfaces.
BulkPair(i) ==
    <<Endpoint(MSBulkIn(i), "bulk", 512), Endpoint(MSBulkOut(i), "bulk", 512)>>

MSInterface0 ==
    <<Association(MSInterfaceIndex(0), 4), Interface(MSInterfaceIndex(0), 0, 2)>>
    \o BulkPair(0)

MutantCdcInterface(i) ==
    <<Interface(MSInterfaceIndex(i), 0, 3),
      Functional(5), Functional(5), Functional(4), Functional(5),
      Endpoint(MSInterrupt(1), "interrupt", 12)>> \o BulkPair(1)
CdcInterface(i) ==
    <<Interface(MSInterfaceIndex(i), 0, 3),
      Functional(5), Functional(5), Functional(4), Functional(5),
      Endpoint(MSInterrupt(i), "interrupt", 12)>> \o BulkPair(i)

MSInterface1 == CdcInterface(1)
MSInterface2 == CdcInterface(2)
MSInterface3 ==
    <<Interface(MSInterfaceIndex(3), 0, 3), Endpoint(MSInterrupt(3), "interrupt", 10)>>
    \o BulkPair(3)

Mouse ==
    <<Association(0, 2), Interface(0, 0, 1), Hid,
      Endpoint(MouseInterruptEndpointAddress, "interrupt", 4)>>

UsbConfigDescriptorSet(build) ==
    CASE build = "USB30_COMPOSITE" ->
            <<Configuration(162, 3)>> \o Usb30Mbim \o Usb30Hid
      [] build = "USB20_COMPOSITE" ->
            <<Configuration(264, 6)>> \o Usb20Mbim \o MSInterface0 \o MSInterface1
            \o MSInterface2 \o MSInterface3
      [] build = "USB20_MOUSE" -> <<Configuration(42, 1)>> \o Mouse

\* Usb_ReadDescriptorsAndPlugIn copies the table, and hands the copy to UDECX.
ComputedConfigDescSet(build) == UsbConfigDescriptorSet(build)

UsbDeviceDescriptor(build) ==
    [bcdUSB |-> IF build = "USB30_COMPOSITE" THEN 3 ELSE 2,
     iManufacturer |-> 1, iProduct |-> 2, iSerialNumber |-> 0]

SizeofSet(descriptors) ==
    FoldSeq(LAMBDA d, size : d.bLength + size, 0, descriptors)

\* The strings that Usb_Initialize adds under an index of their own.
ManufacturerIndex == 1
ProductIndex == 2

\* The asserts at the beginning of Usb_Initialize.
UsbValidateConstants(build) ==
    /\ UsbDeviceDescriptor(build).iManufacturer = ManufacturerIndex
    /\ UsbDeviceDescriptor(build).iProduct = ProductIndex
    /\ UsbConfigDescriptorSet(build)[1].wTotalLength =
          SizeofSet(UsbConfigDescriptorSet(build))
    /\ UsbConfigDescriptorSet(build)[1].type = "configuration"

\* The endpoints, but for the default one, that Usb_ReadDescriptorsAndPlugIn creates.
MutantCreatedEndpoints(build) ==
    IF build = "USB20_MOUSE" THEN {MouseInterruptEndpointAddress}
    ELSE {InterruptEndpointAddress, BulkInEndpointAddress, BulkOutEndpointAddress,
          MSBulkIn(0), MSBulkOut(0)}
CreatedEndpoints(build) ==
    IF build = "USB20_MOUSE" THEN {MouseInterruptEndpointAddress}
    ELSE {InterruptEndpointAddress, BulkInEndpointAddress, BulkOutEndpointAddress,
          MSBulkIn(0), MSBulkOut(0)}
         \cup IF build = "USB20_COMPOSITE"
              THEN UNION {{MSInterrupt(i), MSBulkIn(i), MSBulkOut(i)} : i \in 1..3}
              ELSE {}

\* The port the device is plugged into.
SuperSpeedPort(build) == build = "USB30_COMPOSITE"
=============================================================================
