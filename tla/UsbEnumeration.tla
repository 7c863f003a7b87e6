--------------------------- MODULE UsbEnumeration ---------------------------
(***************************************************************************)
(* The host enumerates the device: it reads the configuration, refuses one  *)
(* that is not well-formed, splits it into functions, and the functions'    *)
(* drivers, each on its own, open interfaces and select alternate settings. *)
(* What can go wrong is in the tables; what can be opened together, and      *)
(* reaches a queue of the driver, is seen only over these choices.          *)
(***************************************************************************)
EXTENDS UsbDescriptors, FiniteSets

CONSTANT Builds  \* the builds that are enumerated

ASSUME BuildsAssumption == Builds \subseteq AllBuilds

VARIABLES build,
          stage,    \* "initialized", then "asserted" when UsbValidateConstants
                    \* failed or "plugged", and by the host "refused" or "configured"
          setting   \* of each interface: its descriptor, or 0 when it is closed

vars == <<build, stage, setting>>

Descriptors == ComputedConfigDescSet(build)

\* Positions of the descriptors of a type.
OfType(type) == {i \in DOMAIN Descriptors : Descriptors[i].type = type}

\* The positions of what belongs to the interface descriptor at i.
Of(i) == {j \in DOMAIN Descriptors :
             j > i /\ \A k \in i+1..j :
                         Descriptors[k].type \notin {"interface", "association"}}

EndpointsOf(i) == Of(i) \cap OfType("endpoint")
Number(i)  == Descriptors[i].number
Numbers    == {Number(i) : i \in OfType("interface")}
Address(j) == Descriptors[j].address

Init ==
    /\ build \in Builds
    /\ stage = "initialized"
    /\ setting = [n \in Numbers |-> 0]

PlugIn ==
    /\ stage = "initialized"
    /\ stage' = IF UsbValidateConstants(build) THEN "plugged" ELSE "asserted"
    /\ UNCHANGED <<build, setting>>

\* What the host demands of the bytes it read: lengths and counts that agree,
\* and a companion after each endpoint of a SuperSpeed device and only there.
WellFormed ==
    /\ Descriptors[1].wTotalLength = SizeofSet(Descriptors)
    /\ Descriptors[1].bNumInterfaces = Cardinality(Numbers)
    /\ \A i \in OfType("interface") :
          Descriptors[i].bNumEndpoints = Cardinality(EndpointsOf(i))
    /\ {j + 1 : j \in IF SuperSpeedPort(build) THEN OfType("endpoint") ELSE {}} =
          OfType("companion")

Configure ==
    /\ stage = "plugged"
    /\ stage' = IF WellFormed THEN "configured" ELSE "refused"
    /\ UNCHANGED <<build, setting>>

\* A function's driver selects a setting of an interface, in any order, ...
SelectSetting(i) ==
    /\ stage = "configured"
    /\ setting' = [setting EXCEPT ![Number(i)] = i]
    /\ UNCHANGED <<build, stage>>

\* ... or closes it.
CloseInterface(n) ==
    /\ stage = "configured"
    /\ setting' = [setting EXCEPT ![n] = 0]
    /\ UNCHANGED <<build, stage>>

Next ==
    \/ PlugIn
    \/ Configure
    \/ \E i \in OfType("interface") : SelectSetting(i)
    \/ \E n \in Numbers : CloseInterface(n)

Spec == Init /\ [][Next]_vars
-----------------------------------------------------------------------------
Open == {n \in Numbers : setting[n] # 0}

\* No assertion of the driver and no test of the host fails: wTotalLength,
\* bNumInterfaces and each bNumEndpoints say what the tables hold.
ConfigurationAccepted == stage \notin {"asserted", "refused"}

\* An endpoint descriptor is an offer: whatever settings are selected, each pipe
\* that opens has an endpoint and a queue that the driver created.
PipesServed ==
    \A n \in Open : \A j \in EndpointsOf(setting[n]) :
        Address(j) \in CreatedEndpoints(build)

\* No two pipes that are open at once have the same address, across functions
\* and whatever alternate settings their drivers selected.
PipesDistinct ==
    \A m, n \in Open : \A j \in EndpointsOf(setting[m]), k \in EndpointsOf(setting[n]) :
        Address(j) = Address(k) => j = k

\* What pch.h says of interface numbers, "must be continious within a IAD": the
\* interfaces an association of a composite device counts are there, and each
\* belongs to it alone.  It is not stated of the mouse build, whose one association
\* counts two interfaces (usbdevice.h:166) where the table has one.
AssociationsMatchInterfaces ==
    stage = "configured" /\ build # "USB20_MOUSE" =>
        \A a \in OfType("association") :
            LET first == Descriptors[a].first
                last  == first + Descriptors[a].count - 1
            IN  /\ first..last \subseteq Numbers
                /\ \A b \in OfType("association") \ {a} :
                       Descriptors[b].first \notin first..last

SizeofNotification == 8

\* Where the host's class driver goes for MBIM is where the driver's channel is:
\* it sends control requests to the interface with the MBIM descriptor, the one
\* whose wIndex IoEvtControlUrb takes; that interface's pipe is the endpoint the
\* channel answers on, and its packets hold a notification; its union names it
\* and the data interface that carries the bulk pipes.
MbimLeadsToChannel ==
    \A i \in OfType("interface") : \A m \in Of(i) \cap OfType("mbim") :
        /\ Number(i) = CommunicationInterfaceIndex
        /\ \A j \in EndpointsOf(i) :
              /\ Address(j) = InterruptEndpointAddress
              /\ Descriptors[j].wMaxPacketSize >= SizeofNotification
        /\ \A u \in Of(i) \cap OfType("union") :
              /\ Descriptors[u].control = Number(i)
              /\ \E d \in OfType("interface") :
                    /\ Number(d) = Descriptors[u].data
                    /\ {Address(j) : j \in EndpointsOf(d)} =
                          {BulkInEndpointAddress, BulkOutEndpointAddress}

\* What the comments in both tables say of the HID descriptor: that its fields
\* are "Filled in at runtime", before the host reads it.
HidIsFilledIn ==
    stage = "plugged" => \A h \in OfType("hid") : Descriptors[h].filledIn
=============================================================================
