--------------------------- MODULE DevicePresence ---------------------------
(***************************************************************************)
(* What the system sees of the emulated controllers: each appears under a   *)
(* name of its own, has its USB device plugged in at most once, and leaves. *)
(* UdeController implements this, whatever fails on the way.                *)
(***************************************************************************)
CONSTANTS Controllers,
          Names,   \* the names a controller may have
          NoName   \* the name of a controller that is not there

VARIABLES name,     \* of each controller
          device    \* its USB device: "none", "plugged", "unplugged", "gone"

presence == <<name, device>>

Init ==
    /\ name = [c \in Controllers |-> NoName]
    /\ device = [c \in Controllers |-> "none"]

Appear(c) ==
    /\ device[c] = "none"
    /\ name[c] = NoName
    /\ \E n \in Names \ {name[d] : d \in Controllers} : name' = [name EXCEPT ![c] = n]
    /\ UNCHANGED device

PlugIn(c) ==
    /\ name[c] # NoName
    /\ device[c] = "none"
    /\ device' = [device EXCEPT ![c] = "plugged"]
    /\ UNCHANGED name

PlugOut(c) ==
    /\ device[c] = "plugged"
    /\ device' = [device EXCEPT ![c] = "unplugged"]
    /\ UNCHANGED name

\* A controller may leave before it appeared, or with its device plugged in.
Leave(c) ==
    /\ device[c] # "gone"
    /\ name' = [name EXCEPT ![c] = NoName]
    /\ device' = [device EXCEPT ![c] = "gone"]

Next ==
    \E c \in Controllers :
        \/ Appear(c)
        \/ PlugIn(c)
        \/ PlugOut(c)
        \/ Leave(c)

Spec == Init /\ [][Next]_presence
=============================================================================
